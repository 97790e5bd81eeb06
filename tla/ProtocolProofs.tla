--------------------------- MODULE ProtocolProofs ---------------------------
(***************************************************************************)
(* Theorems about Protocol, for every set of names and bytes, every buffer *)
(* size and requests of any length.                                        *)
(***************************************************************************)
EXTENDS ProtocolLemmas

-----------------------------------------------------------------------------
(* The inductive invariant: whatever pieces it was read in, the parser is    *)
(* where the loop over all bytes of the request would be.                    *)

(* what protocol_parse returns and leaves behind when the loop ends with x *)
Outcome(x, p, r) ==
    /\ r = IF x.ret # "OK" THEN x.ret ELSE IF Done(x) THEN "DONE" ELSE "OK"
    /\ p.start = x.start /\ p.end = x.end
    /\ r = "OK" => p = Saved(x)

Parsed(s, p, r) == \E behind \in Behind : Outcome(Loop(NewPro, s, 1, behind), p, r)

PInv == TypeOK /\ Parsed(bytes, pro, ret)

LEMMA BegunSaved == ASSUME NEW x \in RunRecord, x.ret = "OK" PROVE Begun(Saved(x)) = x
  BY DEF RunRecord, Begun, Saved

LEMMA EmptyParsed == Parsed(<<>>, NewPro, "OK")
<1>0. PICK behind : behind \in Behind
  BY ProtocolAssumption
<1> DEFINE t == [i \in 0 .. 0 |-> Begun(NewPro)]
<1>1. Len(<<>>) = 0 /\ Len(<<>>) \in Nat /\ 1 \in 1 .. Len(<<>>) + 1 /\ 1 - 1 = 0
  OBVIOUS
<1>2. IsTrace(t, NewPro, <<>>, 1, behind)
  BY <1>1 DEF IsTrace
<1>3. t[0] = Begun(NewPro)
  OBVIOUS
<1> HIDE DEF t
<1>4. Loop(NewPro, <<>>, 1, behind) = t[Len(<<>>)]
  BY <1>1, <1>2, TraceLoop
<1>5. Loop(NewPro, <<>>, 1, behind) = Begun(NewPro)
  BY <1>1, <1>3, <1>4
<1>6. Outcome(Begun(NewPro), NewPro, "OK")
  BY DEF Outcome, Begun, NewPro, Done, Saved
<1> QED
  BY <1>0, <1>5, <1>6 DEF Parsed

LEMMA NewTyped == NewPro \in ProRecord
  BY DEF ProRecord, NewPro, Types, States

(* Reading on and parsing on from what was saved is parsing at once. *)
LEMMA ParserLoop ==
    ASSUME PInv, NEW piece \in Seq(Bytes), NEW behind \in Behind
    PROVE  LET s == Before \o piece
           IN  /\ s \in Seq(Bytes)
               /\ \E c \in Behind : Loop(Parser, s, Len(Before) + 1, behind) = Loop(NewPro, s, 1, c)
<1> DEFINE s == Before \o piece
<1>0. behind \in Seq(Digits)
  BY ProtocolAssumption
<1>1. CASE ret # "OK"
  <2>1. Before = <<>> /\ Parser = NewPro
    BY <1>1 DEF Before, Parser
  <2>2. s = piece /\ Len(Before) + 1 = 1
    BY <2>1
  <2> QED
    BY <2>1, <2>2
<1>2. CASE ret = "OK"
  <2>1. Before = bytes /\ Parser = pro /\ bytes \in Seq(Bytes)
    BY <1>2 DEF Before, Parser, PInv, TypeOK
  <2>2. PICK a \in Behind : Outcome(Loop(NewPro, bytes, 1, a), pro, ret)
    BY DEF PInv, Parsed
  <2>3. a \in Seq(Digits)
    BY ProtocolAssumption
  <2>4. PICK t : IsRunOf(t, NewPro, bytes, 1, a) /\ Loop(NewPro, bytes, 1, a) = t[Len(bytes)]
    BY <2>1, <2>3, WholeLoop
  <2>5. s = bytes \o piece /\ s \in Seq(Bytes)
        /\ Len(bytes) \in Nat /\ Len(s) \in Nat /\ Len(bytes) <= Len(s)
    BY <2>1
  <2>6. Begun(pro) = t[Len(bytes)] /\ Placed(bytes, Len(bytes), t[Len(bytes)])
    <3>1. Placed(bytes, Len(bytes), t[Len(bytes)])
      BY <2>1, <2>3, <2>4, LoopPlaced
    <3>2. t[Len(bytes)] \in RunRecord
      BY <3>1 DEF Placed
    <3>3. t[Len(bytes)].ret = "OK" /\ pro = Saved(t[Len(bytes)])
      BY <1>2, <2>2, <2>4, <3>2, SMTT(30), Zenon DEF Outcome, RunRecord, Errors
    <3> QED
      BY <3>1, <3>2, <3>3, BegunSaved
  <2> HIDE DEF s
  <2>7. Placed(s, Len(bytes), Begun(pro))
    <3>1. \A j \in 1 .. Len(bytes) : s[j] = bytes[j]
      BY <2>1, <2>5
    <3>2. t[Len(bytes)] \in RunRecord
      BY <2>6 DEF Placed
    <3>3. t[Len(bytes)].start \in Nat /\ t[Len(bytes)].end \in Nat
      BY <3>2 DEF RunRecord
    <3> QED
      BY <2>5, <2>6, <3>1, <3>3, SMTT(30), Zenon DEF Placed
  <2>8. Len(bytes) + 1 \in 1 .. Len(s) + 1 /\ (Len(bytes) + 1) - 1 = Len(bytes)
    BY <2>5
  <2>9. PICK u : /\ IsRunOf(u, pro, s, Len(bytes) + 1, behind)
                 /\ Loop(pro, s, Len(bytes) + 1, behind) = u[Len(s)]
    BY <1>0, <2>5, <2>7, <2>8, LoopTrace, ZenonT(30) DEF IsRunOf
  <2>10. PICK c \in {a, behind} : Loop(NewPro, s, 1, c) = u[Len(s)]
    <3>1. Begins(bytes, s)
      BY <2>1, <2>5 DEF Begins
    <3> QED
      BY <1>0, <2>3, <2>4, <2>6, <2>9, <3>1, JoinedTraces
  <2>11. Loop(Parser, s, Len(Before) + 1, behind) = Loop(NewPro, s, 1, c)
    BY <2>1, <2>9, <2>10
  <2>12. c \in Behind
    OBVIOUS
  <2> QED
    BY <2>5, <2>11, <2>12, Zenon DEF s
<1> QED
  BY <1>1, <1>2

LEMMA PInvRecv ==
    ASSUME PInv, NEW n \in Nat, NEW piece \in [1 .. n -> Bytes], NEW behind \in Behind,
           tcp_server_recv(piece, behind)
    PROVE  PInv'
<1>0. piece \in Seq(Bytes)
  OBVIOUS
<1> PICK s : s = Before \o piece
  BY Zenon
<1> PICK x : x = Loop(Parser, s, Len(Before) + 1, behind)
  BY SMTT(30), Zenon
<1>1. /\ bytes' = s
      /\ ret' = IF x.ret # "OK" THEN x.ret ELSE IF Done(x) THEN "DONE" ELSE "OK"
      /\ pro' = IF x.ret # "OK" \/ Done(x) THEN Unsaved(x, Parser) ELSE Saved(x)
  BY DEF tcp_server_recv, protocol_parse
<1>2. s \in Seq(Bytes) /\ \E c \in Behind : x = Loop(NewPro, s, 1, c)
  BY <1>0, ParserLoop, SMTT(30), Zenon
<1>3. PICK c \in Behind : x = Loop(NewPro, s, 1, c)
  BY <1>2
<1>4. c \in Seq(Digits)
  BY ProtocolAssumption
<1>5. x \in RunRecord
  <2>1. Placed(s, Len(s), x)
    BY <1>2, <1>3, <1>4, LoopPlaced, ZenonT(30)
  <2> QED
    BY <2>1 DEF Placed
<1>6. Parser \in ProRecord
  BY DEF PInv, TypeOK, Parser, NewPro, ProRecord, Types, States
<1>7. /\ Unsaved(x, Parser) \in ProRecord
      /\ Unsaved(x, Parser).start = x.start /\ Unsaved(x, Parser).end = x.end
  BY <1>5, <1>6, ZenonT(30) DEF Unsaved, ProRecord, RunRecord
<1>8. Saved(x) \in ProRecord /\ Saved(x).start = x.start /\ Saved(x).end = x.end
  BY <1>5 DEF Saved, ProRecord, RunRecord
<1>9. x.ret \in {"OK"} \cup Errors
  BY <1>5 DEF RunRecord
<1>10. TypeOK'
  BY <1>1, <1>2, <1>7, <1>8, <1>9, SMTT(30), Zenon DEF TypeOK
<1>11. Outcome(x, pro', ret')
  <2>1. pro'.start = x.start /\ pro'.end = x.end
    BY <1>1, <1>7, <1>8
  <2>2. ret' = "OK" => pro' = Saved(x)
    BY <1>1, <1>9 DEF Errors
  <2> QED
    BY <1>1, <2>1, <2>2, SMTT(30), Zenon DEF Outcome
<1>12. Parsed(bytes', pro', ret')
  BY <1>1, <1>3, <1>11, ZenonT(30) DEF Parsed
<1> QED
  BY <1>10, <1>12 DEF PInv

LEMMA PInvNext == PInv /\ [Next]_vars => PInv'
<1> SUFFICES ASSUME PInv, [Next]_vars PROVE PInv'
  OBVIOUS
<1>1. ASSUME NEW n \in 1 .. MAX_READ, NEW piece \in [1 .. n -> Bytes], NEW behind \in Behind,
             tcp_server_recv(piece, behind)
      PROVE  PInv'
  <2>1. n \in Nat
    OBVIOUS
  <2> QED
    BY <1>1, <2>1, PInvRecv, SMTT(30), Zenon
<1>2. CASE ClientCloses
  BY <1>2, EmptyParsed, NewTyped DEF ClientCloses, PInv, TypeOK
<1>3. CASE UNCHANGED vars
  BY <1>3 DEF vars, PInv, TypeOK
<1> QED
  BY <1>1, <1>2, <1>3 DEF Next

(* The inductive invariant holds of all behaviours of the parser. *)
THEOREM ParserInvariance == Spec => []PInv
<1>1. Init => PInv
  BY EmptyParsed, NewTyped DEF Init, PInv, TypeOK
<1> QED
  BY <1>1, PInvNext, PTL DEF Spec

(* Every field keeps its type, whatever is sent and in whatever pieces: in  *)
(* particular the length that protocol_parse counts down, a size_t, never   *)
(* passes zero.                                                             *)
THEOREM TypeCorrect == Spec => []TypeOK
<1>1. PInv => TypeOK
  BY SMTT(30), Zenon DEF PInv
<1> QED
  BY <1>1, ParserInvariance, PTL

(* What protocol_parse saves between two reads is all it needs: a request   *)
(* read in any pieces is parsed as it would be at once.                     *)
THEOREM PiecesTogether == Spec => []PiecesDoNotMatter
<1>1. PInv => PiecesDoNotMatter
  <2> SUFFICES ASSUME PInv, ret = "OK"
               PROVE  \E behind \in Behind :
                        LET x == Loop(NewPro, bytes, 1, behind)
                        IN  x.ret = "OK" /\ pro = Saved(x)
    BY DEF PiecesDoNotMatter
  <2>1. PICK behind \in Behind : Outcome(Loop(NewPro, bytes, 1, behind), pro, ret)
    BY DEF PInv, Parsed
  <2> DEFINE x == Loop(NewPro, bytes, 1, behind)
  <2>2. Placed(bytes, Len(bytes), x)
    BY LoopPlaced, ProtocolAssumption DEF PInv, TypeOK
  <2> HIDE DEF x
  <2>3. x.ret \in {"OK"} \cup Errors
    BY <2>2 DEF Placed, RunRecord
  <2>4. x.ret = "OK" /\ pro = Saved(x)
    BY <2>1, <2>3, SMTT(30), Zenon DEF Outcome, Errors, x
  <2> QED
    BY <2>4 DEF x
<1> QED
  BY <1>1, ParserInvariance, PTL

(* PROTOCOL_DONE is returned only for a complete request, with nothing       *)
(* behind it, in whatever pieces it was read: unless its length lies in two  *)
(* buffers, what protocol_parse has read is a request of the grammar.        *)
THEOREM DoneOnlyForRequests == Spec => []DoneIsRequest
<1>1. PInv => DoneIsRequest
  <2> SUFFICES ASSUME PInv, ret = "DONE", ~Split(pro) PROVE IsRequest(bytes, FALSE)
    BY Zenon DEF DoneIsRequest
  <2>1. bytes \in Seq(Bytes) /\ Behind \subseteq Seq(Digits)
    BY ProtocolAssumption DEF PInv, TypeOK
  <2>2. PICK behind \in Behind : Outcome(Loop(NewPro, bytes, 1, behind), pro, ret)
    BY DEF PInv, Parsed
  <2> DEFINE x == Loop(NewPro, bytes, 1, behind)
  <2>3. Placed(bytes, Len(bytes), x) /\ Reads(bytes, Len(bytes), x)
    BY <2>1, LoopPlaced, WholeReads
  <2>4. Outcome(x, pro, ret)
    BY <2>2
  <2> HIDE DEF x
  <2>5. x.ret \in {"OK"} \cup Errors
    BY <2>3 DEF Placed, RunRecord
  <2>6. x.ret = "OK" /\ Done(x) /\ ~Split(x)
    BY <2>4, <2>5, SMTT(30), Zenon DEF Outcome, Errors, Split
  <2> QED
    BY <2>1, <2>3, <2>6, DoneRequest, Zenon
<1> QED
  BY <1>1, ParserInvariance, PTL

-----------------------------------------------------------------------------
(* The other way: what a request, or its beginning, makes of the parser,    *)
(* part by part.                                                            *)

Runs(t, s, behind) ==
    s \in Seq(Bytes) /\ behind \in Seq(Digits) /\ IsRunOf(t, NewPro, s, 1, behind)

LEMMA RunStep ==
    ASSUME NEW t, NEW s, NEW behind, Runs(t, s, behind), NEW i \in 0 .. Len(s) - 1
    PROVE  /\ i \in Nat /\ i + 1 \in Nat
           /\ t[i] \in RunRecord /\ Placed(s, i, t[i]) /\ t[i + 1] = Turn(t[i], s, i + 1, behind)
<1>1. s \in Seq(Bytes) /\ Len(s) \in Nat
  BY DEF Runs
<1>2. i \in Nat /\ i + 1 \in Nat /\ i \in 1 - 1 .. Len(s) /\ i + 1 \in 1 .. Len(s) /\ (i + 1) - 1 = i
  BY <1>1
<1>3. /\ \A j \in 1 - 1 .. Len(s) : Placed(s, j, t[j])
      /\ \A j \in 1 .. Len(s) : t[j] = Turn(t[j - 1], s, j, behind)
  BY DEF Runs, IsRunOf, IsTrace
<1>4. Placed(s, i, t[i]) /\ t[i + 1] = Turn(t[i], s, i + 1, behind)
  BY <1>2, <1>3, SMTT(30), Zenon
<1> QED
  BY <1>2, <1>4 DEF Placed

(* A set of states of the parser, one for each byte, that no turn leaves. *)
LEMMA Along ==
    ASSUME NEW t, NEW s, NEW behind, Runs(t, s, behind),
           NEW lo \in 0 .. Len(s), NEW hi \in lo .. Len(s), NEW X, t[lo] \in X[lo],
           \A i \in lo .. hi - 1 : \A y \in X[i] :
              Placed(s, i, y) => Turn(y, s, i + 1, behind) \in X[i + 1]
    PROVE  \A i \in lo .. hi : t[i] \in X[i]
<1> DEFINE S == {i \in lo .. hi : t[i] \in X[i]}
<1>1. Len(s) \in Nat
  BY DEF Runs
<1>2. lo \in Int /\ hi \in Int /\ lo \in S
  BY <1>1
<1>3. ASSUME NEW n \in lo + 1 .. hi, n - 1 \in S PROVE n \in S
  <2>1. PICK i : i = n - 1
    OBVIOUS
  <2>2. i \in lo .. hi - 1 /\ i \in 0 .. Len(s) - 1 /\ n = i + 1 /\ n \in lo .. hi
    BY <1>1, <2>1, SMTT(30), Zenon
  <2>3. t[i] \in X[i] /\ Placed(s, i, t[i]) /\ t[i + 1] = Turn(t[i], s, i + 1, behind)
    BY <1>3, <2>1, <2>2, RunStep, SMTT(30), Zenon
  <2>4. t[i + 1] \in X[i + 1]
    BY <2>2, <2>3, SMTT(30), Zenon
  <2> QED
    BY <2>2, <2>4
<1> HIDE DEF S
<1>4. lo .. hi \subseteq S
  BY <1>2, <1>3, IntervalInduction, SMTT(30), Zenon
<1> QED
  BY <1>4, SMTT(30), Zenon DEF S

LEMMA Stays ==
    ASSUME NEW t, NEW s, NEW behind, Runs(t, s, behind),
           NEW lo \in 0 .. Len(s), NEW hi \in lo .. Len(s), NEW S, t[lo] \in S,
           \A i \in lo .. hi - 1 : \A y \in S :
              Placed(s, i, y) => Turn(y, s, i + 1, behind) \in S
    PROVE  t[hi] \in S
<1> DEFINE X == [i \in lo .. hi |-> S]
<1>1. Len(s) \in Nat
  BY DEF Runs
<1>2. lo \in lo .. hi /\ hi \in lo .. hi /\ \A i \in lo .. hi - 1 : i \in lo .. hi /\ i + 1 \in lo .. hi
  BY <1>1
<1>3. \A i \in lo .. hi : X[i] = S
  OBVIOUS
<1> HIDE DEF X
<1>4. t[lo] \in X[lo]
  BY <1>2, <1>3
<1>5. \A i \in lo .. hi - 1 : \A y \in X[i] :
         Placed(s, i, y) => Turn(y, s, i + 1, behind) \in X[i + 1]
  BY <1>2, <1>3, SMTT(30), Zenon
<1>6. \A i \in lo .. hi : t[i] \in X[i]
  BY <1>4, <1>5, Along
<1> QED
  BY <1>2, <1>3, <1>6

(* An exempt parser remains exempt: its last token is in two buffers, and it *)
(* has refused the name or gone past the length.                             *)
Off(x) == Past(x) /\ Split(x)

LEMMA OffStays ==
    ASSUME NEW t, NEW s, NEW behind, Runs(t, s, behind),
           NEW lo \in 0 .. Len(s), NEW hi \in lo .. Len(s), Off(t[lo])
    PROVE  Off(t[hi])
<1> DEFINE S == {y \in RunRecord : Off(y)}
<1>1. Len(s) \in Nat /\ behind \in Seq(Digits)
  BY DEF Runs
<1>2. ASSUME NEW i \in lo .. hi - 1, NEW y \in S, Placed(s, i, y) PROVE Turn(y, s, i + 1, behind) \in S
  <2> DEFINE z == Turn(y, s, i + 1, behind)
  <2>1. i \in Nat /\ i + 1 \in Nat /\ y \in RunRecord /\ Past(y) /\ Split(y) /\ y.tmp_data_len \in Nat
    BY <1>1, SMTT(30), Zenon DEF Off, RunRecord
  <2>2. Past(z) /\ Placed(s, i + 1, z)
    BY <1>1, <1>2, <2>1, PastStays, TurnPlaced, SMTT(30), Zenon
  <2>3. z.start = y.start /\ z.end = y.end
    <3>1. CASE y.ret # "OK"
      BY <3>1, TurnAfterError, SMTT(30), Zenon
    <3>2. CASE y.ret = "OK" /\ y.state = "data_len_lf"
      <4>1. y.tmp_data_len > 0
        BY <1>2, <3>2 DEF Placed
      <4> QED
        BY <2>1, <3>2, <4>1, TurnDataLenLF, SMTT(30), Zenon DEF Goes
    <3>3. CASE y.ret = "OK" /\ y.state = "data"
      <4>1. Refused(z, y) \/ Goes(z, y.type, "data", y.start, y.end, y.tmp_data_len - 1)
        BY <2>1, <3>3, TurnData
      <4> HIDE DEF z
      <4> QED
        BY <4>1, SMTT(30), Zenon DEF Refused, Goes
    <3> QED
      BY <2>1, <3>1, <3>2, <3>3, SMTT(30), Zenon DEF Past
  <2> SUFFICES z \in S
    OBVIOUS
  <2> HIDE DEF z
  <2> QED
    BY <2>1, <2>2, <2>3, SMTT(30), Zenon DEF Off, Split, Placed
<1>3. t[lo] \in S
  <2>1. \A j \in 1 - 1 .. Len(s) : Placed(s, j, t[j])
    BY DEF Runs, IsRunOf
  <2>2. lo \in 1 - 1 .. Len(s)
    BY <1>1
  <2>3. t[lo] \in RunRecord
    BY <2>1, <2>2 DEF Placed
  <2> QED
    BY <2>3
<1> HIDE DEF S
<1>4. t[hi] \in S
  BY <1>2, <1>3, Stays
<1> QED
  BY <1>4 DEF S

Is(x, state) == x \in RunRecord /\ x.ret = "OK" /\ x.state = state

LEMMA ReadBlanks ==
    ASSUME NEW t, NEW s, NEW behind, Runs(t, s, behind), NEW b \in 0 .. Len(s), Blanks(s, b)
    PROVE  Is(t[b], "start")
<1> DEFINE S == {y \in RunRecord : Is(y, "start")}
<1>1. Len(s) \in Nat
  BY DEF Runs
<1>2. t[0] \in S
  <2>1. 1 - 1 = 0
    OBVIOUS
  <2>2. t[0] = Begun(NewPro) /\ Placed(s, 0, Begun(NewPro))
    BY <2>1, BegunPlaced, SMTT(30), Zenon DEF Runs, IsRunOf, IsTrace
  <2>3. Begun(NewPro) \in S
    BY <2>2 DEF Begun, NewPro, Is, Placed
  <2> QED
    BY <2>2, <2>3
<1>3. ASSUME NEW i \in 0 .. b - 1, NEW y \in S, Placed(s, i, y) PROVE Turn(y, s, i + 1, behind) \in S
  <2>1. i + 1 \in Nat /\ is_blank(s[i + 1])
    BY <1>1 DEF Blanks
  <2>2. Turn(y, s, i + 1, behind) = y
    BY <2>1, TurnStart DEF Is
  <2> QED
    BY <2>2
<1> HIDE DEF S
<1>4. 0 \in 0 .. Len(s)
  BY <1>1
<1>5. t[b] \in S
  BY <1>2, <1>3, <1>4, Stays, SMTT(30), Zenon
<1> QED
  BY <1>5 DEF S

LEMMA ReadName ==
    ASSUME NEW t, NEW s, NEW behind, Runs(t, s, behind), NEW b \in Nat, NEW j \in b + 1 .. Len(s),
           Is(t[b], "start"), \A i \in b + 1 .. j : s[i] \in Upper
    PROVE  Is(t[j], "type") /\ t[j].start = b + 1
<1> DEFINE S == {y \in RunRecord : Is(y, "type") /\ y.start = b + 1}
<1>1. Len(s) \in Nat
  BY DEF Runs
<1>2. b \in 0 .. Len(s) - 1 /\ b + 1 \in 0 .. Len(s) /\ j \in b + 1 .. Len(s) /\ b + 1 \in b + 1 .. j
  BY <1>1
<1>3. t[b + 1] \in S
  <2>1. t[b + 1] = Turn(t[b], s, b + 1, behind) /\ t[b] \in RunRecord /\ b + 1 \in Nat
    BY <1>2, RunStep, SMTT(30), Zenon
  <2>2. Goes(t[b + 1], t[b].type, "type", b + 1, t[b].end, t[b].tmp_data_len)
    BY <1>2, <2>1, TurnStart, SMTT(30), Zenon DEF Is
  <2> QED
    BY <2>2 DEF Goes, Is
<1>4. ASSUME NEW i \in b + 1 .. j - 1, NEW y \in S, Placed(s, i, y) PROVE Turn(y, s, i + 1, behind) \in S
  <2>1. i + 1 \in Nat /\ s[i + 1] \in Upper
    BY <1>1, SMTT(30), Zenon
  <2>2. Turn(y, s, i + 1, behind) = y
    BY <2>1, TurnType DEF Is
  <2> QED
    BY <2>2
<1> HIDE DEF S
<1>5. t[j] \in S
  BY <1>2, <1>3, <1>4, Stays, SMTT(30), Zenon
<1> QED
  BY <1>5 DEF S

LEMMA NameIs ==
    ASSUME NEW s, NEW b \in Nat, NEW w \in DOMAIN Names, NameAt(s, b, w)
    PROVE  SubSeq(s, b + 1, b + Len(w)) = w
<1>1. w \in Seq(Upper) /\ Len(w) \in Nat
  BY ProtocolAssumption
<1>2. w = [k \in 1 .. Len(w) |-> w[k]]
  BY <1>1
<1>3. SubSeq(s, b + 1, b + Len(w)) = [k \in 1 .. (1 + (b + Len(w)) - (b + 1)) |-> s[k + (b + 1) - 1]]
  OBVIOUS
<1>4. 1 + (b + Len(w)) - (b + 1) = Len(w) /\ \A k \in 1 .. Len(w) : k + (b + 1) - 1 = b + k
  BY <1>1
<1>5. \A k \in 1 .. Len(w) : s[k + (b + 1) - 1] = w[k]
  BY <1>4, SMTT(30), Zenon DEF NameAt
<1> QED
  BY <1>2, <1>3, <1>4, <1>5, SMTT(30), Zenon

(* as much of a line with the name w as there is *)
LineGoes(s, b, w) ==
    /\ \A k \in 1 .. Len(w) : b + k <= Len(s) => s[b + k] = w[k]
    /\ Len(s) >= b + Len(w) + 1 => s[b + Len(w) + 1] = CR
    /\ Len(s) >= b + Len(w) + 2 => s[b + Len(w) + 2] = LF

(* no error but one that is exempt *)
Fine(x) == x.ret = "OK" \/ Split(x)

LEMMA ReadLine ==
    ASSUME NEW t, NEW s, NEW behind, Runs(t, s, behind), NEW b \in 0 .. Len(s),
           NEW w \in DOMAIN Names, Blanks(s, b), LineGoes(s, b, w)
    PROVE  /\ Len(s) <= b + Len(w) + 1 => Fine(t[Len(s)])
           /\ Len(s) >= b + Len(w) + 2 =>
                 \/ Off(t[b + Len(w) + 2])
                 \/ Is(t[b + Len(w) + 2], "type_lf") /\ t[b + Len(w) + 2].type = Names[w]
<1>1. Len(s) \in Nat /\ b \in Nat /\ w \in Seq(Upper) /\ Len(w) \in Nat /\ Len(w) >= 1
  BY ProtocolAssumption DEF Runs
<1>2. PICK e \in Nat : e = b + Len(w)
  BY <1>1
<1>3. Is(t[b], "start")
  BY ReadBlanks, SMTT(30), Zenon
<1>4. ASSUME NEW j \in b + 1 .. Len(s), j <= e PROVE Is(t[j], "type") /\ t[j].start = b + 1
  <2>1. ASSUME NEW i \in b + 1 .. j PROVE s[i] \in Upper
    <3>1. PICK k : k = i - b
      OBVIOUS
    <3>2. k \in 1 .. Len(w) /\ b + k = i /\ b + k <= Len(s)
      BY <1>1, <1>2, <1>4, <3>1, SMTT(30), Zenon
    <3>3. s[i] = w[k] /\ w[k] \in Upper
      BY <1>1, <3>2, SMTT(30), Zenon DEF LineGoes
    <3> QED
      BY <3>3
  <2> QED
    BY <1>1, <1>3, <2>1, ReadName, SMTT(30), Zenon
<1>5. ASSUME Len(s) >= e + 1
      PROVE  Is(t[e + 1], "type_cr") /\ t[e + 1].start = b + 1 /\ t[e + 1].end = e + 1
  <2>1. Is(t[e], "type") /\ t[e].start = b + 1 /\ s[e + 1] = CR /\ e \in 0 .. Len(s) - 1
    BY <1>1, <1>2, <1>4, <1>5, SMTT(30), Zenon DEF LineGoes
  <2>2. t[e + 1] = Turn(t[e], s, e + 1, behind) /\ t[e] \in RunRecord /\ e + 1 \in Nat
    BY <2>1, RunStep, SMTT(30), Zenon
  <2>3. Goes(t[e + 1], t[e].type, "type_cr", b + 1, e + 1, t[e].tmp_data_len)
    BY <2>1, <2>2, TurnType, SMTT(30), Zenon DEF Is
  <2> QED
    BY <2>3 DEF Goes, Is
<1>6. ASSUME Len(s) >= e + 2
      PROVE  Off(t[e + 2]) \/ (Is(t[e + 2], "type_lf") /\ t[e + 2].type = Names[w])
  <2>1. /\ Is(t[e + 1], "type_cr") /\ t[e + 1].start = b + 1 /\ t[e + 1].end = e + 1
        /\ s[e + 2] = LF /\ e + 1 \in 0 .. Len(s) - 1 /\ (e + 1) + 1 = e + 2
    BY <1>1, <1>2, <1>5, <1>6, SMTT(30), Zenon DEF LineGoes
  <2>2. t[e + 2] = Turn(t[e + 1], s, e + 2, behind) /\ t[e + 1] \in RunRecord /\ e + 2 \in Nat
    BY <2>1, RunStep, SMTT(30), Zenon
  <2>3. NameAt(s, b, w)
    BY <1>1, <1>2, <1>6, SMTT(30), Zenon DEF LineGoes, NameAt
  <2>4. SubSeq(s, b + 1, (e + 1) - 1) = w
    BY <1>1, <1>2, <2>3, NameIs, SMTT(30), Zenon
  <2> DEFINE x == t[e + 1]
             y == t[e + 2]
  <2>5. x.ret = "OK" /\ x.state = "type_cr" /\ SubSeq(s, x.start, x.end - 1) = w
    BY <2>1, <2>4, SMTT(30), Zenon DEF Is
  <2>6. /\ ~Split(x) => Goes(y, Names[w], "type_lf", x.start, x.end, x.tmp_data_len)
        /\ Split(x) => Refused(y, x)
    BY <2>1, <2>2, <2>5, TurnTypeCR, ZenonT(30)
  <2> SUFFICES Off(y) \/ (Is(y, "type_lf") /\ y.type = Names[w])
    OBVIOUS
  <2> HIDE DEF x, y
  <2> QED
    BY <2>6, SMTT(30), Zenon DEF Goes, Refused, Is, Off, Past, Split
<1>7. Len(s) <= e + 1 => Fine(t[Len(s)])
  BY <1>1, <1>2, <1>3, <1>4, <1>5 DEF Fine, Is
<1> QED
  BY <1>2, <1>6, <1>7, SMTT(30), Zenon

LEMMA ReadHeaders ==
    ASSUME NEW t, NEW s, NEW behind, Runs(t, s, behind), NEW type,
           NEW l \in 0 .. Len(s), NEW h \in l .. Len(s),
           Is(t[l], "type_lf"), t[l].type = type, HeadersAt(s, l, h)
    PROVE  (Is(t[h], "type_lf") \/ Is(t[h], "headers")) /\ t[h].type = type
<1> DEFINE S == {y \in RunRecord : (Is(y, "type_lf") \/ Is(y, "headers")) /\ y.type = type}
<1>1. Len(s) \in Nat
  BY DEF Runs
<1>2. t[l] \in S
  BY DEF Is
<1>3. ASSUME NEW i \in l .. h - 1, NEW y \in S, Placed(s, i, y) PROVE Turn(y, s, i + 1, behind) \in S
  <2>1. i + 1 \in Nat /\ IsHeader(s[i + 1])
    BY <1>1 DEF HeadersAt
  <2>2. y.ret = "OK" /\ y.state \in {"type_lf", "headers"}
    BY DEF Is
  <2>3. Goes(Turn(y, s, i + 1, behind), y.type, "headers", y.start, y.end, y.tmp_data_len)
    BY <2>1, <2>2, TurnHeaders, SMTT(30), Zenon
  <2> QED
    BY <2>3 DEF Goes, Is
<1> HIDE DEF S
<1>4. t[h] \in S
  BY <1>2, <1>3, Stays, SMTT(30), Zenon
<1> QED
  BY <1>4 DEF S

LEMMA ReadBreak ==
    ASSUME NEW t, NEW s, NEW behind, Runs(t, s, behind), NEW type, NEW h \in 0 .. Len(s),
           Is(t[h], "type_lf") \/ Is(t[h], "headers"), t[h].type = type
    PROVE  /\ Len(s) >= h + 1 /\ s[h + 1] = CR => Is(t[h + 1], "headers_cr") /\ t[h + 1].type = type
           /\ Len(s) >= h + 2 /\ EndAt(s, h) => Is(t[h + 2], "headers_lf") /\ t[h + 2].type = type
<1>1. Len(s) \in Nat
  BY DEF Runs
<1>2. ASSUME Len(s) >= h + 1, s[h + 1] = CR PROVE Is(t[h + 1], "headers_cr") /\ t[h + 1].type = type
  <2>1. h \in 0 .. Len(s) - 1
    BY <1>1, <1>2
  <2>2. t[h + 1] = Turn(t[h], s, h + 1, behind) /\ t[h] \in RunRecord /\ h + 1 \in Nat
    BY <2>1, RunStep
  <2>3. t[h].ret = "OK" /\ t[h].state \in {"type_lf", "headers"}
    BY SMTT(30), Zenon DEF Is
  <2>4. Goes(t[h + 1], type, "headers_cr", t[h].start, t[h].end, t[h].tmp_data_len)
    BY <1>2, <2>2, <2>3, TurnHeaders, SMTT(30), Zenon
  <2> QED
    BY <2>4 DEF Goes, Is
<1>3. ASSUME Len(s) >= h + 2, EndAt(s, h) PROVE Is(t[h + 2], "headers_lf") /\ t[h + 2].type = type
  <2>1. h + 1 \in 0 .. Len(s) - 1 /\ (h + 1) + 1 = h + 2 /\ Len(s) >= h + 1
    BY <1>1, <1>3
  <2>2. t[h + 2] = Turn(t[h + 1], s, h + 2, behind) /\ t[h + 1] \in RunRecord /\ h + 2 \in Nat
    BY <2>1, RunStep
  <2>3. t[h + 1].ret = "OK" /\ t[h + 1].state = "headers_cr" /\ t[h + 1].type = type /\ s[h + 2] = LF
    BY <1>2, <1>3, <2>1, SMTT(30), Zenon DEF Is, EndAt
  <2>4. Goes(t[h + 2], type, "headers_lf", t[h + 1].start, t[h + 1].end, t[h + 1].tmp_data_len)
    BY <2>2, <2>3, TurnHeadersCR, SMTT(30), Zenon
  <2> QED
    BY <2>4 DEF Goes, Is
<1> QED
  BY <1>2, <1>3

LEMMA ReadDigits ==
    ASSUME NEW t, NEW s, NEW behind, Runs(t, s, behind), NEW m \in Nat, NEW d \in m + 1 .. Len(s),
           Is(t[m], "headers_lf"), t[m].type = "PUT_T", DigitsAt(s, m, d)
    PROVE  Is(t[d], "data_len") /\ t[d].start = m + 1 /\ t[d].type = "PUT_T"
<1> DEFINE S == {y \in RunRecord : Is(y, "data_len") /\ y.start = m + 1 /\ y.type = "PUT_T"}
<1>1. Len(s) \in Nat
  BY SMTT(30), Zenon DEF Runs
<1>2. m \in 0 .. Len(s) - 1 /\ m + 1 \in 0 .. Len(s) /\ m + 1 \in m + 1 .. d
  BY <1>1
<1>3. t[m + 1] \in S
  <2>1. t[m + 1] = Turn(t[m], s, m + 1, behind) /\ t[m] \in RunRecord /\ m + 1 \in Nat
    BY <1>2, RunStep
  <2>2. is_digit(s[m + 1])
    BY <1>2, SMTT(30), Zenon DEF DigitsAt
  <2>3. Goes(t[m + 1], "PUT_T", "data_len", m + 1, t[m].end, t[m].tmp_data_len)
    BY <2>1, <2>2, TurnHeadersLF, SMTT(30), Zenon DEF Is
  <2> QED
    BY <2>3, SMTT(30), Zenon DEF Goes, Is
<1>4. ASSUME NEW i \in m + 1 .. d - 1, NEW y \in S, Placed(s, i, y) PROVE Turn(y, s, i + 1, behind) \in S
  <2>1. i + 1 \in Nat /\ is_digit(s[i + 1])
    BY <1>1, SMTT(30), Zenon DEF DigitsAt
  <2>2. Turn(y, s, i + 1, behind) = y
    BY <2>1, TurnDataLen, SMTT(30), Zenon DEF Is
  <2> QED
    BY <2>2
<1> HIDE DEF S
<1>5. t[d] \in S
  BY <1>2, <1>3, <1>4, Stays, SMTT(30), Zenon
<1> QED
  BY <1>5, SMTT(30), Zenon DEF S

LEMMA ReadLengthCR ==
    ASSUME NEW t, NEW s, NEW behind, Runs(t, s, behind), NEW m \in Nat, NEW d \in m + 1 .. Len(s),
           Is(t[d], "data_len"), t[d].start = m + 1, t[d].type = "PUT_T",
           Len(s) >= d + 1, s[d + 1] = CR
    PROVE  /\ Is(t[d + 1], "data_len_cr") /\ t[d + 1].type = "PUT_T"
           /\ t[d + 1].start = m + 1 /\ t[d + 1].end = d + 1
<1>1. Len(s) \in Nat
  BY DEF Runs
<1>2. d \in 0 .. Len(s) - 1
  BY <1>1, SMTT(30), Zenon
<1>3. t[d + 1] = Turn(t[d], s, d + 1, behind) /\ t[d] \in RunRecord /\ d + 1 \in Nat
  BY <1>2, RunStep, SMTT(30), Zenon
<1>4. Goes(t[d + 1], "PUT_T", "data_len_cr", m + 1, d + 1, t[d].tmp_data_len)
  BY <1>3, TurnDataLen, SMTT(30), Zenon DEF Is
<1> QED
  BY <1>4 DEF Goes, Is

LEMMA ReadLengthLF ==
    ASSUME NEW t, NEW s, NEW behind, Runs(t, s, behind), NEW m \in Nat, NEW d \in m + 1 .. Len(s),
           Is(t[d + 1], "data_len_cr"), t[d + 1].type = "PUT_T",
           t[d + 1].start = m + 1, t[d + 1].end = d + 1,
           Len(s) >= d + 2, s[d + 2] = LF, NumberAt(s, m, d) > 0
    PROVE  \/ Off(t[d + 2])
           \/ /\ Is(t[d + 2], "data_len_lf") /\ t[d + 2].type = "PUT_T"
              /\ t[d + 2].tmp_data_len = NumberAt(s, m, d)
<1> DEFINE x == t[d + 1]
           y == t[d + 2]
           n == Length(x, s, behind)
<1>1. Len(s) \in Nat /\ behind \in Seq(Digits)
  BY SMTT(30), Zenon DEF Runs
<1>2. d \in Nat /\ d + 1 \in 0 .. Len(s) - 1 /\ (d + 1) + 1 = d + 2
  BY <1>1, SMTT(30), Zenon
<1>3. y = Turn(x, s, d + 2, behind) /\ x \in RunRecord /\ Placed(s, d + 1, x) /\ d + 1 \in Nat /\ d + 2 \in Nat
  BY <1>2, RunStep, SMTT(30), Zenon
<1>4. x.ret = "OK" /\ x.state = "data_len_cr" /\ x.type = "PUT_T" /\ x.start = m + 1 /\ x.end = d + 1
  BY SMTT(30), Zenon DEF Is
<1>5. n \in Nat
  BY <1>1, <1>3, <1>4, LengthType, SMTT(30), Zenon
<1>6. /\ n > 0 => Goes(y, x.type, "data_len_lf", x.start, x.end, n)
      /\ ~(n > 0) => Refused(y, x)
  BY <1>3, <1>4, <1>5, TurnDataLenCR, SMTT(30), Zenon
<1>7. ~Split(x) => n = NumberAt(s, m, d)
  <2>1. x.start >= 1 /\ x.start < x.end /\ x.start - 1 = m /\ x.end - 1 = d
    BY <1>2, <1>4, SMTT(30), Zenon
  <2>2. ASSUME ~Split(x) PROVE n = NumberAt(s, x.start - 1, x.end - 1)
    BY <1>3, <2>1, <2>2, LengthWhole, SMTT(30), Zenon
  <2> QED
    BY <2>1, <2>2, SMTT(30), Zenon
<1> SUFFICES \/ Off(y)
             \/ Is(y, "data_len_lf") /\ y.type = "PUT_T" /\ y.tmp_data_len = NumberAt(s, m, d)
  BY SMTT(30), Zenon
<1> HIDE DEF x, y, n
<1>8. CASE Split(x)
  <2>1. Refused(y, x) \/ Goes(y, x.type, "data_len_lf", x.start, x.end, n)
    BY <1>6, SMTT(30), Zenon
  <2> QED
    BY <1>8, <2>1, SMTT(30), Zenon DEF Refused, Goes, Off, Past, Split
<1>9. CASE ~Split(x)
  BY <1>4, <1>6, <1>7, <1>9, SMTT(30), Zenon DEF Goes, Is
<1> QED
  BY <1>8, <1>9, SMTT(30), Zenon

LEMMA ReadData ==
    ASSUME NEW t, NEW s, NEW behind, Runs(t, s, behind), NEW e \in 0 .. Len(s), NEW k \in Nat,
           Is(t[e], "data_len_lf"), t[e].type = "PUT_T", t[e].tmp_data_len = k, Len(s) - e <= k
    PROVE  /\ Is(t[Len(s)], IF Len(s) = e THEN "data_len_lf" ELSE "data")
           /\ t[Len(s)].type = "PUT_T" /\ t[Len(s)].tmp_data_len = k - (Len(s) - e)
<1> DEFINE On(i) == {y \in RunRecord : /\ Is(y, IF i = e THEN "data_len_lf" ELSE "data")
                                       /\ y.type = "PUT_T" /\ y.tmp_data_len = k - (i - e)}
           X == [i \in e .. Len(s) |-> On(i)]
<1>1. Len(s) \in Nat /\ e \in Nat
  BY DEF Runs
<1>2. \A i \in e .. Len(s) : X[i] = On(i)
  OBVIOUS
<1> HIDE DEF X
<1>3. t[e] \in X[e]
  <2>1. k - (e - e) = k /\ e \in e .. Len(s)
    BY <1>1, SMTT(30), Zenon
  <2>2. t[e] \in On(e)
    BY <2>1, SMTT(30), Zenon DEF Is
  <2> QED
    BY <1>2, <2>1, <2>2, SMTT(30), Zenon
<1>4. ASSUME NEW i \in e .. Len(s) - 1, NEW y \in X[i], Placed(s, i, y)
      PROVE  Turn(y, s, i + 1, behind) \in X[i + 1]
  <2> DEFINE z == Turn(y, s, i + 1, behind)
  <2>1. i \in e .. Len(s) /\ i + 1 \in e .. Len(s) /\ i + 1 # e /\ k - (i - e) > 0
        /\ k - ((i + 1) - e) = (k - (i - e)) - 1
    BY <1>1, SMTT(30), Zenon
  <2>2. y \in RunRecord /\ y.ret = "OK" /\ y.type = "PUT_T" /\ y.tmp_data_len = k - (i - e)
        /\ y.state \in {"data_len_lf", "data"}
    BY <1>2, <2>1, SMTT(30), Zenon DEF Is
  <2>3. Goes(z, y.type, "data", y.start, y.end, y.tmp_data_len - 1)
    BY <2>1, <2>2, TurnDataLenLF, TurnData, SMTT(30), Zenon
  <2>4. z.tmp_data_len = k - ((i + 1) - e)
    <3>1. z.tmp_data_len = y.tmp_data_len - 1
      BY <2>3, SMTT(30), Zenon DEF Goes
    <3> QED
      BY <2>1, <2>2, <3>1, SMTT(30), Zenon
  <2> HIDE DEF z
  <2>5. z \in On(i + 1)
    BY <2>1, <2>2, <2>3, <2>4, SMTT(30), Zenon DEF Goes, Is
  <2> QED
    BY <1>2, <2>1, <2>5, SMTT(30), Zenon DEF z
<1>5. Len(s) \in e .. Len(s)
  BY <1>1, SMTT(30), Zenon
<1>6. \A i \in e .. Len(s) : t[i] \in X[i]
  BY <1>3, <1>4, <1>5, Along, SMTT(30), Zenon
<1> QED
  BY <1>2, <1>5, <1>6, SMTT(30), Zenon

(* A whole request is at its end, the beginning of one goes on. *)
Answered(x, part) == Split(x) \/ (x.ret = "OK" /\ (part \/ Done(x)))

LEMMA DataAnswered ==
    ASSUME NEW t, NEW s, NEW behind, Runs(t, s, behind), NEW part \in BOOLEAN,
           NEW m \in 0 .. Len(s), NEW d \in m .. Len(s),
           Is(t[m], "headers_lf"), t[m].type = "PUT_T", DataAt(s, m, d, part)
    PROVE  Answered(t[Len(s)], part)
<1>1. Len(s) \in Nat /\ m \in Nat /\ d \in Nat /\ DigitsAt(s, m, d)
  <2>1. s \in Seq(Bytes) /\ DigitsAt(s, m, d)
    BY DEF Runs, DataAt
  <2>2. Len(s) \in Nat
    BY <2>1, SMTT(30), Zenon
  <2> QED
    BY <2>1, <2>2, SMTT(30), Zenon
<1>2. ASSUME d > m PROVE Is(t[d], "data_len") /\ t[d].start = m + 1 /\ t[d].type = "PUT_T"
  <2>1. d \in m + 1 .. Len(s)
    BY <1>1, <1>2, SMTT(30), Zenon
  <2> QED
    BY <1>1, <2>1, ReadDigits, SMTT(30), Zenon
<1>3. CASE part /\ Len(s) = d
  <2>1. t[Len(s)].ret = "OK"
    BY <1>1, <1>2, <1>3, SMTT(30), Zenon DEF Is
  <2> QED
    BY <1>3, <2>1, SMTT(30), Zenon DEF Answered
<1>4. CASE part /\ d > m /\ Len(s) = d + 1 /\ s[d + 1] = CR
  <2>1. d \in m + 1 .. Len(s) /\ Len(s) >= d + 1
    BY <1>1, <1>4, SMTT(30), Zenon
  <2>2. Is(t[d + 1], "data_len_cr")
    BY <1>1, <1>2, <1>4, <2>1, ReadLengthCR, SMTT(30), Zenon
  <2> QED
    BY <1>4, <2>2, SMTT(30), Zenon DEF Answered, Is
<1>5. CASE /\ d > m /\ NumberAt(s, m, d) > 0
           /\ Len(s) >= d + 2 /\ EndAt(s, d)
           /\ \/ Len(s) - (d + 2) = NumberAt(s, m, d)
              \/ part /\ Len(s) - (d + 2) < NumberAt(s, m, d)
  <2>1. /\ d \in m + 1 .. Len(s) /\ Len(s) >= d + 1 /\ d + 2 \in 0 .. Len(s) /\ Len(s) \in d + 2 .. Len(s)
        /\ s[d + 1] = CR /\ s[d + 2] = LF
    BY <1>1, <1>5, SMTT(30), Zenon DEF EndAt
  <2>2. /\ Is(t[d + 1], "data_len_cr") /\ t[d + 1].type = "PUT_T"
        /\ t[d + 1].start = m + 1 /\ t[d + 1].end = d + 1
    BY <1>1, <1>2, <1>5, <2>1, ReadLengthCR, SMTT(30), Zenon
  <2>3. \/ Off(t[d + 2])
        \/ /\ Is(t[d + 2], "data_len_lf") /\ t[d + 2].type = "PUT_T"
           /\ t[d + 2].tmp_data_len = NumberAt(s, m, d)
    <3>1. m \in Nat /\ Len(s) >= d + 2 /\ NumberAt(s, m, d) > 0
      BY <1>1, <1>5, SMTT(30), Zenon
    <3> QED
      BY <2>1, <2>2, <3>1, ReadLengthLF, ZenonT(30)
  <2>4. CASE Off(t[d + 2])
    <3>1. Off(t[Len(s)])
      BY <2>1, <2>4, OffStays, SMTT(30), Zenon
    <3> QED
      BY <3>1, SMTT(30), Zenon DEF Off, Answered
  <2>5. CASE /\ Is(t[d + 2], "data_len_lf") /\ t[d + 2].type = "PUT_T"
             /\ t[d + 2].tmp_data_len = NumberAt(s, m, d)
    <3>1. PICK k \in Nat : k = NumberAt(s, m, d)
      BY <2>5, SMTT(30), Zenon DEF Is, RunRecord
    <3>2. k > 0 /\ Len(s) - (d + 2) <= k /\ t[d + 2].tmp_data_len = k
          /\ (part \/ (Len(s) # d + 2 /\ k - (Len(s) - (d + 2)) = 0))
      BY <1>1, <1>5, <2>5, <3>1, SMTT(30), Zenon
    <3>3. /\ Is(t[Len(s)], IF Len(s) = d + 2 THEN "data_len_lf" ELSE "data")
          /\ t[Len(s)].type = "PUT_T" /\ t[Len(s)].tmp_data_len = k - (Len(s) - (d + 2))
      BY <2>1, <2>5, <3>2, ReadData, ZenonT(30)
    <3>4. t[Len(s)].ret = "OK"
      BY <3>3 DEF Is
    <3>5. CASE part
      BY <3>4, <3>5 DEF Answered
    <3>6. CASE Len(s) # d + 2 /\ k - (Len(s) - (d + 2)) = 0
      <4>1. Done(t[Len(s)])
        BY <3>3, <3>6 DEF Is, Done
      <4> QED
        BY <3>4, <4>1 DEF Answered
    <3> QED
      BY <3>2, <3>5, <3>6, SMTT(30), Zenon
  <2> QED
    BY <2>3, <2>4, <2>5, SMTT(30), Zenon
<1> QED
  BY <1>3, <1>4, <1>5, SMTT(30), Zenon DEF DataAt

LEMMA RestAnswered ==
    ASSUME NEW t, NEW s, NEW behind, Runs(t, s, behind), NEW part \in BOOLEAN, NEW type,
           NEW l \in 0 .. Len(s), NEW h \in l .. Len(s), type # "UNKNOW",
           Is(t[l], "type_lf"), t[l].type = type, RestAt(s, l, h, type, part)
    PROVE  Answered(t[Len(s)], part)
<1>1. Len(s) \in Nat /\ h \in Nat /\ h \in 0 .. Len(s) /\ HeadersAt(s, l, h)
  <2>1. s \in Seq(Bytes) /\ HeadersAt(s, l, h)
    BY SMTT(30), Zenon DEF Runs, RestAt
  <2>2. Len(s) \in Nat
    BY <2>1, SMTT(30), Zenon
  <2> QED
    BY <2>1, <2>2
<1>2. (Is(t[h], "type_lf") \/ Is(t[h], "headers")) /\ t[h].type = type
  BY <1>1, ReadHeaders
<1>3. /\ Len(s) >= h + 1 /\ s[h + 1] = CR => Is(t[h + 1], "headers_cr") /\ t[h + 1].type = type
      /\ Len(s) >= h + 2 /\ EndAt(s, h) => Is(t[h + 2], "headers_lf") /\ t[h + 2].type = type
  BY <1>1, <1>2, ReadBreak
<1>4. CASE part /\ EndPart(s, h)
  <2>1. /\ Len(s) = h \/ Len(s) = h + 1 \/ Len(s) = h + 2
        /\ Len(s) >= h + 1 => s[h + 1] = CR
        /\ Len(s) >= h + 2 => s[h + 2] = LF
    BY <1>1, <1>4 DEF EndPart
  <2>2. CASE Len(s) = h
    BY <1>2, <1>4, <2>2, SMTT(30), Zenon DEF Answered, Is
  <2>3. CASE Len(s) = h + 1
    <3>1. Len(s) >= h + 1
      BY <1>1, <2>3, SMTT(30), Zenon
    <3>2. Is(t[Len(s)], "headers_cr")
      BY <1>3, <2>1, <2>3, <3>1, SMTT(30), Zenon
    <3> QED
      BY <1>4, <3>2, SMTT(30), Zenon DEF Answered, Is
  <2>4. CASE Len(s) = h + 2
    <3>1. Len(s) >= h + 1 /\ Len(s) >= h + 2
      BY <1>1, <2>4, SMTT(30), Zenon
    <3>2. Is(t[Len(s)], "headers_lf")
      BY <1>3, <2>1, <2>4, <3>1, SMTT(30), Zenon DEF EndAt
    <3> QED
      BY <1>4, <3>2, SMTT(30), Zenon DEF Answered, Is
  <2> QED
    BY <2>1, <2>2, <2>3, <2>4
<1>5. CASE type # "PUT_T" /\ Len(s) = h + 2 /\ EndAt(s, h)
  <2>1. Len(s) >= h + 2
    BY <1>1, <1>5, SMTT(30), Zenon
  <2>2. Is(t[Len(s)], "headers_lf") /\ t[Len(s)].type = type
    BY <1>3, <1>5, <2>1, SMTT(30), Zenon
  <2> QED
    BY <1>5, <2>2, SMTT(30), Zenon DEF Answered, Is, Done
<1>6. CASE type = "PUT_T" /\ Len(s) >= h + 2 /\ EndAt(s, h)
           /\ \E d \in h + 2 .. Len(s) : DataAt(s, h + 2, d, part)
  <2>1. PICK d \in h + 2 .. Len(s) : DataAt(s, h + 2, d, part)
    BY <1>6, SMTT(30), Zenon
  <2>2. h + 2 \in 0 .. Len(s)
    BY <1>1, <1>6, SMTT(30), Zenon
  <2>3. Is(t[h + 2], "headers_lf") /\ t[h + 2].type = "PUT_T"
    BY <1>3, <1>6, SMTT(30), Zenon
  <2> QED
    BY <2>1, <2>2, <2>3, DataAnswered, SMTT(30), Zenon
<1> QED
  BY <1>4, <1>5, <1>6 DEF RestAt

LEMMA RequestAnswered ==
    ASSUME NEW s \in Seq(Bytes), NEW behind \in Seq(Digits), NEW part \in BOOLEAN, IsRequest(s, part)
    PROVE  Answered(Loop(NewPro, s, 1, behind), part)
<1>1. PICK t : IsRunOf(t, NewPro, s, 1, behind) /\ Loop(NewPro, s, 1, behind) = t[Len(s)]
  BY WholeLoop
<1>2. Runs(t, s, behind)
  BY <1>1 DEF Runs
<1> SUFFICES Answered(t[Len(s)], part)
  BY <1>1
<1>3. PICK b \in 0 .. Len(s), w \in DOMAIN Names : RequestAt(s, b, w, part)
  BY RequestPlaces, SMTT(30), Zenon
<1>4. Len(s) \in Nat /\ b \in Nat /\ Len(w) \in Nat /\ Names[w] # "UNKNOW" /\ Blanks(s, b)
  BY <1>3, ProtocolAssumption, SMTT(30), Zenon DEF RequestAt
<1>5. PICK l \in Nat : l = b + Len(w) + 2
  BY <1>4
<1>6. LineGoes(s, b, w)
  <2>1. CASE LinePart(s, b, w)
    BY <2>1, SMTT(30), Zenon DEF LinePart, EndPart, LineGoes
  <2>2. CASE LineAt(s, b, w)
    BY <2>2, SMTT(30), Zenon DEF LineAt, NameAt, EndAt, LineGoes
  <2> QED
    BY <1>3, <2>1, <2>2, SMTT(30), Zenon DEF RequestAt
<1>7. /\ Len(s) <= b + Len(w) + 1 => Fine(t[Len(s)])
      /\ Len(s) >= l => Off(t[l]) \/ (Is(t[l], "type_lf") /\ t[l].type = Names[w])
  BY <1>2, <1>4, <1>5, <1>6, ReadLine, SMTT(30), Zenon
<1>8. CASE part /\ LinePart(s, b, w)
  <2>1. Len(s) <= b + Len(w) + 1 \/ Len(s) = l
    BY <1>4, <1>5, <1>8, SMTT(30), Zenon DEF LinePart, EndPart
  <2>2. Len(s) = l => Len(s) >= l
    BY <1>4, SMTT(30), Zenon
  <2>3. Fine(t[Len(s)])
    BY <1>7, <2>1, <2>2, SMTT(30), Zenon DEF Fine, Off, Is
  <2> QED
    BY <1>8, <2>3, SMTT(30), Zenon DEF Fine, Answered
<1>9. CASE LineAt(s, b, w) /\ \E h \in l .. Len(s) : RestAt(s, l, h, Names[w], part)
  <2>1. PICK h \in l .. Len(s) : RestAt(s, l, h, Names[w], part)
    BY <1>9
  <2>2. l \in 0 .. Len(s) /\ Len(s) >= l /\ Len(s) \in l .. Len(s)
    BY <1>4, <1>5, <2>1, SMTT(30), Zenon
  <2>3. CASE Off(t[l])
    <3>1. Off(t[Len(s)])
      BY <1>2, <2>2, <2>3, OffStays, SMTT(30), Zenon
    <3> QED
      BY <3>1 DEF Off, Answered
  <2>4. CASE Is(t[l], "type_lf") /\ t[l].type = Names[w]
    BY <1>2, <1>4, <2>1, <2>2, <2>4, RestAnswered, SMTT(30), Zenon
  <2> QED
    BY <1>7, <2>2, <2>3, <2>4, SMTT(30), Zenon
<1> QED
  BY <1>3, <1>5, <1>8, <1>9, SMTT(30), Zenon DEF RequestAt

(* What the loop over all bytes of a request, or of the beginning of one,   *)
(* makes of protocol_parse's answer.                                        *)
LEMMA RequestOutcome ==
    ASSUME NEW s \in Seq(Bytes), NEW p, NEW r, NEW part \in BOOLEAN,
           Parsed(s, p, r), IsRequest(s, part), ~Split(p)
    PROVE  r \in {"OK", "DONE"} /\ (part \/ r = "DONE")
<1>1. PICK behind \in Behind : Outcome(Loop(NewPro, s, 1, behind), p, r)
  BY SMTT(30), Zenon DEF Parsed
<1> DEFINE x == Loop(NewPro, s, 1, behind)
<1>2. Answered(x, part) /\ Outcome(x, p, r)
  BY <1>1, RequestAnswered, ProtocolAssumption, SMTT(30), Zenon
<1> HIDE DEF x
<1>3. ~Split(x)
  BY <1>2, SMTT(30), Zenon DEF Outcome, Split
<1> QED
  BY <1>2, <1>3, SMTT(30), Zenon DEF Answered, Outcome

(* A complete request is answered as soon as its last byte is read: in      *)
(* whatever pieces it came, protocol_parse returns PROTOCOL_DONE, unless    *)
(* its name or its length lies in two buffers.                              *)
THEOREM RequestsAnswered == Spec => []RequestIsDone
<1>1. PInv => RequestIsDone
  BY RequestOutcome, Zenon DEF PInv, TypeOK, RequestIsDone
<1> QED
  BY <1>1, ParserInvariance, PTL

(* The beginning of a request is never refused: an error means that no      *)
(* bytes to come could make a request of those read, with the same          *)
(* exception.                                                               *)
THEOREM RefusedForGood == Spec => []RefusedIsNoRequest
<1>1. PInv => RefusedIsNoRequest
  BY RequestOutcome, Zenon DEF PInv, TypeOK, RefusedIsNoRequest, Errors
<1> QED
  BY <1>1, ParserInvariance, PTL

=============================================================================
