----------------------------- MODULE LoggerProofs -----------------------------
(***************************************************************************)
(* Proofs about Logger and XFile: that calls with an offset are where they *)
(* should be, and how long a line can get, for all offsets, lengths and    *)
(* numbers of calls.                                                       *)
(***************************************************************************)
EXTENDS Logger, SequenceTheorems, TLAPS

Piece == {"time", "level", "error", "message", "LF"}
Byte == Nat \X (Nat \cup Piece)

CallType ==
    [pc : {"read", "write", "returned"}, buf : Seq(Byte), at : Nat \cup {FL_DEFAULT_OFFSET},
     written : Nat, size : Nat, ret : {"OK", "XPE_ERROR"}, op : {"none", "read", "write"}]

LineType == [by : Thread, line : Seq(Byte)]

(* what holds of a call in itself *)
CallSound(c) ==
    /\ c \in CallType
    /\ c.op = "write" => c.written + c.size = Len(c.buf)
    /\ c.pc \in {"read", "write"} => c.op = c.pc

(* the first n bytes of the buffer are in the file where they should be *)
InPlace(c, n, file) == \A i \in 1 .. n : c.at + i <= Len(file) /\ c.buf[i] = file[c.at + i]

(* what a call with an offset has done so far *)
CallPlaced(c, file, p) ==
    c.at # FL_DEFAULT_OFFSET =>
        /\ c.pc = "read" => p = c.at
        /\ c.pc = "write" => p = c.at + c.written /\ InPlace(c, c.written, file)
        /\ c.pc = "returned" /\ c.ret = "OK" => InPlace(c, Len(c.buf), file)

TypeInv ==
    /\ bytes \in Seq(Byte) /\ append \in BOOLEAN /\ sought \in BOOLEAN
    /\ pos \in Nat /\ offset \in Nat /\ lines \in Seq(LineType)
    /\ log_create /\ fate \in {"ok", "undefined"}
    /\ call \in [Thread -> CallType] /\ \A t \in Thread : CallSound(call[t])

OffsetInv ==
    ~append => /\ call["handler"] = Idle
               /\ sought => pos = offset /\ CallPlaced(call["main"], bytes, pos)

IInv == TypeInv /\ OffsetInv

-----------------------------------------------------------------------------
(* write(2) puts the data where the position is, and nowhere else. *)
LEMMA OverwrittenFacts ==
    ASSUME bytes \in Seq(Byte), NEW data \in Seq(Byte), NEW at \in Nat
    PROVE  LET file == Overwritten(data, at)
           IN  /\ file \in Seq(Byte)
               /\ Len(file) >= Len(bytes) /\ Len(file) >= at + Len(data)
               /\ at = Len(bytes) => Len(file) = at + Len(data)
               /\ \A i \in 1 .. Len(data) : file[at + i] = data[i]
               /\ \A i \in 1 .. at : i <= Len(bytes) => file[i] = bytes[i]
  <1> DEFINE m == IF at + Len(data) > Len(bytes) THEN at + Len(data) ELSE Len(bytes)
             e(i) == IF i \in at + 1 .. at + Len(data) THEN data[i - at]
                     ELSE IF i <= Len(bytes) THEN bytes[i] ELSE Zero
             file == Overwritten(data, at)
  <1>1. m \in Nat /\ m >= Len(bytes) /\ m >= at + Len(data) /\ Len(data) \in Nat
    OBVIOUS
  <1>2. Zero \in Byte
    BY DEF Zero, Byte
  <1>3. \A i \in 1 .. m : e(i) \in Byte
    <2> SUFFICES ASSUME NEW i \in 1 .. m PROVE e(i) \in Byte
      OBVIOUS
    <2>1. CASE i \in at + 1 .. at + Len(data)
      <3>1. i - at \in 1 .. Len(data)
        BY <2>1, <1>1
      <3> QED  BY <2>1, <3>1
    <2>2. CASE i \notin at + 1 .. at + Len(data) /\ i <= Len(bytes)
      BY <2>2
    <2>3. CASE i \notin at + 1 .. at + Len(data) /\ ~(i <= Len(bytes))
      BY <2>3, <1>2
    <2> QED  BY <2>1, <2>2, <2>3
  <1>4. file = [i \in 1 .. m |-> e(i)]
    BY DEF Overwritten
  <1> HIDE DEF m, e, file
  <1>5. file \in Seq(Byte) /\ Len(file) = m /\ \A i \in 1 .. m : file[i] = e(i)
    BY <1>1, <1>3, <1>4
  <1>6. ASSUME NEW i \in 1 .. Len(data) PROVE file[at + i] = data[i]
    <2>1. at + i \in 1 .. m /\ at + i \in at + 1 .. at + Len(data) /\ (at + i) - at = i
      BY <1>1
    <2>2. file[at + i] = e(at + i)
      BY <1>5, <2>1
    <2>3. e(at + i) = data[(at + i) - at]
      BY <2>1 DEF e
    <2> QED  BY <2>1, <2>2, <2>3
  <1>7. ASSUME NEW i \in 1 .. at, i <= Len(bytes) PROVE file[i] = bytes[i]
    <2>1. i \in 1 .. m /\ i \notin at + 1 .. at + Len(data)
      BY <1>1, <1>7
    <2>2. e(i) = bytes[i]
      BY <1>7, <2>1 DEF e
    <2> QED  BY <1>5, <2>1, <2>2
  <1>8. /\ file \in Seq(Byte)
        /\ Len(file) >= Len(bytes) /\ Len(file) >= at + Len(data)
        /\ at = Len(bytes) => Len(file) = at + Len(data)
        /\ \A i \in 1 .. Len(data) : file[at + i] = data[i]
        /\ \A i \in 1 .. at : i <= Len(bytes) => file[i] = bytes[i]
    <2>1. at = Len(bytes) => m = at + Len(data)
      BY <1>1 DEF m
    <2> QED  BY <1>1, <1>5, <1>6, <1>7, <2>1, Zenon
  <1> QED  BY <1>8 DEF file

(* the bytes from `from' + 1 on, n of them *)
LEMMA SubSeqFacts ==
    ASSUME NEW s \in Seq(Byte), NEW from \in Nat, NEW n \in Nat, from + n <= Len(s)
    PROVE  /\ SubSeq(s, from + 1, from + n) \in Seq(Byte)
           /\ Len(SubSeq(s, from + 1, from + n)) = n
           /\ \A i \in 1 .. n : SubSeq(s, from + 1, from + n)[i] = s[from + i]
  <1>1. \A i \in from + 1 .. from + n : s[i] \in Byte
    OBVIOUS
  <1>2. from + 1 \in Int /\ from + n \in Int
    OBVIOUS
  <1>3. /\ SubSeq(s, from + 1, from + n) \in Seq(Byte)
        /\ Len(SubSeq(s, from + 1, from + n)) =
              (IF from + 1 <= from + n THEN (from + n) - (from + 1) + 1 ELSE 0)
        /\ \A i \in 1 .. (from + n) - (from + 1) + 1 :
              SubSeq(s, from + 1, from + n)[i] = s[(from + 1) + i - 1]
    BY <1>1, <1>2, SubSeqProperties
  <1> QED  BY <1>3

-----------------------------------------------------------------------------
LEMMA IdleSound == CallSound(Idle) /\ Idle.written = 0
  BY DEF CallSound, CallType, Idle, FL_DEFAULT_OFFSET

(* Nothing is open to doubt at first: no call has been made. *)
LEMMA InitIInv == Init => IInv
  <1> SUFFICES ASSUME Init PROVE IInv
    OBVIOUS
  <1>1. /\ bytes = <<>> /\ pos = 0 /\ append \in BOOLEAN /\ offset \in Nat /\ sought = FALSE
        /\ call = [t \in Thread |-> Idle] /\ log_create /\ lines = <<>> /\ fate = "ok"
    BY XFileAssumption DEF Init, file_open
  <1>2. CallSound(Idle)
    BY IdleSound
  <1>3. TypeInv
    <2>1. call \in [Thread -> CallType] /\ \A t \in Thread : CallSound(call[t])
      BY <1>1, <1>2 DEF CallSound
    <2>2. bytes \in Seq(Byte) /\ lines \in Seq(LineType) /\ pos \in Nat
      BY <1>1
    <2> QED  BY <1>1, <2>1, <2>2, Zenon DEF TypeInv
  <1> QED  BY <1>1, <1>3 DEF IInv, OffsetInv, Thread

(* One call changes. *)
LEMMA OneCall ==
    ASSUME IInv, NEW t \in Thread, NEW c, CallSound(c), call' = [call EXCEPT ![t] = c],
           bytes' \in Seq(Byte), append' = append, sought' \in BOOLEAN,
           pos' \in Nat, offset' \in Nat, lines' \in Seq(LineType),
           log_create', fate' \in {"ok", "undefined"},
           ~append => t = "main" /\ (sought' => pos' = offset' /\ CallPlaced(c, bytes', pos'))
    PROVE  IInv'
  <1>1. /\ call' \in [Thread -> CallType] /\ call'[t] = c
        /\ \A u \in Thread : u # t => call'[u] = call[u]
    BY DEF IInv, TypeInv, CallSound
  <1>2. TypeInv'
    BY <1>1 DEF IInv, TypeInv
  <1>3. OffsetInv'
    BY <1>1 DEF IInv, OffsetInv, Thread
  <1> QED  BY <1>2, <1>3 DEF IInv

(* A call that begins: lseek, or not, because the position is already there *)
LEMMA SeekIInv ==
    ASSUME IInv, NEW t \in Thread, ~append => t = "main",
           NEW c, CallSound(c), c.pc \in {"read", "write"}, c.written = 0, Seek(t, c),
           lines' \in Seq(LineType), log_create', fate' \in {"ok", "undefined"}
    PROVE  IInv'
  <1>0. /\ bytes \in Seq(Byte) /\ append \in BOOLEAN /\ sought \in BOOLEAN
        /\ pos \in Nat /\ offset \in Nat /\ c.at \in Nat \cup {FL_DEFAULT_OFFSET}
    BY DEF IInv, TypeInv, CallSound, CallType
  <1>a. ASSUME NEW p, p = c.at PROVE CallPlaced(c, bytes, p)
    BY <1>0, <1>a DEF CallPlaced, InPlace, FL_DEFAULT_OFFSET
  <1>1. CASE /\ c.at \in {FL_DEFAULT_OFFSET, offset}
             /\ call' = [call EXCEPT ![t] = c]
             /\ UNCHANGED <<bytes, pos, append, offset, sought>>
    <2>1. ~append /\ sought => pos = offset /\ CallPlaced(c, bytes, pos)
      <3>1. CASE c.at = FL_DEFAULT_OFFSET
        BY <3>1 DEF IInv, OffsetInv, CallPlaced
      <3>2. CASE c.at = offset
        BY <1>a, <3>2 DEF IInv, OffsetInv
      <3> QED  BY <1>1, <3>1, <3>2
    <2> QED  BY <1>0, <1>1, <2>1, OneCall, Zenon
  <1>2. CASE /\ c.at \notin {FL_DEFAULT_OFFSET, offset}
             /\ call' = [call EXCEPT ![t] = c]
             /\ pos' = c.at /\ offset' = c.at /\ sought' = TRUE
             /\ UNCHANGED <<bytes, append>>
    <2>1. c.at \in Nat
      BY <1>0, <1>2
    <2>2. CallPlaced(c, bytes', pos')
      BY <1>a, <1>2
    <2> QED  BY <1>0, <1>2, <2>1, <2>2, OneCall, Zenon
  <1>3. CASE /\ call' = [call EXCEPT ![t] = [c EXCEPT !.pc = "returned", !.ret = "XPE_ERROR"]]
             /\ UNCHANGED <<bytes, pos, append, offset, sought>>
    <2> DEFINE d == [c EXCEPT !.pc = "returned", !.ret = "XPE_ERROR"]
    <2>1. CallSound(d) /\ CallPlaced(d, bytes, pos)
      BY Zenon DEF CallSound, CallType, CallPlaced
    <2>2. call' = [call EXCEPT ![t] = d]
      BY <1>3
    <2>3. ~append /\ sought => pos = offset
      BY DEF IInv, OffsetInv
    <2> HIDE DEF d
    <2> QED  BY <1>0, <1>3, <2>1, <2>2, <2>3, OneCall, Zenon
  <1> QED  BY <1>1, <1>2, <1>3, Zenon DEF Seek

(* read or write fails *)
LEMMA ReturnIInv ==
    ASSUME IInv, NEW t \in Thread, ~append => t = "main", Return(t, "XPE_ERROR"),
           UNCHANGED <<bytes, pos, append, offset, sought>>,
           UNCHANGED <<level, lines, fate>>
    PROVE  IInv'
  <1> DEFINE d == [call[t] EXCEPT !.pc = "returned", !.ret = "XPE_ERROR"]
  <1>0. CallSound(call[t]) /\ call \in [Thread -> CallType]
    BY DEF IInv, TypeInv
  <1>1. CallSound(d) /\ CallPlaced(d, bytes, pos)
    BY <1>0, Zenon DEF CallSound, CallType, CallPlaced
  <1>2. call' = [call EXCEPT ![t] = d]
    BY <1>0, ZenonT(30) DEF Return
  <1>3. ~append /\ sought => pos = offset
    BY DEF IInv, OffsetInv
  <1>4. /\ bytes' \in Seq(Byte) /\ sought' \in BOOLEAN /\ pos' \in Nat /\ offset' \in Nat
        /\ lines' \in Seq(LineType) /\ log_create' /\ fate' \in {"ok", "undefined"}
        /\ append' = append
    BY DEF IInv, TypeInv, log_create
  <1>5. ~append => (sought' => pos' = offset' /\ CallPlaced(d, bytes', pos'))
    BY <1>1, <1>3
  <1> HIDE DEF d
  <1> QED  BY <1>1, <1>2, <1>4, <1>5, OneCall, Zenon

(* read returns what is in the file at the position, which is f->offset. *)
LEMMA ReadIInv ==
    ASSUME IInv, NEW t \in Thread, ~append => t = "main", read(t),
           UNCHANGED <<level, lines, fate>>
    PROVE  IInv'
  <1> DEFINE c == call[t]
             end == IF pos + c.size < Len(bytes) THEN pos + c.size ELSE Len(bytes)
             data == SubSeq(bytes, pos + 1, end)
             d == [c EXCEPT !.pc = "returned", !.buf = data]
  <1>0. /\ CallSound(c) /\ c \in CallType /\ c.pc = "read" /\ c.op = "read"
        /\ bytes \in Seq(Byte) /\ pos \in Nat /\ offset \in Nat /\ sought \in BOOLEAN
        /\ call \in [Thread -> CallType]
        /\ lines' \in Seq(LineType) /\ log_create' /\ fate' \in {"ok", "undefined"}
    BY DEF IInv, TypeInv, read, CallSound, log_create
  <1>1. CASE Return(t, "XPE_ERROR") /\ UNCHANGED <<bytes, pos, append, offset, sought>>
    BY <1>1, ReturnIInv
  <1>2. CASE /\ offset' = offset + Len(data) /\ pos' = pos + Len(data)
             /\ call' = [call EXCEPT ![t].pc = "returned", ![t].buf = data]
             /\ UNCHANGED <<bytes, append, sought>>
    <2>1. /\ data \in Seq(Byte) /\ Len(data) \in Nat
          /\ \A i \in 1 .. Len(data) : pos + i <= Len(bytes) /\ data[i] = bytes[pos + i]
      <3>1. end \in Nat /\ end <= Len(bytes) /\ Len(bytes) \in Nat
        BY <1>0 DEF CallType
      <3> HIDE DEF end
      <3>2. CASE pos <= end
        <4>1. /\ pos + (end - pos) = end /\ end - pos \in Nat
          BY <1>0, <3>1, <3>2
        <4>2. /\ data \in Seq(Byte) /\ Len(data) = end - pos
              /\ \A i \in 1 .. end - pos : data[i] = bytes[pos + i]
          BY <1>0, <3>1, <4>1, SubSeqFacts
        <4> HIDE DEF data
        <4> QED  BY <1>0, <3>1, <3>2, <4>1, <4>2
      <3>3. CASE end < pos
        <4>1. data = <<>>
          BY <1>0, <3>1, <3>3, SubSeqEmpty
        <4> HIDE DEF data
        <4> QED  BY <4>1
      <3> QED  BY <1>0, <3>1, <3>2, <3>3
    <2> HIDE DEF data
    <2>2. /\ d \in CallType /\ d.pc = "returned" /\ d.op = "read" /\ d.buf = data /\ d.at = c.at
      BY <1>0, <2>1, Zenon DEF CallType
    <2>3. CallSound(d)
      BY <2>2 DEF CallSound
    <2>4. call' = [call EXCEPT ![t] = d]
      BY <1>0, <1>2, Zenon
    <2>5. ASSUME ~append, sought PROVE pos' = offset' /\ CallPlaced(d, bytes, pos')
      <3>1. pos = offset /\ (c.at # FL_DEFAULT_OFFSET => pos = c.at)
        BY <1>0, <2>5 DEF IInv, OffsetInv, CallPlaced
      <3>2. CallPlaced(d, bytes, pos')
        BY <2>1, <2>2, <3>1 DEF CallPlaced, InPlace
      <3> QED  BY <1>2, <3>1, <3>2
    <2>6. pos' \in Nat /\ offset' \in Nat /\ bytes' = bytes /\ append' = append /\ sought' = sought
      BY <1>0, <1>2, <2>1, SMTT(30)
    <2> HIDE DEF c, d
    <2> QED  BY <1>0, <2>3, <2>4, <2>5, <2>6, OneCall, ZenonT(30)
  <1> QED  BY <1>1, <1>2, Zenon DEF read

(* A short write leaves the position behind what it has written, and the   *)
(* rest goes there; what earlier writes of the call wrote stays.           *)
LEMMA WriteIInv ==
    ASSUME IInv, NEW t \in Thread, ~append => t = "main", write(t),
           UNCHANGED <<level, lines, fate>>
    PROVE  IInv'
  <1> DEFINE c == call[t]
             at == IF append THEN Len(bytes) ELSE pos
  <1>0. /\ CallSound(c) /\ c \in CallType /\ c.pc = "write" /\ c.op = "write"
        /\ bytes \in Seq(Byte) /\ pos \in Nat /\ offset \in Nat /\ sought \in BOOLEAN
        /\ call \in [Thread -> CallType] /\ at \in Nat
        /\ lines' \in Seq(LineType) /\ log_create' /\ fate' \in {"ok", "undefined"}
    <2>1. call[t].pc = "write"
      BY ZenonT(30) DEF write
    <2> QED  BY <2>1, SMTT(30) DEF IInv, TypeInv, CallSound, log_create
  <1>1. CASE Return(t, "XPE_ERROR") /\ UNCHANGED <<bytes, pos, append, offset, sought>>
    BY <1>1, ReturnIInv
  <1>2. ASSUME NEW n \in 0 .. c.size,
               bytes' = Overwritten(Data(c, n), at), pos' = at + n, offset' = Advanced(n),
               call' = [call EXCEPT ![t].written = @ + n, ![t].size = Left(c, n),
                                    ![t].pc = IF n = c.size THEN "returned" ELSE @],
               UNCHANGED <<append, sought>>
        PROVE  IInv'
    <2> DEFINE data == Data(c, n)
               file == Overwritten(data, at)
               d == [c EXCEPT !.written = @ + n, !.size = c.size - n,
                              !.pc = IF n = c.size THEN "returned" ELSE @]
    <2>1. /\ c.written \in Nat /\ c.size \in Nat /\ n \in Nat /\ n <= c.size
          /\ c.buf \in Seq(Byte) /\ c.written + c.size = Len(c.buf) /\ c.written + n <= Len(c.buf)
      BY <1>0 DEF CallSound, CallType
    <2>2. /\ data \in Seq(Byte) /\ Len(data) = n
          /\ \A i \in 1 .. n : data[i] = c.buf[c.written + i]
      <3> HIDE DEF c
      <3> QED  BY <2>1, SubSeqFacts, ZenonT(30) DEF Data
    <2> HIDE DEF data
    <2>3. /\ file \in Seq(Byte) /\ Len(file) >= Len(bytes) /\ Len(file) >= at + n
          /\ \A i \in 1 .. n : file[at + i] = data[i]
          /\ \A i \in 1 .. at : i <= Len(bytes) => file[i] = bytes[i]
      BY <1>0, <2>2, OverwrittenFacts, Zenon
    <2>4. /\ d \in CallType /\ d.written = c.written + n /\ d.size = c.size - n /\ d.op = "write"
          /\ d.pc = (IF n = c.size THEN "returned" ELSE "write") /\ d.buf = c.buf /\ d.at = c.at
      <3> HIDE DEF c
      <3>1. c.written + n \in Nat /\ c.size - n \in Nat
        BY <2>1
      <3> QED  BY <1>0, <3>1, Zenon DEF CallType
    <2>5. CallSound(d)
      BY <2>1, <2>4 DEF CallSound
    <2>6. call' = [call EXCEPT ![t] = d]
      BY <1>0, <1>2, Zenon DEF Left
    <2>7. bytes' = file
      BY <1>2 DEF data
    <2> HIDE DEF d, file
    <2>8. ASSUME ~append, sought, c.at # FL_DEFAULT_OFFSET
          PROVE  pos' = d.at + d.written /\ InPlace(d, d.written, file)
      <3>1. pos = c.at + c.written /\ InPlace(c, c.written, bytes) /\ at = pos /\ c.at \in Nat
        BY <1>0, <2>8 DEF IInv, OffsetInv, CallPlaced, CallType
      <3> HIDE DEF at
      <3>2. pos' = d.at + d.written
        BY <1>0, <1>2, <2>1, <2>4, <3>1, SMTT(30)
      <3>3. ASSUME NEW i \in 1 .. c.written + n
            PROVE  c.at + i <= Len(file) /\ c.buf[i] = file[c.at + i]
        <4>1. CASE i <= c.written
          <5>1. i \in 1 .. c.written /\ c.at + i \in 1 .. at
            BY <1>0, <2>1, <3>1, <4>1, SMTT(30)
          <5>2. c.at + i <= Len(bytes) /\ c.buf[i] = bytes[c.at + i]
            BY <3>1, <5>1 DEF InPlace
          <5> HIDE DEF c
          <5>3. file[c.at + i] = bytes[c.at + i]
            BY <2>3, <5>1, <5>2
          <5>4. c.at + i <= Len(file)
            BY <1>0, <2>3, <5>1, <5>2, SMTT(30)
          <5> QED  BY <5>2, <5>3, <5>4
        <4>2. CASE i > c.written
          <5> DEFINE k == i - c.written
          <5> HIDE DEF c
          <5>1. k \in 1 .. n /\ c.written + k = i /\ at + k = c.at + i
            <6>1. i \in Nat /\ c.written \in Nat /\ n \in Nat /\ c.at \in Nat
              BY <2>1, <3>1
            <6>2. at = c.at + c.written /\ i > c.written /\ i <= c.written + n
              BY <2>1, <3>1, <4>2
            <6> QED  BY <6>1, <6>2
          <5> HIDE DEF k
          <5>2. file[at + k] = data[k] /\ data[k] = c.buf[c.written + k]
            BY <2>2, <2>3, <5>1
          <5>3. at + k <= Len(file)
            BY <1>0, <2>1, <2>3, <5>1, SMTT(30)
          <5> QED  BY <5>1, <5>2, <5>3
        <4> QED  BY <2>1, <4>1, <4>2
      <3> QED  BY <2>4, <3>2, <3>3 DEF InPlace
    <2>9. ~append /\ sought => pos' = offset' /\ CallPlaced(d, file, pos')
      <3>1. ~append /\ sought => pos' = offset'
        BY <1>2 DEF IInv, OffsetInv, Advanced
      <3>2. n = c.size => d.written = Len(d.buf)
        BY <2>1, <2>4
      <3> QED  BY <2>4, <2>8, <3>1, <3>2 DEF CallPlaced
    <2>10. pos' \in Nat /\ offset' \in Nat /\ append' = append /\ sought' = sought
      BY <1>0, <1>2, <2>1, SMTT(30) DEF Advanced
    <2> HIDE DEF c
    <2> QED  BY <1>0, <2>3, <2>5, <2>6, <2>7, <2>9, <2>10, OneCall, Zenon
  <1> QED  BY <1>1, <1>2, Zenon DEF write

-----------------------------------------------------------------------------
(* file_read and file_write begin a call. *)
LEMMA FileReadIInv ==
    ASSUME IInv, NEW t \in Thread, ~append => t = "main",
           NEW size \in Nat, NEW at \in Nat \cup {FL_DEFAULT_OFFSET}, file_read(t, size, at),
           lines' \in Seq(LineType), log_create', fate' \in {"ok", "undefined"}
    PROVE  IInv'
  <1> DEFINE c == [Idle EXCEPT !.pc = "read", !.op = "read", !.size = size, !.at = at]
  <1>1. CallSound(c) /\ c.pc = "read" /\ c.written = 0
    BY IdleSound, Zenon DEF CallSound, CallType
  <1>2. Seek(t, c)
    BY DEF file_read
  <1> HIDE DEF c
  <1> QED  BY <1>1, <1>2, SeekIInv

LEMMA FileWriteIInv ==
    ASSUME IInv, NEW t \in Thread, ~append => t = "main",
           NEW buf \in Seq(Byte), NEW at \in Nat \cup {FL_DEFAULT_OFFSET}, file_write(t, buf, at),
           lines' \in Seq(LineType), log_create', fate' \in {"ok", "undefined"}
    PROVE  IInv'
  <1> DEFINE c == [Idle EXCEPT !.pc = "write", !.op = "write", !.buf = buf, !.size = Len(buf),
                               !.at = at]
  <1>1. CallSound(c) /\ c.pc = "write" /\ c.written = 0
    <2>1. Idle \in CallType /\ Idle.written = 0 /\ Len(buf) \in Nat
      BY IdleSound DEF CallSound
    <2>2. /\ c \in CallType /\ c.pc = "write" /\ c.written = 0 /\ c.op = "write"
          /\ c.size = Len(buf) /\ c.buf = buf
      BY <2>1, ZenonT(30) DEF CallType
    <2> HIDE DEF c
    <2> QED  BY <2>1, <2>2 DEF CallSound
  <1>2. Seek(t, c)
    BY DEF file_write
  <1> HIDE DEF c
  <1> QED  BY <1>1, <1>2, SeekIInv

(* one more line *)
LEMMA LinesAppend ==
    ASSUME IInv, NEW t \in Thread, NEW buf \in Seq(Byte),
           lines' = Append(lines, [by |-> t, line |-> buf])
    PROVE  lines' \in Seq(LineType)
  <1>1. lines \in Seq(LineType) /\ [by |-> t, line |-> buf] \in LineType
    BY DEF IInv, TypeInv, LineType
  <1> QED  BY <1>1, AppendProperties

LEMMA LineIsBytes ==
    ASSUME NEW i \in Nat, NEW l, NEW err
    PROVE  Line(i, l, err) \in Seq(Byte)
  <1> DEFINE mid == IF err = 0 THEN <<>> ELSE <<"error">>
             s == Pieces(l, err)
  <1>1. /\ mid \in Seq(Piece)
        /\ <<"time", "level">> \in Seq(Piece) /\ <<"message", "LF">> \in Seq(Piece)
    <2>1. ASSUME NEW x \in Piece, NEW y \in Piece
          PROVE  <<x>> \in Seq(Piece) /\ <<x, y>> \in Seq(Piece)
      OBVIOUS
    <2>2. <<>> \in Seq(Piece)
      OBVIOUS
    <2>3. /\ "time" \in Piece /\ "level" \in Piece /\ "error" \in Piece
          /\ "message" \in Piece /\ "LF" \in Piece
      BY DEF Piece
    <2>4. <<"time", "level">> \in Seq(Piece) /\ <<"message", "LF">> \in Seq(Piece)
          /\ <<"error">> \in Seq(Piece)
      BY <2>1, <2>3, ZenonT(30)
    <2> QED  BY <2>2, <2>4, Zenon
  <1>2. s \in Seq(Piece)
    <2>1. s = (<<"time", "level">> \o mid) \o <<"message", "LF">>
      BY DEF Pieces
    <2> HIDE DEF mid, s
    <2>2. <<"time", "level">> \o mid \in Seq(Piece)
      BY <1>1, ConcatProperties, ZenonT(30)
    <2> QED  BY <1>1, <2>1, <2>2, ConcatProperties, ZenonT(30)
  <1>3. Line(i, l, err) = [k \in DOMAIN s |-> <<i, s[k]>>]
    BY DEF Line
  <1> HIDE DEF s
  <1>4. \A k \in DOMAIN s : <<i, s[k]>> \in Byte
    BY <1>2 DEF Byte
  <1> QED  BY <1>2, <1>3, <1>4

(* log_core_writer, called by a function of the logger *)
LEMMA LogsIInv ==
    ASSUME IInv, append, NEW t \in Thread, NEW l, NEW err, NEW n, Logs(t, l, err, n),
           fate = "ok"
    PROVE  IInv'
  <1>1. CASE UNCHANGED vars
    BY <1>1 DEF vars, fvars, IInv, TypeInv, OffsetInv, log_create
  <1>2. CASE log_core_writer(t, l, err, n)
    <2> DEFINE line == Line(Len(lines) + 1, l, err)
    <2>1. Len(lines) + 1 \in Nat
      BY DEF IInv, TypeInv
    <2>2. line \in Seq(Byte)
      BY <2>1, LineIsBytes
    <2>3. file_write(t, line, FL_DEFAULT_OFFSET) /\ lines' = Append(lines, [by |-> t, line |-> line])
      BY <1>2 DEF log_core_writer
    <2>4. log_create' /\ fate' \in {"ok", "undefined"}
      BY <1>2 DEF log_core_writer, IInv, TypeInv, log_create
    <2> HIDE DEF line
    <2>5. lines' \in Seq(LineType)
      BY <2>2, <2>3, LinesAppend
    <2> QED  BY <2>2, <2>3, <2>4, <2>5, FileWriteIInv, Zenon
  <1> QED  BY <1>1, <1>2 DEF Logs

LEMMA UseAtOffsetIInv ==
    ASSUME IInv, UseAtOffset
    PROVE  IInv'
  <1>1. PICK at \in Offsets \cup {FL_DEFAULT_OFFSET}, size \in 1 .. 2 :
          LET buf == [k \in 1 .. size |-> <<Len(lines) + 1, k>>]
          IN  /\ file_read("main", size, at) \/ file_write("main", buf, at)
              /\ lines' = Append(lines, [by |-> "main", line |-> buf])
    BY Zenon DEF UseAtOffset
  <1> DEFINE buf == [k \in 1 .. size |-> <<Len(lines) + 1, k>>]
  <1>2. buf \in Seq(Byte)
    <2>1. Len(lines) + 1 \in Nat
      BY DEF IInv, TypeInv
    <2>2. \A k \in 1 .. size : <<Len(lines) + 1, k>> \in Byte
      BY <2>1 DEF Byte
    <2> QED  BY <2>2
  <1>3. /\ file_read("main", size, at) \/ file_write("main", buf, at)
        /\ lines' = Append(lines, [by |-> "main", line |-> buf])
    BY <1>1
  <1>4. at \in Nat \cup {FL_DEFAULT_OFFSET} /\ size \in Nat /\ "main" \in Thread
    BY LoggerAssumption DEF Thread
  <1>5. log_create' /\ fate' \in {"ok", "undefined"}
    BY DEF UseAtOffset, IInv, TypeInv, log_create
  <1> HIDE DEF buf
  <1>6. lines' \in Seq(LineType)
    BY <1>2, <1>3, <1>4, LinesAppend
  <1> QED  BY <1>2, <1>3, <1>4, <1>5, <1>6, FileReadIInv, FileWriteIInv, SMTT(30)

(* Every step preserves the invariant. *)
LEMMA NextIInv == IInv /\ [Next]_vars => IInv'
  <1> SUFFICES ASSUME IInv, [Next]_vars PROVE IInv'
    OBVIOUS
  <1>1. CASE UNCHANGED vars
    BY <1>1 DEF vars, fvars, IInv, TypeInv, OffsetInv, log_create
  <1>2. CASE fate = "ok" /\ LogLine
    BY <1>2, LogsIInv DEF LogLine, Thread
  <1>3. CASE fate = "ok" /\ sig_term_handler
    BY <1>3, LogsIInv DEF sig_term_handler, Thread
  <1>4. CASE UseAtOffset
    BY <1>4, UseAtOffsetIInv
  <1>5. CASE WriteOrRead
    <2>1. PICK t \in Thread : read(t) \/ write(t)
      BY <1>5 DEF WriteOrRead
    <2>2. ~append => t = "main"
      <3>1. call[t].pc # "returned"
        BY <2>1, Zenon DEF read, write
      <3>2. Idle.pc = "returned"
        BY DEF Idle
      <3> QED  BY <3>1, <3>2, SMTT(30) DEF IInv, OffsetInv, Thread
    <2> QED  BY <1>5, <2>1, <2>2, ReadIInv, WriteIInv DEF WriteOrRead
  <1>6. CASE Idling \/ Undefined
    BY <1>1, <1>6 DEF Idling, Undefined
  <1> QED  BY <1>1, <1>2, <1>3, <1>4, <1>5, <1>6 DEF Next

(* IInv, the inductive invariant, holds in every reachable state.          *)
THEOREM Invariance == Spec => []IInv
  BY InitIInv, NextIInv, PTL DEF Spec

(* The calls and the file keep their types (TypeOK).                       *)
THEOREM TypeCorrect == Spec => []TypeOK
  <1>1. IInv => TypeOK
    <2> SUFFICES ASSUME IInv PROVE TypeOK
      OBVIOUS
    <2>1. \A t \in Thread : CallSound(call[t])
      BY DEF IInv, TypeInv
    <2> QED  BY <2>1 DEF IInv, TypeInv, TypeOK, CallSound, CallType
  <1> QED  BY <1>1, Invariance, PTL

(* file_read and file_write skip lseek when f->offset is the offset asked  *)
(* for; for all offsets, buffers, short writes and failures, what they     *)
(* read or write is at the offset nevertheless (AtOffset).                 *)
THEOREM OffsetsCorrect == Spec => []AtOffset
  <1>1. IInv => AtOffset
    <2> SUFFICES ASSUME IInv, NEW t \in Thread, ~append, sought, ~Running(t), call[t].ret = "OK",
                        call[t].at # FL_DEFAULT_OFFSET, NEW i \in DOMAIN call[t].buf
                 PROVE  call[t].at + i <= Len(bytes) /\ call[t].buf[i] = bytes[call[t].at + i]
      BY DEF AtOffset
    <2>1. t = "main"
      BY DEF IInv, OffsetInv, Thread, Idle
    <2>2. i \in 1 .. Len(call[t].buf)
      BY DEF IInv, TypeInv, CallType
    <2>3. InPlace(call[t], Len(call[t].buf), bytes)
      BY <2>1 DEF IInv, OffsetInv, CallPlaced, Running
    <2> QED  BY <2>2, <2>3 DEF InPlace
  <1> QED  BY <1>1, Invariance, PTL

-----------------------------------------------------------------------------
(* LogInOrder. Besides what it says, the invariant has that the pieces of  *)
(* a line differ from each other and from those of the other lines, and,   *)
(* of each caller, that its call is about its last line, of which exactly  *)
(* what the call has written is in the file, at the end of it if a handler *)
(* is still writing.                                                       *)
Distinct(i, line) ==
    /\ DOMAIN line # {} /\ \A k \in DOMAIN line : line[k][1] = i
    /\ \A k1, k2 \in DOMAIN line : line[k1] = line[k2] => k1 = k2

OfLine(j) ==
    /\ bytes[j][1] \in DOMAIN lines
    /\ \E k \in DOMAIN lines[bytes[j][1]].line : bytes[j] = lines[bytes[j][1]].line[k]

FromStart(i) == \A k \in Written(i) : 1 .. k \subseteq Written(i)

LastOf(t, i) ==
    /\ i \in DOMAIN lines /\ lines[i].by = t
    /\ \A m \in DOMAIN lines : lines[m].by = t => m <= i

AtEnd(i) == \A j1, j2 \in DOMAIN bytes : j1 < j2 /\ bytes[j1][1] = i => bytes[j2][1] = i

Logging(t, i) ==
    /\ LastOf(t, i) /\ call[t].buf = lines[i].line /\ call[t].op = "write"
    /\ Running(t) \/ call[t].ret = "OK" => Written(i) = 1 .. call[t].written
    /\ ~Running(t) /\ call[t].ret = "OK" => call[t].size = 0
    /\ Running(t) /\ t = "handler" => AtEnd(i)

CallLogged(t) == call[t] = Idle \/ \E i \in DOMAIN lines : Logging(t, i)

FileInv ==
    /\ \A i \in DOMAIN lines : Distinct(i, lines[i].line) /\ FromStart(i)
    /\ \A j \in DOMAIN bytes : OfLine(j)
    /\ \A j1, j2 \in DOMAIN bytes : j1 < j2 => InOrder(j1, j2)

LogInv == append => FileInv /\ \A t \in Thread : CallLogged(t)

LEMMA InitLog == Init => LogInv
  <1> SUFFICES ASSUME Init PROVE LogInv
    OBVIOUS
  <1>1. bytes = <<>> /\ lines = <<>> /\ \A t \in Thread : call[t] = Idle
    BY DEF Init, file_open
  <1> QED  BY <1>1 DEF LogInv, FileInv, CallLogged

(* LogInv says at least what LogInOrder says: if the call of t has written *)
(* its whole buffer, then the line with these pieces is whole.             *)
LEMMA LogImplied == IInv /\ LogInv => LogInOrder
  <1> SUFFICES ASSUME IInv, LogInv, append PROVE LogInOrder
    BY DEF LogInOrder
  <1>1. FileInv /\ \A t \in Thread : CallLogged(t)
    BY DEF LogInv
  <1>2. ASSUME NEW i \in DOMAIN lines, NEW t \in Thread,
               ~Running(t), call[t].ret = "OK", call[t].buf = lines[i].line
        PROVE  Written(i) = DOMAIN lines[i].line
    <2>1. Distinct(i, lines[i].line)
      BY <1>1 DEF FileInv
    <2>2. call[t] # Idle
      <3>1. Idle.buf = <<>>
        BY DEF Idle
      <3> QED  BY <1>2, <2>1, <3>1 DEF Distinct
    <2>3. PICK m \in DOMAIN lines : Logging(t, m)
      BY <1>1, <2>2 DEF CallLogged
    <2>4. lines[m].line = lines[i].line
      BY <1>2, <2>3 DEF Logging
    <2>5. Distinct(m, lines[m].line)
      BY <1>1 DEF FileInv
    <2>6. m = i
      BY <2>1, <2>4, <2>5, SMTT(30), Zenon DEF Distinct
    <2>7. /\ Written(i) = 1 .. call[t].written /\ call[t].size = 0 /\ call[t].op = "write"
          /\ CallSound(call[t])
      BY <1>2, <2>3, <2>6 DEF Logging, IInv, TypeInv
    <2>8. call[t].written = Len(call[t].buf) /\ call[t].buf \in Seq(Byte)
      BY <2>7 DEF CallSound, CallType
    <2> QED  BY <1>2, <2>7, <2>8
  <1>3. \A i \in DOMAIN lines : FromStart(i)
    BY <1>1 DEF FileInv
  <1>4. /\ \A j \in DOMAIN bytes : OfLine(j)
        /\ \A j1, j2 \in DOMAIN bytes : j1 < j2 => InOrder(j1, j2)
    BY <1>1 DEF FileInv
  <1> QED  BY <1>2, <1>3, <1>4, ZenonT(30) DEF LogInOrder, OfLine, FromStart

(* A step that changes neither the file nor the lines. *)
LEMMA SameLog ==
    ASSUME LogInv, append, bytes' = bytes, lines' = lines, \A t \in Thread : CallLogged(t)'
    PROVE  LogInv'
  <1>1. \A i : Written(i)' = Written(i)
    BY DEF Written
  <1>2. /\ \A i : FromStart(i)' <=> FromStart(i)
        /\ \A j : OfLine(j)' <=> OfLine(j)
    BY <1>1 DEF FromStart, OfLine
  <1>3. \A j1, j2 : InOrder(j1, j2)' <=> InOrder(j1, j2)
    BY DEF InOrder
  <1>4. FileInv
    BY DEF LogInv
  <1>5. FileInv'
    BY <1>2, <1>3, <1>4, SMTT(30), Zenon DEF FileInv
  <1> QED  BY <1>5 DEF LogInv

LEMMA SameCall ==
    ASSUME NEW t \in Thread, CallLogged(t), bytes' = bytes, lines' = lines, call'[t] = call[t]
    PROVE  CallLogged(t)'
  <1>1. \A i : Written(i)' = Written(i) /\ (AtEnd(i)' <=> AtEnd(i)) /\ (LastOf(t, i)' <=> LastOf(t, i))
    BY DEF Written, AtEnd, LastOf
  <1>2. Running(t)' <=> Running(t)
    BY DEF Running
  <1> QED  BY <1>1, <1>2 DEF CallLogged, Logging

(* write(2) of a file opened for appending: n more pieces of the line that *)
(* the call is about, at the end of the file.                              *)
LEMMA MoreOfLine ==
    ASSUME IInv, LogInv, append, NEW t \in Thread, call[t].pc = "write",
           NEW n \in 0 .. call[t].size,
           bytes' = Overwritten(Data(call[t], n), Len(bytes))
    PROVE  \E i \in DOMAIN lines :
              /\ Logging(t, i) /\ bytes' \in Seq(Byte) /\ Len(bytes') = Len(bytes) + n
              /\ \A j \in 1 .. Len(bytes) : bytes'[j] = bytes[j]
              /\ \A p \in 1 .. n : /\ call[t].written + p \in DOMAIN lines[i].line
                                   /\ bytes'[Len(bytes) + p] = lines[i].line[call[t].written + p]
  <1> DEFINE c == call[t]
  <1>1. Idle.pc = "returned"
    BY DEF Idle
  <1>2. PICK i \in DOMAIN lines : Logging(t, i)
    BY <1>1, SMTT(30), Zenon DEF LogInv, CallLogged
  <1>3. /\ c.buf = lines[i].line /\ c.op = "write" /\ CallSound(c) /\ bytes \in Seq(Byte)
    BY <1>2, SMTT(30), Zenon DEF Logging, IInv, TypeInv
  <1>4. /\ c.written \in Nat /\ c.size \in Nat /\ n \in Nat /\ n <= c.size
        /\ c.buf \in Seq(Byte) /\ c.written + n <= Len(c.buf)
    BY <1>3 DEF CallSound, CallType
  <1> HIDE DEF c
  <1> DEFINE data == Data(c, n)
             file == Overwritten(data, Len(bytes))
  <1>5. /\ data \in Seq(Byte) /\ Len(data) = n
        /\ \A p \in 1 .. n : data[p] = c.buf[c.written + p]
    BY <1>4, SubSeqFacts, ZenonT(30) DEF Data
  <1>6. bytes' = file /\ Len(bytes) \in Nat
    BY <1>3 DEF c
  <1> HIDE DEF data
  <1>7. /\ bytes' \in Seq(Byte) /\ Len(bytes') = Len(bytes) + n
        /\ \A p \in 1 .. n : bytes'[Len(bytes) + p] = data[p]
        /\ \A j \in 1 .. Len(bytes) : j <= Len(bytes) => bytes'[j] = bytes[j]
    <2>1. /\ file \in Seq(Byte) /\ Len(file) = Len(bytes) + Len(data)
          /\ \A p \in 1 .. Len(data) : file[Len(bytes) + p] = data[p]
          /\ \A j \in 1 .. Len(bytes) : j <= Len(bytes) => file[j] = bytes[j]
      BY <1>3, <1>5, <1>6, OverwrittenFacts, Zenon
    <2> HIDE DEF file
    <2> QED  BY <1>5, <1>6, <2>1
  <1>8. \A p \in 1 .. n : c.written + p \in DOMAIN c.buf
    BY <1>4
  <1>9. \A j \in 1 .. Len(bytes) : bytes'[j] = bytes[j]
    BY <1>6, <1>7
  <1> QED  BY <1>2, <1>3, <1>5, <1>7, <1>8, <1>9, ZenonT(30) DEF c

(* What n more pieces of line i, of which w are in the file, do to it.     *)
LEMMA AppendInv ==
    ASSUME IInv, FileInv, NEW t \in Thread, NEW i \in DOMAIN lines, LastOf(t, i),
           NEW w \in Nat, Written(i) = 1 .. w, t = "handler" => AtEnd(i),
           NEW n \in Nat, lines' = lines, bytes' \in Seq(Byte), Len(bytes') = Len(bytes) + n,
           \A j \in 1 .. Len(bytes) : bytes'[j] = bytes[j],
           \A p \in 1 .. n : /\ w + p \in DOMAIN lines[i].line
                            /\ bytes'[Len(bytes) + p] = lines[i].line[w + p]
    PROVE  /\ FileInv' /\ Written(i)' = 1 .. w + n
           /\ \A m \in DOMAIN lines : m # i => Written(m)' = Written(m)
           /\ t = "handler" => AtEnd(i)'
  <1> DEFINE L == Len(bytes)
             line == lines[i].line
  <1>1. /\ L \in Nat /\ DOMAIN bytes = 1 .. L /\ DOMAIN bytes' = 1 .. L + n
        /\ lines \in Seq(LineType) /\ line \in Seq(Byte)
    <2>1. bytes \in Seq(Byte) /\ lines \in Seq(LineType)
      BY DEF IInv, TypeInv
    <2>2. lines[i] \in LineType
      BY <2>1
    <2>3. line \in Seq(Byte)
      BY <2>2, Zenon DEF LineType
    <2> QED  BY <2>1, <2>3
  <1>2. /\ \A m \in DOMAIN lines : Distinct(m, lines[m].line) /\ FromStart(m)
        /\ \A j \in 1 .. L : OfLine(j)
        /\ \A j1, j2 \in 1 .. L : j1 < j2 => InOrder(j1, j2)
    BY <1>1, Zenon DEF FileInv
  <1>0. /\ \A k \in DOMAIN line : line[k][1] = i
        /\ \A k1, k2 \in DOMAIN line : line[k1] = line[k2] => k1 = k2
    BY <1>2, Zenon DEF Distinct
  <1>3. ASSUME NEW j \in 1 .. L + n, j > L
        PROVE  /\ w + (j - L) \in DOMAIN line /\ bytes'[j] = line[w + (j - L)]
               /\ bytes'[j][1] = i
    <2>1. j - L \in 1 .. n /\ L + (j - L) = j
      BY <1>1, <1>3, SMTT(30), Zenon
    <2>2. w + (j - L) \in DOMAIN line /\ bytes'[j] = line[w + (j - L)]
      BY <2>1, Zenon
    <2>3. line[w + (j - L)][1] = i
      BY <1>0, <2>2
    <2> HIDE DEF line
    <2> QED  BY <2>2, <2>3
  <1>4. \A j \in 1 .. L : j \in 1 .. L + n /\ bytes'[j] = bytes[j]
    BY <1>1
  <1>5. \A j \in 1 .. L + n : j \in 1 .. L \/ j > L
    BY <1>1
  <1>6. ASSUME NEW m \in DOMAIN lines, m # i
        PROVE  Written(m)' = Written(m)
    <2>1. ASSUME NEW j \in 1 .. L + n, NEW k \in DOMAIN lines[m].line, bytes'[j] = lines[m].line[k]
          PROVE  j \in 1 .. L
      <3>1. bytes'[j][1] = m
        BY <1>2, <2>1 DEF Distinct
      <3> QED  BY <1>3, <1>5, <1>6, <3>1, SMTT(30), Zenon
    <2>2. \A k \in DOMAIN lines[m].line :
             (\E j \in 1 .. L + n : bytes'[j] = lines[m].line[k])
                <=> (\E j \in 1 .. L : bytes[j] = lines[m].line[k])
      BY <1>4, <2>1
    <2> QED  BY <1>1, <2>2, Zenon DEF Written
  <1>7. Written(i)' = 1 .. w + n
    <2>1. Written(i)' = {k \in DOMAIN line : \E j \in 1 .. L + n : bytes'[j] = line[k]}
      BY <1>1 DEF Written
    <2>2. ASSUME NEW k \in DOMAIN line, NEW j \in 1 .. L + n, bytes'[j] = line[k]
          PROVE  k \in 1 .. w + n
      <3>1. CASE j \in 1 .. L
        <4>1. k \in Written(i)
          BY <1>1, <1>4, <2>2, <3>1 DEF Written
        <4> QED  BY <4>1
      <3>2. CASE j > L
        <4>1. w + (j - L) \in DOMAIN line /\ line[w + (j - L)] = line[k]
          BY <1>3, <2>2, <3>2
        <4>2. k = w + (j - L)
          BY <1>0, <4>1, Zenon
        <4> QED  BY <1>1, <3>2, <4>2
      <3> QED  BY <1>5, <3>1, <3>2
    <2>3. ASSUME NEW k \in 1 .. w + n
          PROVE  k \in DOMAIN line /\ \E j \in 1 .. L + n : bytes'[j] = line[k]
      <3>1. CASE k <= w
        <4>1. k \in Written(i)
          BY <3>1
        <4>2. k \in DOMAIN line /\ \E j \in 1 .. L : bytes[j] = line[k]
          BY <1>1, <4>1 DEF Written
        <4> QED  BY <1>4, <4>2
      <3>2. CASE k > w
        <4>1. k - w \in 1 .. n /\ w + (k - w) = k /\ L + (k - w) \in 1 .. L + n
          <5>1. w \in Nat /\ n \in Nat /\ L \in Nat
            BY <1>1
          <5> HIDE DEF L
          <5> QED  BY <5>1, <3>2, SMTT(30)
        <4> QED  BY <4>1, Zenon
      <3> QED  BY <3>1, <3>2
    <2> QED  BY <2>1, <2>2, <2>3, Zenon
  <1>8. \A m \in DOMAIN lines : FromStart(m)'
    <2>1. FromStart(i)'
      BY <1>7 DEF FromStart
    <2>2. \A m \in DOMAIN lines : m # i => FromStart(m)'
      BY <1>2, <1>6 DEF FromStart
    <2> QED  BY <2>1, <2>2
  <1>9. ASSUME NEW j \in 1 .. L + n PROVE OfLine(j)'
    <2>1. CASE j \in 1 .. L
      BY <1>2, <1>4, <2>1 DEF OfLine
    <2>2. CASE j > L
      BY <1>3, <2>2 DEF OfLine
    <2> QED  BY <1>5, <2>1, <2>2
  <1>10. ASSUME t = "handler" PROVE AtEnd(i)'
    <2> SUFFICES ASSUME NEW j1 \in 1 .. L + n, NEW j2 \in 1 .. L + n, j1 < j2, bytes'[j1][1] = i
                 PROVE  bytes'[j2][1] = i
      BY <1>1 DEF AtEnd
    <2>1. CASE j2 \in 1 .. L
      <3>1. j1 \in 1 .. L
        BY <1>1, <2>1
      <3> QED  BY <1>1, <1>4, <1>10, <2>1, <3>1, SMTT(30), Zenon DEF AtEnd
    <2> QED  BY <1>3, <1>5, <2>1
  <1>11. ASSUME NEW j1 \in 1 .. L + n, NEW j2 \in 1 .. L + n, j1 < j2
         PROVE  InOrder(j1, j2)'
    <2>1. CASE j2 \in 1 .. L
      <3>1. j1 \in 1 .. L /\ \A j \in j1 .. j2 : j \in 1 .. L
        BY <1>1, <1>11, <2>1
      <3>2. InOrder(j1, j2) /\ bytes'[j1] = bytes[j1] /\ bytes'[j2] = bytes[j2]
        BY <1>2, <1>4, <1>11, <2>1, <3>1
      <3>3. \A j \in j1 .. j2 : bytes'[j] = bytes[j]
        BY <1>4, <3>1
      <3> QED  BY <3>2, <3>3, SMTT(30), Zenon DEF InOrder
    <2>2. CASE j2 > L
      <3>1. /\ w + (j2 - L) \in DOMAIN line /\ bytes'[j2] = line[w + (j2 - L)]
            /\ bytes'[j2][1] = i
        BY <1>3, <2>2
      <3> DEFINE m == bytes'[j1][1]
      <3>2. m \in DOMAIN lines
        BY <1>9 DEF OfLine
      <3>3. lines[m].by = lines[i].by => m <= i
        BY <3>2 DEF LastOf
      <3>4. ASSUME m = i, NEW k1 \in DOMAIN line, NEW k2 \in DOMAIN line,
                   bytes'[j1] = line[k1], bytes'[j2] = line[k2]
            PROVE  k1 < k2
        <4>1. k2 = w + (j2 - L)
          BY <1>0, <3>1, <3>4, ZenonT(30)
        <4>2. CASE j1 \in 1 .. L
          <5>1. k1 \in Written(i)
            BY <1>1, <1>4, <3>4, <4>2, SMTT(30), Zenon DEF Written
          <5> QED  BY <1>1, <2>2, <4>1, <5>1
        <4>3. CASE j1 > L
          <5>1. w + (j1 - L) \in DOMAIN line /\ line[w + (j1 - L)] = line[k1]
            BY <1>3, <3>4, <4>3
          <5>2. k1 = w + (j1 - L)
            BY <1>0, <5>1, Zenon
          <5> QED  BY <1>1, <1>11, <4>1, <5>2
        <4> QED  BY <1>5, <4>2, <4>3
      <3>5. ASSUME m = i, lines[i].by = "handler", NEW j \in j1 .. j2
            PROVE  bytes'[j][1] = i
        <4>1. t = "handler"
          BY <3>5 DEF LastOf
        <4>2. j \in 1 .. L + n /\ (j1 = j \/ j1 < j)
          BY <1>1
        <4> QED  BY <1>1, <1>10, <3>5, <4>1, <4>2, Zenon DEF AtEnd
      <3> QED  BY <3>1, <3>3, <3>4, <3>5, ZenonT(30) DEF InOrder
    <2> QED  BY <1>5, <2>1, <2>2
  <1>12. FileInv'
    BY <1>1, <1>2, <1>8, <1>9, <1>11 DEF FileInv
  <1> QED  BY <1>6, <1>7, <1>10, <1>12

LEMMA WriteLog ==
    ASSUME IInv, LogInv, append, NEW t \in Thread, write(t), lines' = lines
    PROVE  LogInv'
  <1> DEFINE c == call[t]
  <1>1. /\ call[t].pc = "write" /\ MayRun(t) /\ Running(t)
    BY ZenonT(30) DEF write, Running
  <1>2. FileInv /\ \A u \in Thread : CallLogged(u)
    BY DEF LogInv
  <1>3. call \in [Thread -> CallType] /\ CallSound(c) /\ c \in CallType
    BY DEF IInv, TypeInv
  <1>4. CASE Return(t, "XPE_ERROR") /\ UNCHANGED <<bytes, pos, append, offset, sought>>
    <2> DEFINE d == [c EXCEPT !.pc = "returned", !.ret = "XPE_ERROR"]
    <2>1. call' = [call EXCEPT ![t] = d]
      BY <1>3, <1>4, Zenon DEF Return
    <2>2. call'[t] = d /\ \A u \in Thread : u # t => call'[u] = call[u]
      BY <1>3, <2>1
    <2>3. d.pc = "returned" /\ d.ret = "XPE_ERROR" /\ d.buf = c.buf /\ d.op = c.op
      BY <1>3, ZenonT(30) DEF CallType
    <2>4. PICK i \in DOMAIN lines : Logging(t, i)
      <3>1. Idle.pc = "returned"
        BY DEF Idle
      <3> QED  BY <1>1, <1>2, <3>1 DEF CallLogged
    <2> HIDE DEF c, d
    <2>5. LastOf(t, i)' /\ ~Running(t)' /\ call'[t].ret # "OK"
      BY <2>2, <2>3, <2>4, SMTT(30), Zenon DEF Logging, LastOf, Running
    <2>6. Logging(t, i)'
      BY <2>2, <2>3, <2>4, <2>5 DEF Logging, c
    <2>7. CallLogged(t)'
      BY <2>4, <2>6 DEF CallLogged
    <2>8. \A u \in Thread : u # t => CallLogged(u)'
      BY <1>2, <1>4, <2>2, SameCall, SMTT(30), Zenon
    <2> QED  BY <1>4, <2>7, <2>8, SameLog
  <1>5. ASSUME NEW n \in 0 .. c.size, bytes' = Overwritten(Data(c, n), Len(bytes)),
               call' = [call EXCEPT ![t].written = @ + n, ![t].size = Left(c, n),
                                    ![t].pc = IF n = c.size THEN "returned" ELSE @]
        PROVE  LogInv'
    <2> DEFINE d == [c EXCEPT !.written = @ + n, !.size = c.size - n,
                              !.pc = IF n = c.size THEN "returned" ELSE @]
    <2>1. PICK i \in DOMAIN lines :
              /\ Logging(t, i) /\ bytes' \in Seq(Byte) /\ Len(bytes') = Len(bytes) + n
              /\ \A j \in 1 .. Len(bytes) : bytes'[j] = bytes[j]
              /\ \A p \in 1 .. n : /\ c.written + p \in DOMAIN lines[i].line
                                   /\ bytes'[Len(bytes) + p] = lines[i].line[c.written + p]
      BY <1>1, <1>5, MoreOfLine, Zenon
    <2>2. call' = [call EXCEPT ![t] = d]
      BY <1>3, <1>5, Zenon DEF Left
    <2>3. call'[t] = d /\ \A u \in Thread : u # t => call'[u] = call[u]
      BY <1>3, <2>2
    <2>4. /\ d.written = c.written + n /\ d.size = c.size - n /\ d.op = c.op /\ d.ret = c.ret
          /\ d.buf = c.buf /\ d.pc = (IF n = c.size THEN "returned" ELSE c.pc)
      <3> HIDE DEF c
      <3> QED  BY <1>3, ZenonT(30) DEF CallType
    <2>5. c.written \in Nat /\ c.size \in Nat /\ n \in Nat
      BY <1>3, SMTT(30), Zenon DEF CallType
    <2>6. /\ LastOf(t, i) /\ Written(i) = 1 .. c.written /\ c.buf = lines[i].line
          /\ c.op = "write" /\ (t = "handler" => AtEnd(i))
      BY <1>1, <2>1 DEF Logging
    <2> HIDE DEF c, d
    <2>7. /\ FileInv' /\ Written(i)' = 1 .. c.written + n
          /\ \A m \in DOMAIN lines : m # i => Written(m)' = Written(m)
          /\ t = "handler" => AtEnd(i)'
      BY <1>2, <2>1, <2>5, <2>6, AppendInv, ZenonT(30)
    <2>8. Logging(t, i)'
      <3>1. LastOf(t, i)'
        BY <2>6, SMTT(30), Zenon DEF LastOf
      <3>2. ~Running(t)' => n = c.size
        BY <1>1, <2>3, <2>4 DEF Running, c
      <3>3. n = c.size => d.size = 0
        BY <2>4, <2>5
      <3> QED  BY <2>3, <2>4, <2>6, <2>7, <3>1, <3>2, <3>3, SMTT(30), Zenon DEF Logging
    <2>9. ASSUME NEW u \in Thread, u # t PROVE CallLogged(u)'
      <3>1. call'[u] = call[u] /\ CallLogged(u)
        BY <1>2, <2>3, <2>9, SMTT(30), Zenon
      <3>2. CASE call[u] = Idle
        BY <3>1, <3>2 DEF CallLogged, Idle
      <3>3. CASE call[u] # Idle
        <4>1. PICK m \in DOMAIN lines : Logging(u, m)
          BY <3>1, <3>3, SMTT(30), Zenon DEF CallLogged
        <4>2. m # i /\ LastOf(u, m)'
          BY <2>6, <2>9, <4>1 DEF Logging, LastOf
        <4>3. u = "handler" => ~Running(u)
          BY <1>1, <2>9, SMTT(30), Zenon DEF MayRun, Thread
        <4>4. Running(u)' <=> Running(u)
          BY <3>1 DEF Running
        <4>5. Written(m)' = Written(m)
          BY <2>7, <4>2, SMTT(30), Zenon
        <4>6. Logging(u, m)'
          BY <3>1, <4>1, <4>2, <4>3, <4>4, <4>5, SMTT(30), Zenon DEF Logging
        <4> QED  BY <4>6 DEF CallLogged
      <3> QED  BY <3>2, <3>3
    <2> QED  BY <2>7, <2>8, <2>9 DEF LogInv, CallLogged
  <1> QED  BY <1>4, <1>5, Zenon DEF write

(* Two sequences without duplicates that have no element in common. *)
Once(s) == \A i, j \in DOMAIN s : s[i] = s[j] => i = j

LEMMA JoinOnce ==
    ASSUME NEW A, NEW B, A \cap B = {}, NEW u \in Seq(A), NEW v \in Seq(B), Once(u), Once(v)
    PROVE  Once(u \o v) /\ u \o v \in Seq(A \cup B)
  <1> DEFINE n == Len(u)
             m == Len(v)
             s == u \o v
  <1>1. /\ n \in Nat /\ m \in Nat /\ DOMAIN u = 1 .. n /\ DOMAIN v = 1 .. m
        /\ u \in Seq(A \cup B) /\ v \in Seq(A \cup B)
    OBVIOUS
  <1>2. /\ s \in Seq(A \cup B) /\ Len(s) = n + m
        /\ \A i \in 1 .. n + m : s[i] = IF i <= n THEN u[i] ELSE v[i - n]
    BY <1>1, ConcatProperties, ZenonT(30)
  <1>3. DOMAIN s = 1 .. n + m
    BY <1>2
  <1> HIDE DEF s
  <1>4. ASSUME NEW i \in 1 .. n + m
        PROVE  \/ i \in 1 .. n /\ s[i] = u[i] /\ s[i] \in A
               \/ i - n \in 1 .. m /\ s[i] = v[i - n] /\ s[i] \in B
    <2>1. CASE i <= n
      <3>1. i \in 1 .. n /\ s[i] = u[i]
        BY <1>1, <1>2, <2>1
      <3> QED  BY <1>1, <3>1
    <2>2. CASE ~(i <= n)
      <3>1. i - n \in 1 .. m /\ s[i] = v[i - n]
        BY <1>1, <1>2, <2>2
      <3> QED  BY <1>1, <3>1
    <2> QED  BY <2>1, <2>2
  <1>5. ASSUME NEW i \in 1 .. n + m, NEW j \in 1 .. n + m, s[i] = s[j]
        PROVE  i = j
    <2>1. CASE s[i] \in A
      <3>1. /\ i \in 1 .. n /\ s[i] = u[i]
            /\ j \in 1 .. n /\ s[j] = u[j]
        BY <1>4, <1>5, <2>1
      <3> QED  BY <1>1, <1>5, <3>1, Zenon DEF Once
    <2>2. CASE s[i] \notin A
      <3>1. /\ i - n \in 1 .. m /\ s[i] = v[i - n]
            /\ j - n \in 1 .. m /\ s[j] = v[j - n]
        BY <1>4, <1>5, <2>2, SMTT(30), Zenon
      <3>2. i - n = j - n
        BY <1>1, <1>5, <3>1, Zenon DEF Once
      <3> QED  BY <1>1, <3>2
    <2> QED  BY <2>1, <2>2
  <1>6. Once(s)
    BY <1>3, <1>5 DEF Once
  <1> QED  BY <1>2, <1>6 DEF s

(* The pieces of a line are different. *)
LEMMA LineDistinct ==
    ASSUME NEW i \in Nat, NEW l, NEW err
    PROVE  Distinct(i, Line(i, l, err))
  <1> DEFINE line == Line(i, l, err)
  <1>1. PICK A, B, C : A = {"time", "level"} /\ B = {"error"} /\ C = {"message", "LF"}
    BY Zenon
  <1>2. A \cap B = {} /\ (A \cup B) \cap C = {}
    BY <1>1
  <1>3. PICK u : u = <<"time", "level">>
    BY Zenon
  <1>4. PICK mid : mid = IF err = 0 THEN <<>> ELSE <<"error">>
    BY Zenon
  <1>5. PICK v : v = <<"message", "LF">>
    BY Zenon
  <1>6. PICK s : s = Pieces(l, err)
    BY Zenon
  <1>7. u \in Seq(A) /\ Once(u)
    BY <1>1, <1>3 DEF Once
  <1>8. v \in Seq(C) /\ Once(v) /\ Len(v) = 2
    BY <1>1, <1>5 DEF Once
  <1>9. mid \in Seq(B) /\ Once(mid)
    <2>1. CASE err = 0
      <3>1. mid = <<>>
        BY <1>4, <2>1, Zenon
      <3> QED  BY <3>1 DEF Once
    <2>2. CASE err # 0
      <3>1. mid = <<"error">>
        BY <1>4, <2>2, Zenon
      <3> QED  BY <1>1, <3>1 DEF Once
    <2> QED  BY <2>1, <2>2, Zenon
  <1>10. s = (u \o mid) \o v
    BY <1>3, <1>4, <1>5, <1>6, Zenon DEF Pieces
  <1>11. PICK D, w : D = A \cup B /\ w = u \o mid
    BY Zenon
  <1>12. Once(w) /\ w \in Seq(D) /\ D \cap C = {}
    <2>1. Once(u \o mid) /\ u \o mid \in Seq(A \cup B)
      BY <1>2, <1>7, <1>9, JoinOnce, Zenon
    <2> QED  BY <1>2, <1>11, <2>1, Zenon
  <1>13. Once(s) /\ DOMAIN s # {}
    <2>1. Once(w \o v) /\ w \o v \in Seq(D \cup C)
      <3>1. v \in Seq(C) /\ Once(v)
        BY <1>8, Zenon
      <3> QED  BY <1>12, <3>1, JoinOnce, Zenon
    <2>2. PICK T : T = D \cup C
      BY Zenon
    <2>3. Once(s) /\ s \in Seq(T) /\ Len(s) = Len(w) + Len(v) /\ Len(w) \in Nat
      <3>1. s = w \o v
        BY <1>10, <1>11, Zenon
      <3>2. Len(w \o v) = Len(w) + Len(v) /\ Len(w) \in Nat
        <4>1. w \in Seq(T) /\ v \in Seq(T)
          BY <1>8, <1>12, <2>2
        <4>2. Len(w \o v) = Len(w) + Len(v)
          BY <4>1, ConcatProperties, Zenon
        <4> QED  BY <1>12, <4>2
      <3> QED  BY <2>1, <2>2, <3>1, <3>2
    <2>4. Len(s) \in Nat /\ 1 \in 1 .. Len(s)
      BY <1>8, <2>3
    <2>5. DOMAIN s = 1 .. Len(s)
      BY <2>3
    <2> QED  BY <2>3, <2>4, <2>5
  <1>14. line = [k \in DOMAIN s |-> <<i, s[k]>>]
    BY <1>6, Zenon DEF Line
  <1> HIDE DEF line
  <1>15. DOMAIN line = DOMAIN s /\ \A k \in DOMAIN s : line[k] = <<i, s[k]>>
    BY <1>14
  <1>16. Distinct(i, line)
    BY <1>13, <1>15 DEF Distinct, Once
  <1> QED  BY <1>16 DEF line

(* log_core_writer begins the call for one more line. *)
LEMMA CoreLog ==
    ASSUME IInv, LogInv, append, NEW t \in Thread, NEW l, NEW err, NEW n,
           log_core_writer(t, l, err, n)
    PROVE  LogInv'
  <1>0. PICK N \in Nat : N = Len(lines)
    BY DEF IInv, TypeInv
  <1> DEFINE line == Line(N + 1, l, err)
             c == [Idle EXCEPT !.pc = "write", !.op = "write", !.buf = line, !.size = Len(line),
                               !.at = FL_DEFAULT_OFFSET]
  <1>1. FileInv /\ \A u \in Thread : CallLogged(u)
    BY DEF LogInv
  <1>2. /\ lines \in Seq(LineType) /\ DOMAIN lines = 1 .. N
        /\ call \in [Thread -> CallType] /\ bytes \in Seq(Byte)
    BY <1>0 DEF IInv, TypeInv
  <1>3. line \in Seq(Byte) /\ Distinct(N + 1, line)
    BY <1>2, LineIsBytes, LineDistinct
  <1>4. lines' = Append(lines, [by |-> t, line |-> line]) /\ Seek(t, c)
    BY <1>0 DEF log_core_writer, file_write
  <1>5. c.pc = "write" /\ c.op = "write" /\ c.buf = line /\ c.written = 0 /\ c.at = FL_DEFAULT_OFFSET
    BY DEF Idle
  <1> HIDE DEF line, c
  <1>6. bytes' = bytes /\ call' = [call EXCEPT ![t] = c]
    BY <1>4, <1>5 DEF Seek
  <1>7. call'[t] = c /\ \A u \in Thread : u # t => call'[u] = call[u]
    BY <1>2, <1>6, SMTT(30), Zenon
  <1>8. /\ DOMAIN lines' = 1 .. N + 1 /\ \A m \in 1 .. N : lines'[m] = lines[m]
        /\ lines'[N + 1] = [by |-> t, line |-> line]
    <2>1. [by |-> t, line |-> line] \in LineType
      BY <1>3 DEF LineType
    <2> QED  BY <1>0, <1>2, <1>4, <2>1, SMTT(30), Zenon
  <1>9. lines'[N + 1].by = t /\ lines'[N + 1].line = line
    BY <1>8
  <1>10. \A m \in 1 .. N + 1 : m \in 1 .. N \/ m = N + 1
    BY <1>2
  <1>11. N + 1 \notin 1 .. N /\ (\A m \in 1 .. N : m <= N + 1) /\ N + 1 \in 1 .. N + 1
         /\ \A m \in 1 .. N : m \in 1 .. N + 1
    BY <1>2, SMTT(30), Zenon
  <1>12. \A j \in DOMAIN bytes : bytes[j][1] \in 1 .. N
    BY <1>1, <1>2, SMTT(30), Zenon DEF FileInv, OfLine
  <1>13. \A m \in 1 .. N : Written(m)' = Written(m)
    BY <1>6, <1>8, SMTT(30), Zenon DEF Written
  <1>14. Written(N + 1)' = {}
    <2>1. \A k \in DOMAIN line, j \in DOMAIN bytes : bytes[j] # line[k]
      BY <1>3, <1>11, <1>12, SMTT(30), Zenon DEF Distinct
    <2> QED  BY <1>6, <1>9, <2>1, SMTT(30), Zenon DEF Written
  <1>15. FileInv'
    <2>1. ASSUME NEW m \in 1 .. N + 1
          PROVE  Distinct(m, lines'[m].line) /\ FromStart(m)'
      <3>1. CASE m \in 1 .. N
        BY <1>1, <1>2, <1>8, <1>13, <3>1, SMTT(30), Zenon DEF FileInv, FromStart
      <3>2. CASE m = N + 1
        BY <1>3, <1>9, <1>14, <3>2 DEF FromStart
      <3> QED  BY <1>10, <3>1, <3>2, SMTT(30), Zenon
    <2>2. \A j \in DOMAIN bytes : OfLine(j)'
      BY <1>1, <1>6, <1>8, <1>11, <1>12, ZenonT(30) DEF FileInv, OfLine
    <2>3. ASSUME NEW j1 \in DOMAIN bytes, NEW j2 \in DOMAIN bytes, j1 < j2
          PROVE  InOrder(j1, j2)'
      <3>1. InOrder(j1, j2)
        BY <1>1, <2>3 DEF FileInv
      <3>2. lines'[bytes[j1][1]] = lines[bytes[j1][1]] /\ lines'[bytes[j2][1]] = lines[bytes[j2][1]]
        BY <1>8, <1>12, ZenonT(30)
      <3> QED  BY <1>6, <3>1, <3>2, ZenonT(30) DEF InOrder
    <2> QED  BY <1>6, <1>8, <2>1, <2>2, <2>3, Zenon DEF FileInv, Distinct
  <1>16. Logging(t, N + 1)'
    <2>1. LastOf(t, N + 1)'
      BY <1>8, <1>9, <1>10, <1>11, SMTT(30), Zenon DEF LastOf
    <2>2. Running(t)'
      BY <1>5, <1>7, SMTT(30), Zenon DEF Running
    <2>3. AtEnd(N + 1)'
      BY <1>6, <1>11, <1>12 DEF AtEnd
    <2>4. Written(N + 1)' = 1 .. c.written
      BY <1>5, <1>14
    <2> QED  BY <1>5, <1>7, <1>9, <2>1, <2>2, <2>3, <2>4, ZenonT(30) DEF Logging
  <1>17. ASSUME NEW u \in Thread, u # t PROVE CallLogged(u)'
    <2>1. call'[u] = call[u] /\ CallLogged(u)
      BY <1>1, <1>7, <1>17, SMTT(30), Zenon
    <2>2. CASE call[u] = Idle
      BY <2>1, <2>2, SMTT(30), Zenon DEF CallLogged, Idle
    <2>3. CASE call[u] # Idle
      <3>1. PICK m \in 1 .. N : Logging(u, m)
        BY <1>2, <2>1, <2>3, SMTT(30), Zenon DEF CallLogged
      <3>2. LastOf(u, m)'
        BY <1>2, <1>8, <1>9, <1>10, <1>11, <1>17, <3>1, ZenonT(30) DEF Logging, LastOf
      <3>3. (Running(u)' <=> Running(u)) /\ (AtEnd(m)' <=> AtEnd(m))
        BY <1>6, <2>1, Zenon DEF Running, AtEnd
      <3>4. Written(m)' = Written(m) /\ lines'[m] = lines[m]
        BY <1>8, <1>13, SMTT(30), Zenon
      <3>5. Logging(u, m)'
        BY <2>1, <3>1, <3>2, <3>3, <3>4, SMTT(30), Zenon DEF Logging
      <3> QED  BY <1>8, <1>11, <3>5 DEF CallLogged
    <2> QED  BY <2>2, <2>3, SMTT(30), Zenon
  <1>18. CallLogged(t)'
    BY <1>8, <1>11, <1>16 DEF CallLogged
  <1> QED  BY <1>15, <1>17, <1>18 DEF LogInv

LEMMA LogsLog ==
    ASSUME IInv, LogInv, append, NEW t \in Thread, NEW l, NEW err, NEW n, Logs(t, l, err, n)
    PROVE  LogInv'
  <1>1. CASE UNCHANGED vars
    <2>1. bytes' = bytes /\ lines' = lines /\ call' = call
      BY <1>1 DEF vars, fvars
    <2>2. \A u \in Thread : CallLogged(u)'
      BY <2>1, SameCall DEF LogInv
    <2> QED  BY <2>1, <2>2, SameLog
  <1>2. CASE log_core_writer(t, l, err, n)
    BY <1>2, CoreLog
  <1> QED  BY <1>1, <1>2 DEF Logs

(* No step but those of log_core_writer and write touch a log file. *)
LEMMA NextLog == IInv /\ LogInv /\ [Next]_vars => LogInv'
  <1> SUFFICES ASSUME IInv, LogInv, [Next]_vars PROVE LogInv'
    OBVIOUS
  <1>1. CASE ~append'
    BY <1>1 DEF LogInv
  <1>2. CASE ~append
    <2>1. append' = append
      BY <1>2, ZenonT(60)
         DEF Next, vars, fvars, LogLine, sig_term_handler, UseAtOffset, WriteOrRead, read,
         write, Idling, Undefined, file_read, file_write, Seek
    <2> QED  BY <1>2, <2>1 DEF LogInv
  <1>3. CASE append
    <2>1. CASE UNCHANGED vars
      <3>1. bytes' = bytes /\ lines' = lines /\ call' = call
        BY <2>1 DEF vars, fvars
      <3>2. \A u \in Thread : CallLogged(u)'
        BY <1>3, <3>1, SameCall DEF LogInv
      <3> QED  BY <1>3, <3>1, <3>2, SameLog
    <2>2. CASE LogLine
      BY <1>3, <2>2, LogsLog DEF LogLine, Thread
    <2>3. CASE sig_term_handler
      BY <1>3, <2>3, LogsLog DEF sig_term_handler, Thread
    <2>4. CASE UseAtOffset
      BY <1>3, <2>4 DEF UseAtOffset
    <2>5. CASE WriteOrRead
      <3>1. PICK t \in Thread : read(t) \/ write(t)
        BY <2>5 DEF WriteOrRead
      <3>2. lines' = lines
        BY <2>5, SMTT(30), Zenon DEF WriteOrRead
      <3>3. ~read(t)
        <4>1. SUFFICES ASSUME call[t].pc = "read" PROVE FALSE
          BY Zenon DEF read
        <4>2. call[t].op = "read"
          BY <4>1 DEF IInv, TypeInv, CallSound
        <4>3. Idle.pc = "returned"
          BY DEF Idle
        <4> QED  BY <1>3, <4>1, <4>2, <4>3 DEF LogInv, CallLogged, Logging
      <3> QED  BY <1>3, <3>1, <3>2, <3>3, WriteLog
    <2>6. CASE Idling \/ Undefined
      BY <2>1, <2>6 DEF Idling, Undefined
    <2> QED  BY <2>1, <2>2, <2>3, <2>4, <2>5, <2>6 DEF Next
  <1> QED  BY <1>2, <1>3

(* Short writes, failures, and sig_term_handler in the middle of a line of *)
(* the program: every line is in the log file from its beginning, at most  *)
(* once, in the order of the calls, and whole if file_write returned       *)
(* without an error; the handler's is in one piece (LogInOrder). For all   *)
(* numbers of lines.                                                       *)
THEOREM LogCorrect == Spec => []LogInOrder
  BY InitLog, NextLog, LogImplied, Invariance, PTL DEF Spec
==============================================================================
