--------------------------- MODULE LogTailProofs ----------------------------
(***************************************************************************)
(* Proofs about LogTail for every window, line length and bound.           *)
(*                                                                         *)
(* First the types, and ByteExact.  The inductive invariant says that      *)
(* within a stretch the reader lies inside the file; truncation, which     *)
(* breaks that, leaves its mark in gen.                                    *)
(*                                                                         *)
(* Then InOrderOnce: what is handed over is handed over once and in the    *)
(* order in which it was written.  Three things are kept in order at every *)
(* step: the files, by their numbers; what was handed over, the unfinished *)
(* line and what the file in hand still holds; and all of these against    *)
(* the file of the log's name, once that is another one.                   *)
(***************************************************************************)
EXTENDS LogTail, SequenceTheorems, TLAPS

(* The reader has a file when it reads one. *)
Holding ==
    /\ pc \in {"measure", "read"} => file # None
    /\ file # None => inode = file

(* The stretch lies inside the file, and accounts for all of it. *)
Covered ==
    file # None =>
        /\ readGen <= gen[file]
        /\ readGen = gen[file] =>
              /\ from <= offset /\ offset <= Size(file)
              /\ SubSeq(content[file], from + 1, offset) =
                    Rest(reported, mark) \o partial

TailInv == TypeOK /\ Holding /\ Covered
-----------------------------------------------------------------------------
(* What Rest(s, n) is. *)
LEMMA RestProperties ==
  ASSUME NEW S, NEW s \in Seq(S), NEW n \in Nat
  PROVE  /\ Rest(s, n) \in Seq(S)
         /\ Len(Rest(s, n)) = IF n <= Len(s) THEN Len(s) - n ELSE 0
         /\ n >= Len(s) => Rest(s, n) = <<>>
         /\ \A i \in 1..(Len(s) - n) : Rest(s, n)[i] = s[n + i]
  <1>1. \A i \in (n + 1)..Len(s) : s[i] \in S
    BY ElementOfSeq, LenProperties
  <1>2. Len(s) \in Nat
    BY LenProperties
  <1>3. /\ SubSeq(s, n + 1, Len(s)) \in Seq(S)
        /\ Len(SubSeq(s, n + 1, Len(s))) =
             IF n + 1 <= Len(s) THEN Len(s) - (n + 1) + 1 ELSE 0
    BY <1>1, <1>2, SubSeqProperties
  <1>4. n >= Len(s) => SubSeq(s, n + 1, Len(s)) = <<>>
    BY <1>2, SubSeqEmpty
  <1>5. \A i \in 1..(Len(s) - (n + 1) + 1) :
            SubSeq(s, n + 1, Len(s))[i] = s[n + 1 + i - 1]
    BY <1>1, <1>2, SubSeqProperties
  <1> QED
    BY <1>2, <1>3, <1>4, <1>5 DEF Rest

(* A sequence is its first n elements followed by the rest. *)
LEMMA SplitInTwo ==
  ASSUME NEW S, NEW s \in Seq(S), NEW n \in 0..Len(s)
  PROVE  /\ SubSeq(s, 1, n) \in Seq(S)
         /\ SubSeq(s, 1, n) \o Rest(s, n) = s
  <1>1. Len(s) \in Nat /\ \A i \in 1..n : s[i] \in S
    BY ElementOfSeq, LenProperties
  <1>2. SubSeq(s, 1, n) \in Seq(S)
    BY <1>1, SubSeqProperties
  <1>3. SubSeq(s, 1, n) \o SubSeq(s, n + 1, Len(s)) = SubSeq(s, 1, Len(s))
    <2>1. 1 \in 1..(Len(s) + 1) /\ n \in (1 - 1)..Len(s) /\ Len(s) \in n..Len(s)
      BY <1>1
    <2> QED
      BY <2>1, ConcatAdjacentSubSeq
  <1>4. SubSeq(s, 1, Len(s)) = s
    BY SubSeqFull
  <1> QED
    BY <1>2, <1>3, <1>4 DEF Rest

(* What is appended to a sequence is appended to its rest. *)
LEMMA RestOfConcat ==
  ASSUME NEW S, NEW s \in Seq(S), NEW t \in Seq(S), NEW n \in 0..Len(s)
  PROVE  Rest(s \o t, n) = Rest(s, n) \o t
  <1>1. Len(s) \in Nat /\ Len(t) \in Nat
    BY LenProperties
  <1>2. s \o t \in Seq(S) /\ Len(s \o t) = Len(s) + Len(t)
    BY ConcatProperties
  <1>3. /\ Rest(s \o t, n) \in Seq(S) /\ Rest(s, n) \in Seq(S)
        /\ Len(Rest(s \o t, n)) = Len(s) + Len(t) - n
        /\ Len(Rest(s, n)) = Len(s) - n
        /\ \A i \in 1..(Len(s) + Len(t) - n) : Rest(s \o t, n)[i] = (s \o t)[n + i]
        /\ \A i \in 1..(Len(s) - n) : Rest(s, n)[i] = s[n + i]
    <2>1. n \in Nat /\ n <= Len(s) /\ n <= Len(s \o t)
      BY <1>1, <1>2
    <2>2. /\ Rest(s, n) \in Seq(S)
          /\ Len(Rest(s, n)) = Len(s) - n
          /\ \A i \in 1..(Len(s) - n) : Rest(s, n)[i] = s[n + i]
      BY <2>1, RestProperties
    <2>3. /\ Rest(s \o t, n) \in Seq(S)
          /\ Len(Rest(s \o t, n)) = Len(s \o t) - n
          /\ \A i \in 1..(Len(s \o t) - n) : Rest(s \o t, n)[i] = (s \o t)[n + i]
      BY <1>2, <2>1, RestProperties
    <2> QED
      BY <1>2, <2>2, <2>3
  <1>4. Rest(s, n) \o t \in Seq(S) /\ Len(Rest(s, n) \o t) = Len(s) - n + Len(t)
    BY <1>1, <1>3, ConcatProperties
  <1>5. ASSUME NEW i \in 1..(Len(s) + Len(t) - n)
        PROVE  Rest(s \o t, n)[i] = (Rest(s, n) \o t)[i]
    <2>1. Rest(s \o t, n)[i] = (s \o t)[n + i]
      BY <1>3
    <2>2. i <= Len(s) - n => Rest(s, n)[i] = s[n + i]
      BY <1>1, <1>3
    <2>3. n + i \in 1..(Len(s) + Len(t))
      BY <1>1
    <2>4. (s \o t)[n + i] = IF n + i <= Len(s) THEN s[n + i] ELSE t[n + i - Len(s)]
      BY <2>3, ConcatProperties
    <2>5. (Rest(s, n) \o t)[i] = IF i <= Len(s) - n THEN Rest(s, n)[i]
                                  ELSE t[i - (Len(s) - n)]
      BY <1>1, <1>3, ConcatProperties
    <2>6. i - (Len(s) - n) = n + i - Len(s)
      BY <1>1
    <2> QED
      BY <1>1, <2>1, <2>2, <2>4, <2>5, <2>6
  <1>6. /\ Len(Rest(s \o t, n)) = Len(Rest(s, n) \o t)
        /\ \A i \in 1..Len(Rest(s \o t, n)) : Rest(s \o t, n)[i] = (Rest(s, n) \o t)[i]
    BY <1>1, <1>3, <1>4, <1>5
  <1> QED
    BY <1>3, <1>4, <1>6, SeqEqual

(* A part of a file stays what it is when the file grows. *)
LEMMA AppendKeepsPart ==
  ASSUME NEW S, NEW s \in Seq(S), NEW e \in S,
         NEW m \in Nat, NEW n \in Nat, n <= Len(s)
  PROVE  SubSeq(Append(s, e), m + 1, n) = SubSeq(s, m + 1, n)
  <1>1. /\ Len(s) \in Nat
        /\ Append(s, e) \in Seq(S)
        /\ \A i \in 1..Len(s) : Append(s, e)[i] = s[i]
    BY LenProperties, AppendProperties
  <1>2. \A i \in (m + 1)..n : s[i] \in S /\ Append(s, e)[i] \in S
    BY <1>1, ElementOfSeq
  <1>3. /\ SubSeq(s, m + 1, n) \in Seq(S)
        /\ SubSeq(Append(s, e), m + 1, n) \in Seq(S)
        /\ Len(SubSeq(s, m + 1, n)) = Len(SubSeq(Append(s, e), m + 1, n))
    BY <1>2, SubSeqProperties
  <1>4. \A i \in 1..Len(SubSeq(s, m + 1, n)) :
            SubSeq(Append(s, e), m + 1, n)[i] = SubSeq(s, m + 1, n)[i]
    BY <1>1, <1>2, <1>3, SubSeqProperties
  <1> QED
    BY <1>3, <1>4, SeqEqual

(* A stretch that has just begun is empty on both sides. *)
LEMMA EmptyStretch ==
  ASSUME NEW s, NEW S, NEW r \in Seq(S), NEW n \in Nat
  PROVE  SubSeq(s, n + 1, n) = Rest(r, Len(r)) \o <<>>
  <1>1. SubSeq(s, n + 1, n) = <<>>
    BY SubSeqEmpty
  <1>2. Rest(r, Len(r)) = <<>>
    BY LenProperties, RestProperties
  <1>3. <<>> \o <<>> = <<>>
    BY EmptySeq, ConcatEmptySeq
  <1> QED
    BY <1>1, <1>2, <1>3
(* Concatenation of three sequences, in quantified form. *)
LEMMA ConcatAssociates ==
  \A S : \A s, t, u \in Seq(S) : (s \o t) \o u = s \o (t \o u)
  BY ConcatAssociative

(* What is read next to a part of a file extends that part. *)
LEMMA PartExtends ==
  ASSUME NEW S, NEW s \in Seq(S), NEW b \in Nat, NEW o \in Nat, b <= o, o <= Len(s)
  PROVE  SubSeq(s, b + 1, Len(s)) = SubSeq(s, b + 1, o) \o Rest(s, o)
  <1> DEFINE k == b + 1
  <1>1. k \in 1..(Len(s) + 1) /\ o \in (k - 1)..Len(s) /\ Len(s) \in o..Len(s)
    BY LenProperties
  <1> HIDE DEF k
  <1>2. SubSeq(s, k, o) \o SubSeq(s, o + 1, Len(s)) = SubSeq(s, k, Len(s))
    BY <1>1, ConcatAdjacentSubSeq
  <1> QED
    BY <1>2 DEF k, Rest

(* Handing over the first pieces of a text and keeping the rest accounts   *)
(* for what was accounted for before, and for the new text.                *)
LEMMA LinesAndRest ==
  ASSUME NEW S, NEW r \in Seq(S), NEW m \in 0..Len(r),
         NEW text \in Seq(S), NEW last \in 0..Len(text)
  PROVE  Rest(r \o SubSeq(text, 1, last), m) \o Rest(text, last) = Rest(r, m) \o text
  <1> DEFINE before == Rest(r, m)
             lines == SubSeq(text, 1, last)
             rest == Rest(text, last)
  <1>1. m \in Nat /\ last \in Nat
    BY LenProperties
  <1>2. before \in Seq(S) /\ rest \in Seq(S)
    BY <1>1, RestProperties
  <1>3. lines \in Seq(S) /\ lines \o rest = text
    BY SplitInTwo
  <1>4. Rest(r \o lines, m) = before \o lines
    BY <1>3, RestOfConcat
  <1> HIDE DEF before, lines, rest
  <1>5. (before \o lines) \o rest = before \o (lines \o rest)
    <2>1. \A x, y, z \in Seq(S) : (x \o y) \o z = x \o (y \o z)
      BY ConcatAssociates
    <2> QED
      BY ConcatAssociates, SMTT(60)
  <1>6. Rest(r \o lines, m) \o rest = before \o text
    BY <1>3, <1>4, <1>5
  <1> QED
    BY <1>6 DEF before, lines, rest
-----------------------------------------------------------------------------
LEMMA TailInit == Init => TailInv
  <1> SUFFICES ASSUME Init PROVE TailInv
    OBVIOUS
  <1>1. <<>> \in Seq(Piece) /\ Len(<<>>) = 0
    BY EmptySeq
  <1>2. 1 \in Files /\ 0 \in 0..MaxTruncations /\ 0 \in 0..MaxPieces
        /\ 0 \in 0..MaxRestarts /\ 0 \in 0..MaxFaults
    BY BoundsAssumption DEF Files
  <1>3. content \in [Files -> Seq(Piece)] /\ gen \in [Files -> 0..MaxTruncations]
    BY <1>1, <1>2 DEF Init
  <1>4. TypeOK
    <2>1. mark \in 0..Len(reported)
      BY <1>1 DEF Init
    <2> QED
      BY <1>1, <1>2, <1>3, <2>1 DEF Init, TypeOK, None
  <1>5. Holding /\ Covered
    BY DEF Init, Holding, Covered
  <1> QED
    BY <1>4, <1>5 DEF TailInv

(* nginx and logrotate. *)
LEMMA WriteStep ==
  ASSUME TailInv, NEW ends \in BOOLEAN, Write(ends)
  PROVE  TailInv'
  <1> USE BoundsAssumption DEF log, tail, history
  <1> DEFINE piece == [at |-> written + 1, ends |-> ends]
  <1>1. TypeOK /\ Holding /\ Covered
    BY DEF TailInv
  <1>2. piece \in Piece /\ written' \in 0..MaxPieces
    BY <1>1 DEF Write, TypeOK, Piece
  <1>3. /\ content' \in [Files -> Seq(Piece)]
        /\ \A f \in Files : content'[f] = content[f] \/ content'[f] = Append(content[f], piece)
    BY <1>1, <1>2, AppendProperties DEF Write, TypeOK
  <1>4. midLine' \in BOOLEAN
    BY DEF Write
  <1>5. TypeOK'
    BY <1>1, <1>2, <1>3, <1>4 DEF Write, TypeOK
  <1>6. Holding'
    BY <1>1 DEF Write, Holding
  <1>7. Covered'
    <2> SUFFICES ASSUME file # None, readGen = gen[file]
                 PROVE  /\ offset <= Len(content'[file])
                        /\ SubSeq(content'[file], from + 1, offset) =
                             SubSeq(content[file], from + 1, offset)
      BY <1>1 DEF Write, Covered, Size
    <2>1. /\ file \in Files /\ content[file] \in Seq(Piece)
          /\ from \in Nat /\ offset \in Nat /\ offset <= Len(content[file])
      BY <1>1 DEF TypeOK, Covered, Size
    <2>2. CASE content'[file] = content[file]
      BY <2>1, <2>2
    <2>3. CASE content'[file] = Append(content[file], piece)
      <3>1. Len(content'[file]) = Len(content[file]) + 1
        BY <1>2, <2>1, <2>3, AppendProperties
      <3>2. SubSeq(content'[file], from + 1, offset) =
              SubSeq(content[file], from + 1, offset)
        BY <1>2, <2>1, <2>3, AppendKeepsPart
      <3> QED
        BY <2>1, <3>1, <3>2, LenProperties
    <2> QED
      BY <1>3, <2>1, <2>2, <2>3
  <1> QED
    BY <1>5, <1>6, <1>7 DEF TailInv

LEMMA TruncateStep == TailInv /\ Truncate => TailInv'
  <1> SUFFICES ASSUME TailInv, Truncate PROVE TailInv'
    OBVIOUS
  <1> USE BoundsAssumption DEF log, tail, history
  <1>1. TypeOK /\ Holding /\ Covered
    BY DEF TailInv
  <1>2. /\ content' \in [Files -> Seq(Piece)]
        /\ \A f \in Files \ {path} : content'[f] = content[f]
    BY <1>1, EmptySeq DEF Truncate, TypeOK
  <1>3. /\ gen' \in [Files -> 0..MaxTruncations]
        /\ \A f \in Files \ {path} : gen'[f] = gen[f]
        /\ gen'[path] = gen[path] + 1
    BY <1>1 DEF Truncate, TypeOK
  <1>4. TypeOK'
    BY <1>1, <1>2, <1>3 DEF Truncate, TypeOK
  <1>5. Holding'
    BY <1>1 DEF Truncate, Holding
  <1>6. Covered'
    <2>1. CASE file = path
      <3>1. gen[path] \in Nat /\ readGen \in Nat /\ readGen <= gen[path]
        BY <1>1, <2>1 DEF Truncate, TypeOK, Covered
      <3> QED
        BY <1>3, <2>1, <3>1 DEF Truncate, Covered
    <2>2. CASE file # path
      BY <1>1, <1>2, <1>3, <2>2 DEF Truncate, TypeOK, Covered, Size
    <2> QED
      BY <2>1, <2>2
  <1> QED
    BY <1>4, <1>5, <1>6 DEF TailInv

(* Names and descriptors that change touch no piece of the stretch. *)
LEMMA NamesStep ==
  TailInv /\ (Rename \/ Create \/ Reopen \/ Restart \/ UNCHANGED vars) => TailInv'
  <1> SUFFICES ASSUME TailInv, Rename \/ Create \/ Reopen \/ Restart \/ UNCHANGED vars
               PROVE TailInv'
    OBVIOUS
  <1> USE BoundsAssumption DEF log, tail, history
  <1>1. CASE Rename \/ Create \/ Reopen \/ UNCHANGED vars
    BY <1>1 DEF Rename, Create, Reopen, vars, Fresh, TailInv, TypeOK, Holding,
                Covered, Size
  <1>2. CASE Restart
    BY <1>2, EmptySeq DEF Restart, TailInv, TypeOK, Holding, Covered, None
  <1> QED
    BY <1>1, <1>2

(* The reader's steps.  Where it discards something a new stretch begins. *)
LEMMA FaultType == TypeOK /\ (Fault \/ UNCHANGED faults) => faults' \in 0..MaxFaults
  BY BoundsAssumption DEF TypeOK, Fault

LEMMA CheckStep == TailInv /\ (Check \/ OpenFails \/ MeasureFails) => TailInv'
  <1> SUFFICES ASSUME TailInv, Check \/ OpenFails \/ MeasureFails PROVE TailInv'
    OBVIOUS
  <1> USE DEF log, tail, history
  <1>1. TypeOK /\ Holding /\ Covered
    BY DEF TailInv
  <1>2. faults' \in 0..MaxFaults
    BY <1>1, FaultType DEF Check, OpenFails, MeasureFails
  <1>3. /\ file' = file \/ file' = None
        /\ pc' \in {"idle", "open", "measure"}
        /\ pc' = "measure" => file' # None
        /\ UNCHANGED <<log, restarts, inode, offset, partial, history>>
    BY <1>1 DEF Check, OpenFails, MeasureFails
  <1>4. TypeOK'
    BY <1>1, <1>2, <1>3 DEF TypeOK
  <1>5. Holding' /\ Covered'
    BY <1>1, <1>3 DEF Holding, Covered, Size
  <1> QED
    BY <1>4, <1>5 DEF TailInv

(* A new stretch at an offset inside the file meets the invariant. *)
LEMMA StretchCovered ==
  ASSUME TypeOK, file' \in Files, Stretch(file', offset'),
         offset' \in Nat, offset' <= Size(file'),
         content' = content, gen' = gen, reported' = reported, partial' = <<>>
  PROVE  /\ from' \in Nat /\ mark' \in 0..Len(reported') /\ readGen' \in 0..MaxTruncations
         /\ partial' \in Seq(Piece)
         /\ Covered'
  <1>1. reported \in Seq(Piece) /\ Len(reported) \in Nat
        /\ gen[file'] \in 0..MaxTruncations
    BY LenProperties DEF TypeOK
  <1>2. SubSeq(content[file'], offset' + 1, offset') = Rest(reported, Len(reported)) \o <<>>
    BY <1>1, EmptyStretch
  <1>3. from' = offset' /\ mark' = Len(reported) /\ readGen' = gen[file']
    BY DEF Stretch
  <1>4. Covered'
    <2>2. SubSeq(content'[file'], from' + 1, offset') = Rest(reported', mark') \o partial'
      BY <1>2, <1>3
    <2>3. gen'[file'] \in Nat /\ gen'[file'] = readGen' /\ offset' <= Len(content'[file'])
      BY <1>1, <1>3, BoundsAssumption DEF Size
    <2>4. (readGen <= gen[file])'
      BY <2>3
    <2>5. (from <= offset /\ offset <= Size(file))'
      BY <1>3, <2>3 DEF Size
    <2>6. (SubSeq(content[file], from + 1, offset) = Rest(reported, mark) \o partial)'
      BY <2>2
    <2> QED
      BY <2>4, <2>5, <2>6 DEF Covered
  <1>5. mark' \in 0..Len(reported')
    BY <1>1, <1>3
  <1> QED
    BY <1>1, <1>3, <1>4, <1>5, EmptySeq

LEMMA OpenStep == TailInv /\ Open => TailInv'
  <1> SUFFICES ASSUME TailInv, Open PROVE TailInv'
    OBVIOUS
  <1> USE DEF log, tail, history
  <1>1. TypeOK
    BY DEF TailInv
  <1>2. path \in Files /\ Size(path) \in Nat
    BY <1>1, LenProperties DEF Open, TypeOK, Size
  <1>3. offset' \in Nat /\ offset' <= Size(path) /\ file' = path
    BY <1>2 DEF Open
  <1>4. /\ from' \in Nat /\ mark' \in 0..Len(reported') /\ readGen' \in 0..MaxTruncations
        /\ partial' \in Seq(Piece)
        /\ Covered'
    BY <1>1, <1>2, <1>3, StretchCovered DEF Open
  <1>5. TypeOK'
    <2>1. file' \in Files /\ inode' \in Files /\ pc' = "measure"
      BY <1>2 DEF Open
    <2>2. UNCHANGED <<log, restarts, faults, reported>>
      BY DEF Open
    <2> QED
      BY <1>1, <1>3, <1>4, <2>1, <2>2 DEF TypeOK
  <1>6. Holding'
    BY DEF Open, Holding
  <1> QED
    BY <1>4, <1>5, <1>6 DEF TailInv

LEMMA MeasureStep == TailInv /\ Measure => TailInv'
  <1> SUFFICES ASSUME TailInv, Measure PROVE TailInv'
    OBVIOUS
  <1> USE DEF log, tail, history
  <1> DEFINE start == IF Size(file) < offset THEN 0 ELSE offset
             far == Size(file) - start > MaxBytesPerTick
  <1>1. TypeOK /\ Holding /\ Covered
    BY DEF TailInv
  <1>2. file \in Files /\ Size(file) \in Nat /\ start \in Nat /\ start <= Size(file)
    BY <1>1, LenProperties DEF Measure, TypeOK, Holding, Size
  <1>3. /\ offset' = IF far THEN Size(file) - MaxBytesPerTick ELSE start
        /\ IF Size(file) < offset \/ far
           THEN partial' = <<>> /\ Stretch(file, offset')
           ELSE UNCHANGED <<partial, from, mark, readGen>>
        /\ pc' \in {"idle", "read"}
        /\ UNCHANGED <<log, restarts, faults, file, inode, reported>>
    BY DEF Measure
  <1>4. offset' \in Nat /\ offset' <= Size(file)
    BY <1>2, <1>3, BoundsAssumption
  <1>5. /\ from' \in Nat /\ mark' \in 0..Len(reported') /\ readGen' \in 0..MaxTruncations
        /\ partial' \in Seq(Piece)
        /\ Covered'
    <2>1. CASE Size(file) < offset \/ far
      BY <1>1, <1>2, <1>3, <1>4, <2>1, StretchCovered
    <2>2. CASE ~(Size(file) < offset \/ far)
      <3>1. offset' = offset /\ UNCHANGED <<partial, from, mark, readGen>>
        BY <1>3, <2>2
      <3> QED
        BY <1>1, <1>3, <3>1 DEF TypeOK, Covered, Size
    <2> QED
      BY <2>1, <2>2
  <1>6. TypeOK'
    BY <1>1, <1>3, <1>4, <1>5 DEF TypeOK
  <1>7. Holding'
    BY <1>1, <1>3 DEF Holding, Measure
  <1> QED
    BY <1>5, <1>6, <1>7 DEF TailInv

LEMMA ReadStep == TailInv /\ Read => TailInv'
  <1> SUFFICES ASSUME TailInv, Read PROVE TailInv'
    OBVIOUS
  <1> USE DEF log, tail, history
  <1> DEFINE C == content[file]
             chunk == Rest(C, offset)
             text == partial \o chunk
  <1>1. TypeOK /\ Holding /\ Covered
    BY DEF TailInv
  <1>2. /\ file \in Files /\ C \in Seq(Piece)
        /\ partial \in Seq(Piece) /\ reported \in Seq(Piece)
        /\ offset \in Nat /\ from \in Nat /\ mark \in 0..Len(reported)
    BY <1>1 DEF Read, TypeOK, Holding
  <1>3. PICK last \in 0..Len(text) :
          /\ reported' = reported \o SubSeq(text, 1, last)
          /\ \/ partial' = <<>> /\ from' = offset' /\ mark' = Len(reported')
             \/ partial' = Rest(text, last) /\ from' = from /\ mark' = mark
    BY DEF Read
  <1>4. /\ offset' = offset + Len(chunk)
        /\ pc' = "idle"
        /\ UNCHANGED <<log, restarts, faults, file, inode, readGen>>
    BY DEF Read
  <1> DEFINE lines == SubSeq(text, 1, last)
  <1>5. Len(C) \in Nat /\ Len(reported) \in Nat
    BY <1>2, LenProperties
  <1> HIDE DEF C
  <1>6. /\ chunk \in Seq(Piece)
        /\ offset <= Len(C) => Len(chunk) = Len(C) - offset
    <2>1. /\ chunk \in Seq(Piece)
          /\ Len(chunk) = IF offset <= Len(C) THEN Len(C) - offset ELSE 0
      BY <1>2, RestProperties
    <2> QED
      BY <2>1
  <1> HIDE DEF chunk
  <1>7. text \in Seq(Piece) /\ Len(chunk) \in Nat
    BY <1>2, <1>6, ConcatProperties, LenProperties
  <1>8. text = partial \o chunk
    OBVIOUS
  <1> HIDE DEF text
  <1>9. Len(text) \in Nat /\ last \in Nat
    <2>1. Len(text) \in Nat
      BY <1>7, LenProperties
    <2> QED
      BY <2>1
  <1>10. lines \in Seq(Piece) /\ Rest(text, last) \in Seq(Piece)
    <2>1. lines \in Seq(Piece)
      BY <1>7, SplitInTwo
    <2>2. Rest(text, last) \in Seq(Piece)
      BY <1>7, <1>9, RestProperties
    <2> QED
      BY <2>1, <2>2
  <1>11. reported' = reported \o lines
    BY <1>3
  <1> HIDE DEF lines
  <1>12. reported' \in Seq(Piece) /\ Len(reported') \in Nat /\ Len(reported) <= Len(reported')
    <2>1. /\ reported' \in Seq(Piece)
          /\ Len(reported') = Len(reported) + Len(lines)
      BY <1>2, <1>10, <1>11, ConcatProperties
    <2>2. Len(lines) \in Nat
      BY <1>10, LenProperties
    <2> QED
      BY <1>5, <2>1, <2>2
  <1>13. TypeOK'
    <2>1. offset' \in Nat /\ from' \in Nat /\ mark' \in 0..Len(reported')
      BY <1>2, <1>3, <1>4, <1>5, <1>7, <1>12
    <2>2. partial' \in Seq(Piece)
      BY <1>3, <1>10, EmptySeq
    <2> QED
      BY <1>1, <1>4, <1>12, <2>1, <2>2 DEF TypeOK
  <1>14. Holding'
    BY <1>1, <1>4 DEF Holding
  <1>15. Covered'
    <2> SUFFICES ASSUME readGen = gen[file]
                 PROVE  /\ from' <= offset' /\ offset' <= Len(C)
                        /\ SubSeq(C, from' + 1, offset') =
                             Rest(reported', mark') \o partial'
      BY <1>1, <1>4 DEF Covered, Size, C
    <2>1. /\ from <= offset /\ offset <= Len(C)
          /\ SubSeq(C, from + 1, offset) = Rest(reported, mark) \o partial
      BY <1>1, <1>2 DEF Covered, Size, Files, None, C
    <2>2. offset' = Len(C)
      BY <1>2, <1>4, <1>5, <1>6, <2>1
    <2>3. CASE partial' = <<>> /\ from' = offset' /\ mark' = Len(reported')
      <3>1. SubSeq(C, Len(C) + 1, Len(C)) = Rest(reported', Len(reported')) \o <<>>
        BY <1>5, <1>12, EmptyStretch
      <3> QED
        BY <1>5, <2>2, <2>3, <3>1
    <2>4. CASE partial' = Rest(text, last) /\ from' = from /\ mark' = mark
      <3> DEFINE before == Rest(reported, mark)
      <3>1. before \in Seq(Piece)
        <4>1. mark \in Nat
          BY <1>2, <1>5
        <4> QED
          BY <1>2, <4>1, RestProperties
      <3>2. SubSeq(C, from + 1, Len(C)) = SubSeq(C, from + 1, offset) \o chunk
        BY <1>2, <2>1, PartExtends DEF chunk
      <3>3. Rest(reported', mark) \o Rest(text, last) = before \o text
        BY <1>2, <1>7, <1>11, LinesAndRest DEF lines
      <3>4. SubSeq(C, from + 1, offset) = before \o partial
        BY <2>1
      <3> HIDE DEF before
      <3>5. (before \o partial) \o chunk = before \o (partial \o chunk)
        BY <1>2, <1>6, <3>1, ConcatAssociates, SMTT(60)
      <3>6. SubSeq(C, from + 1, Len(C)) = Rest(reported', mark) \o Rest(text, last)
        BY <1>8, <3>2, <3>3, <3>4, <3>5
      <3>7. from' <= offset' /\ offset' <= Len(C)
        <4>1. from <= Len(C)
          <5>1. from <= offset /\ offset <= Len(C)
            BY <2>1
          <5> QED
            BY <1>2, <1>5, <5>1
        <4>2. from' = from
          BY <2>4
        <4> QED
          BY <1>5, <2>2, <4>1, <4>2
      <3>8. SubSeq(C, from' + 1, offset') = Rest(reported', mark') \o partial'
        BY <2>2, <2>4, <3>6, Zenon
      <3> QED
        BY <3>7, <3>8
    <2> QED
      BY <1>3, <2>3, <2>4
  <1> QED
    BY <1>13, <1>14, <1>15 DEF TailInv
-----------------------------------------------------------------------------
(* The inductive invariant of the follower: its types, a file in hand when *)
(* it reads, and a stretch that lies inside that file and accounts for all *)
(* of it (accesslog.go:368-454).                                           *)
THEOREM TailAlways == Spec => []TailInv
  <1>1. TailInv /\ [Next]_vars => TailInv'
    BY WriteStep, TruncateStep, NamesStep, CheckStep, OpenStep, MeasureStep, ReadStep
    DEF Next, Reader
  <1> QED
    BY <1>1, TailInit, PTL DEF Spec

(* The reader's and the file system's variables keep their types           *)
(* (accesslog.go:348-355).                                                 *)
THEOREM TypesHold == Spec => []TypeOK
  BY TailAlways, PTL DEF TailInv

(* What was handed over and the unfinished line kept are exactly what the  *)
(* file holds since the stretch began (accesslog.go:397-417).              *)
THEOREM ByteExactHolds == Spec => []ByteExact
  <1>1. TailInv => ByteExact
    BY DEF TailInv, Covered, ByteExact
  <1> QED
    BY <1>1, TailAlways, PTL
-----------------------------------------------------------------------------
(* Order. *)
(* The pieces of s were written in this order.                             *)
Sorted(s) == \A i, j \in 1..Len(s) : i < j => s[i].at < s[j].at

(* Every piece of s was written before every piece of t.                   *)
Before(s, t) == \A i \in 1..Len(s), j \in 1..Len(t) : s[i].at < t[j].at

(* Every piece of s is among the first n that were written.                *)
Upto(s, n) == \A i \in 1..Len(s) : s[i].at <= n

(* Nothing is in order with everything.                                    *)
LEMMA OrderOfNothing ==
  ASSUME NEW s, NEW n
  PROVE  Sorted(<<>>) /\ Before(<<>>, s) /\ Before(s, <<>>) /\ Upto(<<>>, n)
  <1>1. 1..Len(<<>>) = {}
    BY EmptySeq
  <1> QED
    BY <1>1 DEF Sorted, Before, Upto

(* The elements of what is put together, from either side.                 *)
LEMMA ConcatElements ==
  ASSUME NEW s \in Seq(Piece), NEW t \in Seq(Piece)
  PROVE  /\ Len(s) \in Nat /\ Len(t) \in Nat /\ Len(s \o t) = Len(s) + Len(t)
         /\ \A i \in 1..Len(s) : i \in 1..Len(s \o t) /\ (s \o t)[i] = s[i]
         /\ \A i \in 1..Len(t) : Len(s) + i \in 1..Len(s \o t) /\ (s \o t)[Len(s) + i] = t[i]
         /\ \A i \in 1..Len(s \o t) :
               \/ i \in 1..Len(s) /\ (s \o t)[i] = s[i]
               \/ i - Len(s) \in 1..Len(t) /\ (s \o t)[i] = t[i - Len(s)]
  <1>1. /\ Len(s) \in Nat /\ Len(t) \in Nat
        /\ Len(s \o t) = Len(s) + Len(t)
        /\ \A i \in 1..Len(s) + Len(t) :
              (s \o t)[i] = IF i <= Len(s) THEN s[i] ELSE t[i - Len(s)]
    BY LenProperties, ConcatProperties
  <1>2. ASSUME NEW i \in 1..Len(t)
        PROVE  Len(s) + i \in 1..Len(s \o t) /\ (s \o t)[Len(s) + i] = t[i]
    <2>1. Len(s) + i \in 1..Len(s) + Len(t) /\ ~(Len(s) + i <= Len(s))
          /\ Len(s) + i - Len(s) = i
      BY <1>1
    <2> QED
      BY <1>1, <2>1
  <1>3. \A i \in 1..Len(s) : i \in 1..Len(s \o t) /\ (s \o t)[i] = s[i]
    BY <1>1
  <1>4. \A i \in 1..Len(s \o t) :
            \/ i \in 1..Len(s) /\ (s \o t)[i] = s[i]
            \/ i - Len(s) \in 1..Len(t) /\ (s \o t)[i] = t[i - Len(s)]
    BY <1>1
  <1> QED
    BY <1>1, <1>2, <1>3, <1>4

(* The order of what is put together is the order of the parts and between *)
(* them.                                                                   *)
LEMMA OrderOfConcat ==
  ASSUME NEW s \in Seq(Piece), NEW t \in Seq(Piece), NEW u, NEW n
  PROVE  /\ Sorted(s \o t) <=> Sorted(s) /\ Sorted(t) /\ Before(s, t)
         /\ Before(s \o t, u) <=> Before(s, u) /\ Before(t, u)
         /\ Before(u, s \o t) <=> Before(u, s) /\ Before(u, t)
         /\ Upto(s \o t, n) <=> Upto(s, n) /\ Upto(t, n)
  <1> DEFINE v == s \o t
  <1>1. /\ Len(s) \in Nat /\ Len(t) \in Nat /\ Len(v) = Len(s) + Len(t)
        /\ \A i \in 1..Len(s) : i \in 1..Len(v) /\ v[i] = s[i]
        /\ \A i \in 1..Len(t) : Len(s) + i \in 1..Len(v) /\ v[Len(s) + i] = t[i]
        /\ \A i \in 1..Len(v) : \/ i \in 1..Len(s) /\ v[i] = s[i]
                                \/ i - Len(s) \in 1..Len(t) /\ v[i] = t[i - Len(s)]
    BY ConcatElements
  <1> HIDE DEF v
  <1>2. ASSUME Sorted(v)
        PROVE  Sorted(s) /\ Sorted(t) /\ Before(s, t)
    <2>1. Sorted(s)
      BY <1>1, <1>2 DEF Sorted
    <2>2. ASSUME NEW i \in 1..Len(t), NEW j \in 1..Len(t), i < j
          PROVE  t[i].at < t[j].at
      <3>1. Len(s) + i < Len(s) + j
        BY <1>1, <2>2
      <3> QED
        BY <1>1, <1>2, <3>1 DEF Sorted
    <2>3. ASSUME NEW i \in 1..Len(s), NEW j \in 1..Len(t)
          PROVE  s[i].at < t[j].at
      <3>1. i < Len(s) + j
        BY <1>1
      <3> QED
        BY <1>1, <1>2, <3>1 DEF Sorted
    <2> QED
      BY <2>1, <2>2, <2>3 DEF Sorted, Before
  <1>3. Sorted(s) /\ Sorted(t) /\ Before(s, t) => Sorted(v)
    <2> SUFFICES ASSUME Sorted(s), Sorted(t), Before(s, t),
                        NEW i \in 1..Len(v), NEW j \in 1..Len(v), i < j
                 PROVE  v[i].at < v[j].at
      BY DEF Sorted
    <2>1. CASE j \in 1..Len(s) /\ v[j] = s[j]
      <3>1. i \in 1..Len(s)
        BY <1>1, <2>1
      <3> QED
        BY <1>1, <2>1, <3>1 DEF Sorted
    <2>2. CASE j - Len(s) \in 1..Len(t) /\ v[j] = t[j - Len(s)]
      <3>1. CASE i \in 1..Len(s) /\ v[i] = s[i]
        BY <2>2, <3>1 DEF Before
      <3>2. CASE i - Len(s) \in 1..Len(t) /\ v[i] = t[i - Len(s)]
        <4>1. i - Len(s) < j - Len(s)
          BY <1>1
        <4> QED
          BY <2>2, <3>2, <4>1 DEF Sorted
      <3> QED
        BY <1>1, <3>1, <3>2
    <2> QED
      BY <1>1, <2>1, <2>2
  <1>4. Before(v, u) <=> Before(s, u) /\ Before(t, u)
    BY <1>1 DEF Before
  <1>5. Before(u, v) <=> Before(u, s) /\ Before(u, t)
    BY <1>1 DEF Before
  <1>6. Upto(v, n) <=> Upto(s, n) /\ Upto(t, n)
    BY <1>1 DEF Upto
  <1> QED
    BY <1>2, <1>3, <1>4, <1>5, <1>6 DEF v
-----------------------------------------------------------------------------
(* What the files hold is in the order in which it was written; nothing is *)
(* in a file that nginx has not had open yet.                              *)
FilesOrdered ==
    /\ \A f \in Files : Sorted(content[f]) /\ Upto(content[f], written)
    /\ \A f, g \in Files : f < g => Before(content[f], content[g])
    /\ \A f \in Files : f > writer => content[f] = <<>>
    /\ path # None => writer <= path

(* What was handed over comes before the unfinished line and both before   *)
(* what is still to be read, in this file or in the one that is opened     *)
(* next.  A file that was truncated behind the reader's back holds nothing *)
(* that was handed over.                                                   *)
Handed(s) ==
    /\ Sorted(s) /\ Upto(s, written)
    /\ file # None =>
          /\ Before(s, Rest(content[file], offset))
          /\ offset > Size(file) => Before(s, content[file])

ReaderOrdered ==
    /\ Handed(reported) /\ Handed(partial) /\ Before(reported, partial)
    /\ path \notin {None, file} =>
          /\ inode # None => Before(reported, content[path])
          /\ file # None => Before(partial, content[path])
                            /\ Before(content[file], content[path])

OrderInv ==
    /\ FilesOrdered
    /\ pc = "open" => file = None
    /\ faults = 0 => ReaderOrdered
-----------------------------------------------------------------------------
(* A sequence cut in two. *)
LEMMA OrderOfParts ==
  ASSUME NEW s \in Seq(Piece), NEW last \in 0..Len(s), NEW u, NEW n
  PROVE  LET head == SubSeq(s, 1, last)
             rest == Rest(s, last)
         IN  /\ head \in Seq(Piece) /\ rest \in Seq(Piece)
             /\ Sorted(s) => Sorted(head) /\ Sorted(rest) /\ Before(head, rest)
             /\ Before(s, u) => Before(head, u) /\ Before(rest, u)
             /\ Before(u, s) => Before(u, head) /\ Before(u, rest)
             /\ Upto(s, n) => Upto(head, n) /\ Upto(rest, n)
  <1> DEFINE head == SubSeq(s, 1, last)
             rest == Rest(s, last)
  <1>1. head \in Seq(Piece) /\ head \o rest = s
    BY SplitInTwo
  <1>2. rest \in Seq(Piece)
    BY RestProperties, LenProperties
  <1> HIDE DEF head, rest
  <1>3. /\ Sorted(head \o rest) <=> Sorted(head) /\ Sorted(rest) /\ Before(head, rest)
        /\ Before(head \o rest, u) <=> Before(head, u) /\ Before(rest, u)
        /\ Before(u, head \o rest) <=> Before(u, head) /\ Before(u, rest)
        /\ Upto(head \o rest, n) <=> Upto(head, n) /\ Upto(rest, n)
    BY <1>1, <1>2, OrderOfConcat
  <1> QED
    BY <1>1, <1>2, <1>3 DEF head, rest

(* What is left from a later position on is ordered as what is left from   *)
(* an earlier one, and as the whole.                                       *)
LEMMA OrderOfLess ==
  ASSUME NEW s \in Seq(Piece), NEW m \in Nat, NEW n \in Nat, NEW u
  PROVE  /\ m <= n /\ Before(u, Rest(s, m)) => Before(u, Rest(s, n))
         /\ Before(u, s) => Before(u, Rest(s, n))
         /\ Before(s, u) => Before(Rest(s, n), u)
         /\ Sorted(s) => Sorted(Rest(s, n))
         /\ Upto(s, u) => Upto(Rest(s, n), u)
  <1>1. Len(s) \in Nat
    BY LenProperties
  <1>2. /\ Len(Rest(s, m)) = IF m <= Len(s) THEN Len(s) - m ELSE 0
        /\ \A i \in 1..(Len(s) - m) : Rest(s, m)[i] = s[m + i]
    BY RestProperties
  <1>3. /\ Len(Rest(s, n)) = IF n <= Len(s) THEN Len(s) - n ELSE 0
        /\ \A i \in 1..(Len(s) - n) : Rest(s, n)[i] = s[n + i]
    BY RestProperties
  <1> DEFINE a == Rest(s, m)
             b == Rest(s, n)
  <1>4. \A i \in 1..Len(b) : n + i \in 1..Len(s) /\ b[i] = s[n + i]
    BY <1>1, <1>3
  <1>5. ASSUME m <= n, NEW i \in 1..Len(b)
        PROVE  (n - m) + i \in 1..Len(a) /\ b[i] = a[(n - m) + i]
    <2>1. m + ((n - m) + i) = n + i /\ i \in 1..(Len(s) - n)
      BY <1>1, <1>3, <1>5
    <2>2. (n - m) + i \in 1..(Len(s) - m)
      BY <1>1, <1>5, <2>1
    <2> QED
      BY <1>1, <1>2, <1>3, <1>5, <2>1, <2>2
  <1> HIDE DEF a, b
  <1>6. m <= n /\ Before(u, a) => Before(u, b)
    BY <1>5 DEF Before
  <1>7. Before(u, s) => Before(u, b)
    BY <1>4 DEF Before
  <1>8. Before(s, u) => Before(b, u)
    BY <1>4 DEF Before
  <1>9. ASSUME Sorted(s)
        PROVE  Sorted(b)
    <2> SUFFICES ASSUME NEW i \in 1..Len(b), NEW j \in 1..Len(b), i < j
                 PROVE  b[i].at < b[j].at
      BY DEF Sorted
    <2>1. n + i < n + j
      OBVIOUS
    <2> QED
      BY <1>4, <1>9, <2>1 DEF Sorted
  <1>10. Upto(s, u) => Upto(b, u)
    BY <1>4 DEF Upto
  <1> QED
    BY <1>6, <1>7, <1>8, <1>9, <1>10 DEF a, b

(* The next piece goes behind all others.                                  *)
LEMMA OrderOfNext ==
  ASSUME NEW s \in Seq(Piece), NEW p \in Piece, NEW n \in Nat, p.at = n + 1, NEW o \in Nat
  PROVE  LET t == Append(s, p) IN
         /\ t \in Seq(Piece) /\ Len(t) = Len(s) + 1
         /\ Sorted(s) /\ Upto(s, n) => Sorted(t) /\ Upto(t, n + 1)
         /\ \A u \in Seq(Piece) : Upto(u, n) =>
               /\ Upto(u, n + 1)
               /\ Before(u, s) => Before(u, t)
               /\ Before(u, Rest(s, o)) => Before(u, Rest(t, o))
  <1> DEFINE t == Append(s, p)
             a == Rest(s, o)
             b == Rest(t, o)
  <1> HIDE DEF t, a, b
  <1>1. Len(s) \in Nat
    BY LenProperties
  <1>2. /\ t \in Seq(Piece) /\ Len(t) = Len(s) + 1
        /\ \A i \in 1..Len(s) : t[i] = s[i]
        /\ t[Len(s) + 1] = p
    BY AppendProperties DEF t
  <1>3. \A v \in Seq(Piece) : \A i \in 1..Len(v) : v[i].at \in Nat
    <2>1. \A v \in Seq(Piece) : \A i \in 1..Len(v) : v[i] \in Piece
      BY ElementOfSeq
    <2>2. \A q \in Piece : q.at \in Nat
      BY BoundsAssumption DEF Piece
    <2> QED
      BY <2>1, <2>2
  <1>4. \A i \in 1..Len(t) :
            \/ i \in 1..Len(s) /\ t[i] = s[i]
            \/ i = Len(s) + 1 /\ t[i] = p
    BY <1>1, <1>2
  <1>5. /\ Len(a) = IF o <= Len(s) THEN Len(s) - o ELSE 0
        /\ \A i \in 1..(Len(s) - o) : a[i] = s[o + i]
    BY RestProperties DEF a
  <1>6. /\ Len(b) = IF o <= Len(t) THEN Len(t) - o ELSE 0
        /\ \A i \in 1..(Len(t) - o) : b[i] = t[o + i]
    <2>1. t \in Seq(Piece)
      BY <1>2
    <2> QED
      BY <2>1, RestProperties DEF b
  <1>7. \A i \in 1..Len(b) : (i \in 1..Len(a) /\ b[i] = a[i]) \/ b[i] = p
    <2> SUFFICES ASSUME NEW i \in 1..Len(b)
                 PROVE  (i \in 1..Len(a) /\ b[i] = a[i]) \/ b[i] = p
      OBVIOUS
    <2>1. i \in 1..(Len(t) - o) /\ o + i \in 1..Len(t) /\ b[i] = t[o + i]
      BY <1>1, <1>2, <1>6
    <2>2. CASE o + i \in 1..Len(s)
      BY <1>1, <1>2, <1>5, <2>1, <2>2
    <2>3. CASE o + i = Len(s) + 1
      BY <1>2, <2>1, <2>3
    <2> QED
      BY <1>4, <2>1, <2>2, <2>3
  <1>8. ASSUME Sorted(s), Upto(s, n)
        PROVE  Sorted(t) /\ Upto(t, n + 1)
    <2>1. ASSUME NEW i \in 1..Len(t), NEW j \in 1..Len(t), i < j
          PROVE  t[i].at < t[j].at
      <3>1. i \in 1..Len(s) /\ t[i] = s[i]
        BY <1>1, <1>2, <1>4, <2>1
      <3>2. s[i].at <= n /\ s[i].at \in Nat
        BY <1>3, <1>8, <3>1 DEF Upto
      <3>3. CASE t[j] = p
        BY <3>1, <3>2, <3>3
      <3>4. CASE j \in 1..Len(s) /\ t[j] = s[j]
        BY <1>8, <2>1, <3>1, <3>4 DEF Sorted
      <3> QED
        BY <1>4, <3>3, <3>4
    <2>2. ASSUME NEW i \in 1..Len(t)
          PROVE  t[i].at <= n + 1
      <3>1. CASE i \in 1..Len(s) /\ t[i] = s[i]
        <4>1. s[i].at <= n /\ s[i].at \in Nat
          BY <1>3, <1>8, <3>1 DEF Upto
        <4> QED
          BY <3>1, <4>1
      <3> QED
        BY <1>4, <3>1
    <2> QED
      BY <2>1, <2>2 DEF Sorted, Upto
  <1>9. ASSUME NEW u \in Seq(Piece), Upto(u, n)
        PROVE  /\ Upto(u, n + 1)
               /\ Before(u, s) => Before(u, t)
               /\ Before(u, a) => Before(u, b)
    <2>1. \A i \in 1..Len(u) : u[i].at <= n + 1 /\ u[i].at < p.at
      BY <1>3, <1>9 DEF Upto
    <2> QED
      BY <1>4, <1>7, <2>1 DEF Upto, Before
  <1> QED
    BY <1>2, <1>8, <1>9 DEF t, a, b
-----------------------------------------------------------------------------
(* At first nothing is written. *)
LEMMA OrderInit == Init => OrderInv
  <1> SUFFICES ASSUME Init PROVE OrderInv
    OBVIOUS
  <1>1. \A s, n : Sorted(<<>>) /\ Before(<<>>, s) /\ Before(s, <<>>) /\ Upto(<<>>, n)
    BY OrderOfNothing
  <1>2. \A f \in Files : content[f] = <<>>
    BY DEF Init
  <1> QED
    BY <1>1, <1>2 DEF Init, OrderInv, FilesOrdered, ReaderOrdered, Handed

(* What every step may assume of the state it starts in.                   *)
LEMMA OrderTypes ==
  ASSUME TypeOK
  PROVE  /\ \A f \in Files : content[f] \in Seq(Piece) /\ Size(f) \in Nat
         /\ partial \in Seq(Piece) /\ reported \in Seq(Piece)
         /\ written \in Nat /\ offset \in Nat /\ faults \in Nat
         /\ file # None => file \in Files
         /\ path # None => path \in Files
         /\ writer \in Files /\ None \notin Files
         /\ Files \subseteq Nat
  <1>1. \A f \in Files : content[f] \in Seq(Piece) /\ Size(f) \in Nat
    BY LenProperties DEF TypeOK, Size
  <1> QED
    BY <1>1, BoundsAssumption DEF TypeOK, Files, None

(* nginx writes. *)
LEMMA OrderWrite ==
  ASSUME TailInv, OrderInv, NEW ends \in BOOLEAN, Write(ends)
  PROVE  OrderInv'
  <1> DEFINE p == [at |-> written + 1, ends |-> ends]
  <1> USE DEF log, tail, history
  <1>1. TypeOK /\ FilesOrdered /\ (faults = 0 => ReaderOrdered)
    BY DEF TailInv, OrderInv
  <1>2. p \in Piece /\ p.at = written + 1 /\ written' = written + 1
    BY <1>1, BoundsAssumption DEF Write, TypeOK, Piece
  <1>3. /\ content'[writer] = Append(content[writer], p)
        /\ \A f \in Files \ {writer} : content'[f] = content[f]
        /\ UNCHANGED <<gen, path, writer, restarts, faults, pc, tail, history>>
    BY <1>1, OrderTypes DEF Write, TypeOK
  <1> HIDE DEF p
  <1>4. \A u \in Seq(Piece) : Upto(u, written) => Upto(u, written + 1)
    BY <1>1, <1>2, OrderTypes, OrderOfNext
  <1>5. /\ content'[writer] \in Seq(Piece)
        /\ Len(content'[writer]) = Len(content[writer]) + 1
        /\ Sorted(content'[writer]) /\ Upto(content'[writer], written + 1)
        /\ \A u \in Seq(Piece) : Upto(u, written) =>
              /\ Before(u, content[writer]) => Before(u, content'[writer])
              /\ Before(u, Rest(content[writer], offset)) =>
                    Before(u, Rest(content'[writer], offset))
    BY <1>1, <1>2, <1>3, OrderTypes, OrderOfNext DEF FilesOrdered
  <1>6. FilesOrdered'
    <2>1. ASSUME NEW f \in Files
          PROVE  Sorted(content'[f]) /\ Upto(content'[f], written')
      <3>1. CASE f = writer
        BY <1>2, <1>5, <3>1
      <3>2. CASE f # writer
        BY <1>1, <1>2, <1>3, <1>4, <3>2, OrderTypes DEF FilesOrdered
      <3> QED
        BY <3>1, <3>2
    <2>2. ASSUME NEW f \in Files, NEW g \in Files, f < g
          PROVE  Before(content'[f], content'[g])
      <3>1. CASE g = writer
        <4>1. f # writer /\ content'[f] = content[f]
          BY <1>1, <1>3, <2>2, <3>1, OrderTypes
        <4>2. Before(content[f], content[writer]) /\ Upto(content[f], written)
          BY <1>1, <2>2, <3>1 DEF FilesOrdered
        <4> QED
          BY <1>1, <1>5, <3>1, <4>1, <4>2, OrderTypes
      <3>2. CASE f = writer
        <4>1. g > writer /\ g # writer
          BY <1>1, <2>2, <3>2, OrderTypes
        <4>2. content'[g] = <<>>
          BY <1>1, <1>3, <4>1 DEF FilesOrdered
        <4> QED
          BY <4>2, OrderOfNothing
      <3>3. CASE f # writer /\ g # writer
        BY <1>1, <1>3, <2>2, <3>3 DEF FilesOrdered
      <3> QED
        BY <3>1, <3>2, <3>3
    <2>3. \A f \in Files : f > writer => f # writer /\ content'[f] = <<>>
      BY <1>1, <1>3, OrderTypes DEF FilesOrdered
    <2> QED
      BY <1>1, <1>3, <2>1, <2>2, <2>3 DEF FilesOrdered
  <1>7. faults' = 0 => ReaderOrdered'
    <2> SUFFICES ASSUME ReaderOrdered PROVE ReaderOrdered'
      BY <1>1, <1>3
    <2>1. ASSUME NEW u \in Seq(Piece), Handed(u)
          PROVE  Handed(u)'
      <3>1. Sorted(u) /\ Upto(u, written + 1)
        BY <1>4, <2>1 DEF Handed
      <3>2. CASE file = None
        BY <1>2, <1>3, <2>1, <3>1, <3>2 DEF Handed
      <3>3. CASE file = writer
        <4>1. /\ Before(u, Rest(content'[writer], offset))
              /\ offset > Len(content'[writer]) => Before(u, content'[writer])
          BY <1>1, <1>5, <2>1, <3>3, OrderTypes DEF Handed, Size
        <4> QED
          BY <1>2, <1>3, <2>1, <3>1, <3>3, <4>1 DEF Handed, Size
      <3>4. CASE file \notin {None, writer}
        <4>1. content'[file] = content[file]
          BY <1>1, <1>3, <3>4, OrderTypes
        <4> QED
          BY <1>2, <1>3, <2>1, <3>1, <3>4, <4>1 DEF Handed, Size
      <3> QED
        BY <3>2, <3>3, <3>4
    <2>2. Handed(reported)' /\ Handed(partial)'
      BY <1>1, <1>3, <2>1, OrderTypes DEF ReaderOrdered
    <2>3. Before(reported, partial)'
      BY <1>3 DEF ReaderOrdered
    <2>4. ASSUME path \notin {None, file}
          PROVE  /\ inode # None => Before(reported, content'[path])
                 /\ file # None => Before(partial, content'[path])
                                   /\ Before(content'[file], content'[path])
      <3>1. path \in Files /\ writer <= path
        BY <1>1, <2>4, OrderTypes DEF FilesOrdered
      <3>2. CASE path = writer
        <4>1. \A u \in Seq(Piece) :
                 Upto(u, written) /\ Before(u, content[path]) => Before(u, content'[path])
          BY <1>5, <3>2
        <4>2. file # None => /\ content[file] \in Seq(Piece) /\ content'[file] = content[file]
                             /\ Upto(content[file], written)
          BY <1>1, <1>3, <2>4, <3>2, OrderTypes DEF FilesOrdered
        <4> QED
          BY <1>1, <2>4, <4>1, <4>2, OrderTypes DEF ReaderOrdered, Handed
      <3>3. CASE path # writer
        <4>1. content'[path] = <<>>
          BY <1>1, <1>3, <3>1, <3>3, OrderTypes DEF FilesOrdered
        <4> QED
          BY <4>1, OrderOfNothing
      <3> QED
        BY <3>2, <3>3
    <2> QED
      BY <1>3, <2>2, <2>3, <2>4 DEF ReaderOrdered
  <1>8. (pc = "open" => file = None)'
    BY <1>3 DEF OrderInv
  <1> QED
    BY <1>6, <1>7, <1>8 DEF OrderInv

(* logrotate empties the file. *)
LEMMA OrderTruncate ==
  ASSUME TailInv, OrderInv, Truncate
  PROVE  OrderInv'
  <1> USE DEF log, tail, history
  <1>1. TypeOK /\ FilesOrdered /\ (faults = 0 => ReaderOrdered)
    BY DEF TailInv, OrderInv
  <1>2. /\ path \in Files /\ content'[path] = <<>>
        /\ \A f \in Files \ {path} : content'[f] = content[f]
        /\ UNCHANGED <<path, writer, written, restarts, faults, pc, tail, history>>
    BY <1>1 DEF Truncate, TypeOK
  <1>3. \A s, n : Sorted(<<>>) /\ Before(<<>>, s) /\ Before(s, <<>>) /\ Upto(<<>>, n)
    BY OrderOfNothing
  <1>4. FilesOrdered'
    <2>1. \A f \in Files : Sorted(content'[f]) /\ Upto(content'[f], written)
      BY <1>1, <1>2, <1>3 DEF FilesOrdered
    <2>2. \A f, g \in Files : f < g => Before(content'[f], content'[g])
      BY <1>1, <1>2, <1>3 DEF FilesOrdered
    <2>3. \A f \in Files : f > writer => content'[f] = <<>>
      BY <1>1, <1>2 DEF FilesOrdered
    <2> QED
      BY <1>1, <1>2, <2>1, <2>2, <2>3 DEF FilesOrdered
  <1>5. faults' = 0 => ReaderOrdered'
    <2> SUFFICES ASSUME ReaderOrdered PROVE ReaderOrdered'
      BY <1>1, <1>2
    <2>1. \A n \in Nat : Rest(<<>>, n) = <<>>
      <3>1. <<>> \in Seq(Piece) /\ Len(<<>>) = 0
        BY EmptySeq
      <3>2. \A n \in Nat : n >= Len(<<>>)
        BY <3>1
      <3> QED
        BY <3>1, <3>2, RestProperties
    <2>2. ASSUME NEW u, Handed(u)
          PROVE  /\ Sorted(u) /\ Upto(u, written)
                 /\ file # None => /\ Before(u, Rest(content'[file], offset))
                                   /\ offset > Len(content'[file]) => Before(u, content'[file])
      <3>1. CASE file = path
        BY <1>1, <1>2, <1>3, <2>1, <2>2, <3>1, OrderTypes DEF Handed
      <3>2. CASE file # path
        BY <1>1, <1>2, <2>2, <3>2, OrderTypes DEF Handed, Size
      <3> QED
        BY <3>1, <3>2
    <2>3. Handed(reported)' /\ Handed(partial)' /\ Before(reported, partial)'
      BY <1>2, <2>2 DEF ReaderOrdered, Handed, Size
    <2>4. Before(reported, content'[path]) /\ Before(partial, content'[path])
          /\ Before(content'[file], content'[path])
      BY <1>2, <1>3
    <2> QED
      BY <1>2, <2>3, <2>4 DEF ReaderOrdered
  <1>6. (pc = "open" => file = None)'
    BY <1>2 DEF OrderInv
  <1> QED
    BY <1>4, <1>5, <1>6 DEF OrderInv

(* Names and descriptors change, and a new log is empty. *)
LEMMA OrderNames ==
  ASSUME TailInv, OrderInv, Rename \/ Create \/ Reopen \/ Restart \/ UNCHANGED vars
  PROVE  OrderInv'
  <1> USE DEF log, tail, history
  <1>1. TypeOK /\ FilesOrdered /\ (faults = 0 => ReaderOrdered)
    BY DEF TailInv, OrderInv
  <1>2. \A s, n : Sorted(<<>>) /\ Before(<<>>, s) /\ Before(s, <<>>) /\ Upto(<<>>, n)
    BY OrderOfNothing
  <1>3. CASE UNCHANGED vars
    BY <1>3 DEF vars, OrderInv, FilesOrdered, ReaderOrdered, Handed, Size
  <1>4. CASE Rename
    BY <1>4 DEF Rename, OrderInv, FilesOrdered, ReaderOrdered, Handed, Size
  <1>5. CASE Create
    <2>1. /\ path' \in Files /\ writer < path' /\ content[path'] = <<>>
          /\ UNCHANGED <<content, gen, writer, written, restarts, faults, pc, tail, history>>
      BY <1>1, <1>5, OrderTypes DEF Create, Fresh, FilesOrdered
    <2>2. FilesOrdered'
      BY <1>1, <2>1, OrderTypes DEF FilesOrdered
    <2>3. ReaderOrdered => ReaderOrdered'
      BY <1>2, <2>1 DEF ReaderOrdered, Handed, Size
    <2> QED
      BY <1>1, <2>1, <2>2, <2>3 DEF OrderInv
  <1>6. CASE Reopen
    <2>1. /\ writer' = path /\ path # None /\ path # writer
          /\ UNCHANGED <<content, gen, path, written, restarts, faults, pc, tail, history>>
      BY <1>6 DEF Reopen
    <2>2. writer < path /\ path \in Files
      BY <1>1, <2>1, OrderTypes DEF FilesOrdered
    <2>3. FilesOrdered'
      BY <1>1, <2>1, <2>2, OrderTypes DEF FilesOrdered
    <2>4. ReaderOrdered => ReaderOrdered'
      BY <2>1 DEF ReaderOrdered, Handed, Size
    <2> QED
      BY <1>1, <2>1, <2>3, <2>4 DEF OrderInv
  <1>7. CASE Restart
    <2>1. /\ file' = None /\ inode' = None /\ partial' = <<>> /\ pc' = "idle"
          /\ UNCHANGED <<log, faults, history>>
      BY <1>7 DEF Restart
    <2>2. FilesOrdered'
      BY <1>1, <2>1 DEF FilesOrdered
    <2>3. ReaderOrdered => ReaderOrdered'
      BY <1>2, <2>1 DEF ReaderOrdered, Handed
    <2> QED
      BY <1>1, <2>1, <2>2, <2>3 DEF OrderInv
  <1> QED
    BY <1>3, <1>4, <1>5, <1>6, <1>7

(* The reader lets go of a file: because the path leads elsewhere, or      *)
(* because something failed, after which no order is claimed.              *)
LEMMA OrderCheck ==
  ASSUME TailInv, OrderInv, Check \/ OpenFails \/ MeasureFails
  PROVE  OrderInv'
  <1> USE DEF log, tail, history
  <1>1. TypeOK /\ FilesOrdered /\ (faults = 0 => ReaderOrdered)
    BY DEF TailInv, OrderInv
  <1>2. faults \in Nat
    BY <1>1, OrderTypes
  <1>3. /\ UNCHANGED <<log, restarts, inode, offset, partial, history>>
        /\ \/ file' = file /\ (pc' = "open" => file' = None)
           \/ file' = None /\ (path # file \/ faults' = faults + 1)
        /\ faults' = faults \/ faults' = faults + 1
    BY DEF Check, OpenFails, MeasureFails, Fault, OrderInv
  <1>4. FilesOrdered'
    BY <1>1, <1>3 DEF FilesOrdered
  <1>5. faults' = 0 => ReaderOrdered'
    <2> SUFFICES ASSUME ReaderOrdered, file' = file \/ (file' = None /\ path # file)
                 PROVE  ReaderOrdered'
      BY <1>1, <1>2, <1>3
    <2>1. CASE file' = file
      BY <1>3, <2>1 DEF ReaderOrdered, Handed, Size
    <2>2. CASE file' = None /\ path # file
      BY <1>3, <2>2 DEF ReaderOrdered, Handed
    <2> QED
      BY <2>1, <2>2
  <1> QED
    BY <1>3, <1>4, <1>5 DEF OrderInv

(* The first open starts behind everything there is; another one is of a   *)
(* file from which nothing was handed over.                                *)
LEMMA OrderOpen ==
  ASSUME TailInv, OrderInv, Open
  PROVE  OrderInv'
  <1> USE DEF log, tail, history
  <1>1. TypeOK /\ FilesOrdered /\ (faults = 0 => ReaderOrdered) /\ file = None
    BY DEF TailInv, OrderInv, Open
  <1>2. /\ path \in Files /\ path # None /\ file' = path /\ inode' = path
        /\ partial' = <<>> /\ pc' = "measure"
        /\ offset' = IF inode = None THEN Size(path) ELSE 0
        /\ UNCHANGED <<log, restarts, faults, reported>>
    BY <1>1, OrderTypes DEF Open
  <1>3. content[path] \in Seq(Piece) /\ Size(path) \in Nat /\ 0 \in Nat /\ written \in Nat
    BY <1>1, <1>2, OrderTypes
  <1>4. \A s, n : Sorted(<<>>) /\ Before(<<>>, s) /\ Before(s, <<>>) /\ Upto(<<>>, n)
    BY OrderOfNothing
  <1>5. FilesOrdered'
    BY <1>1, <1>2 DEF FilesOrdered
  <1>6. ASSUME ReaderOrdered
        PROVE  ReaderOrdered'
    <2>1. Before(reported, Rest(content[path], offset'))
      <3>1. CASE inode = None
        <4>1. Rest(content[path], Size(path)) = <<>>
          BY <1>3, RestProperties DEF Size
        <4> QED
          BY <1>2, <1>4, <3>1, <4>1
      <3>2. CASE inode # None
        <4>1. Before(reported, content[path])
          BY <1>1, <1>2, <1>6, <3>2 DEF ReaderOrdered
        <4> QED
          BY <1>2, <1>3, <3>2, <4>1, OrderOfLess
      <3> QED
        BY <3>1, <3>2
    <2>2. ~(offset' > Size(path))
      BY <1>2, <1>3
    <2>3. Sorted(reported) /\ Upto(reported, written)
      BY <1>6 DEF ReaderOrdered, Handed
    <2> QED
      BY <1>2, <1>4, <2>1, <2>2, <2>3 DEF ReaderOrdered, Handed, Size
  <1> QED
    BY <1>1, <1>2, <1>5, <1>6 DEF OrderInv

(* A jump, to the start of a file that shrank or over what is beyond the   *)
(* window, drops the unfinished line.                                      *)
LEMMA OrderMeasure ==
  ASSUME TailInv, OrderInv, Measure
  PROVE  OrderInv'
  <1> USE DEF log, tail, history
  <1> DEFINE C == content[file]
             start == IF Size(file) < offset THEN 0 ELSE offset
             far == Size(file) - start > MaxBytesPerTick
  <1>1. TypeOK /\ Holding /\ FilesOrdered /\ (faults = 0 => ReaderOrdered)
    BY DEF TailInv, OrderInv
  <1>2. file \in Files /\ C \in Seq(Piece) /\ Size(file) \in Nat /\ offset \in Nat
        /\ MaxBytesPerTick \in Nat
    BY <1>1, OrderTypes, BoundsAssumption DEF Measure, Holding
  <1>3. /\ offset' = IF far THEN Size(file) - MaxBytesPerTick ELSE start
        /\ partial' = <<>> \/ (offset' = offset /\ partial' = partial)
        /\ pc' # "open"
        /\ UNCHANGED <<log, restarts, faults, file, inode, reported>>
    BY DEF Measure, Stretch
  <1>4. offset' \in Nat /\ offset' <= Size(file)
        /\ (offset <= offset' \/ offset > Size(file))
    BY <1>2, <1>3
  <1>5. \A s, n : Sorted(<<>>) /\ Before(<<>>, s) /\ Before(s, <<>>) /\ Upto(<<>>, n)
    BY OrderOfNothing
  <1>6. FilesOrdered'
    BY <1>1, <1>3 DEF FilesOrdered
  <1>7. ASSUME ReaderOrdered
        PROVE  ReaderOrdered'
    <2>1. ASSUME NEW u, Handed(u)
          PROVE  Before(u, Rest(C, offset'))
      <3>1. Before(u, Rest(C, offset)) /\ (offset > Size(file) => Before(u, C))
        BY <1>1, <1>2, <2>1, OrderTypes DEF Handed
      <3> HIDE DEF C
      <3>2. CASE offset <= offset'
        BY <1>2, <1>4, <3>1, <3>2, OrderOfLess
      <3>3. CASE offset > Size(file)
        BY <1>2, <1>4, <3>1, <3>3, OrderOfLess
      <3> QED
        BY <1>4, <3>2, <3>3
    <2>2. ~(offset' > Size(file))
      BY <1>2, <1>4
    <2>3. ASSUME NEW u, Handed(u)
          PROVE  /\ Sorted(u) /\ Upto(u, written)
                 /\ Before(u, Rest(C, offset'))
      BY <2>1, <2>3 DEF Handed
    <2>4. Handed(reported)'
      BY <1>3, <1>7, <2>2, <2>3 DEF ReaderOrdered, Handed, Size
    <2>5. Handed(partial)' /\ Before(reported, partial)'
      <3>1. CASE partial' = <<>>
        BY <1>3, <1>5, <2>2, <3>1 DEF Handed, Size
      <3>2. CASE partial' = partial
        BY <1>3, <1>7, <2>2, <2>3, <3>2 DEF ReaderOrdered, Handed, Size
      <3> QED
        BY <1>3, <3>1, <3>2
    <2>6. \A s : Before(partial, s) => Before(partial', s)
      BY <1>3, <1>5
    <2> QED
      BY <1>3, <1>7, <2>4, <2>5, <2>6 DEF ReaderOrdered
  <1> QED
    BY <1>1, <1>3, <1>6, <1>7 DEF OrderInv

(* What is read goes behind what was handed over.                          *)
LEMMA OrderRead ==
  ASSUME TailInv, OrderInv, Read
  PROVE  OrderInv'
  <1> USE DEF log, tail, history
  <1> DEFINE C == content[file]
             chunk == Rest(C, offset)
             text == partial \o chunk
  <1>1. TypeOK /\ Holding /\ FilesOrdered /\ (faults = 0 => ReaderOrdered)
    BY DEF TailInv, OrderInv
  <1>2. /\ file \in Files /\ file # None /\ inode # None
        /\ C \in Seq(Piece) /\ Len(C) \in Nat /\ offset \in Nat
        /\ partial \in Seq(Piece) /\ reported \in Seq(Piece)
    BY <1>1, OrderTypes DEF Read, Holding, Size
  <1>3. PICK last \in 0..Len(text) :
          /\ reported' = reported \o SubSeq(text, 1, last)
          /\ partial' = <<>> \/ partial' = Rest(text, last)
    BY DEF Read
  <1>4. /\ offset' = offset + Len(chunk)
        /\ pc' = "idle"
        /\ UNCHANGED <<log, restarts, faults, file, inode, readGen>>
    BY DEF Read
  <1> DEFINE lines == SubSeq(text, 1, last)
             rest == Rest(text, last)
  <1>5. \A s, n : Sorted(<<>>) /\ Before(<<>>, s) /\ Before(s, <<>>) /\ Upto(<<>>, n)
    BY OrderOfNothing
  <1>6. FilesOrdered'
    BY <1>1, <1>4 DEF FilesOrdered
  <1>7. ASSUME ReaderOrdered
        PROVE  ReaderOrdered'
    <2>1. /\ Sorted(reported) /\ Upto(reported, written) /\ Before(reported, chunk)
          /\ Sorted(partial) /\ Upto(partial, written) /\ Before(partial, chunk)
          /\ Before(reported, partial)
          /\ offset > Len(C) => Before(reported, C) /\ Before(partial, C)
          /\ path \notin {None, file} =>
                Before(reported, content[path]) /\ Before(partial, content[path])
                /\ Before(C, content[path])
      BY <1>2, <1>7 DEF ReaderOrdered, Handed, Size
    <2>2. Sorted(C) /\ Upto(C, written)
      BY <1>1, <1>2 DEF FilesOrdered
    <2> HIDE DEF C
    <2>3. /\ chunk \in Seq(Piece)
          /\ Len(chunk) = IF offset <= Len(C) THEN Len(C) - offset ELSE 0
          /\ offset >= Len(C) => chunk = <<>>
      BY <1>2, RestProperties
    <2>4. /\ Sorted(chunk) /\ Upto(chunk, written)
          /\ Before(C, content[path]) => Before(chunk, content[path])
      BY <1>2, <2>2, OrderOfLess
    <2>5. offset' \in Nat /\ offset' >= Len(C) /\ (offset' > Len(C) => offset > Len(C))
      BY <1>2, <1>4, <2>3
    <2>6. Rest(C, offset') = <<>>
      BY <1>2, <2>5, RestProperties
    <2> HIDE DEF chunk
    <2>7. /\ text \in Seq(Piece)
          /\ Sorted(text) /\ Upto(text, written) /\ Before(reported, text)
          /\ offset > Len(C) => Before(text, C)
          /\ path \notin {None, file} => Before(text, content[path])
      <3>1. text \in Seq(Piece)
        BY <1>2, <2>3, ConcatProperties
      <3>2. Sorted(text) /\ Upto(text, written) /\ Before(reported, text)
        BY <1>2, <2>1, <2>3, <2>4, OrderOfConcat
      <3>3. offset > Len(C) => Before(text, C)
        BY <1>2, <1>5, <2>1, <2>3, OrderOfConcat
      <3>4. path \notin {None, file} => Before(text, content[path])
        BY <1>2, <2>1, <2>3, <2>4, OrderOfConcat
      <3> QED
        BY <3>1, <3>2, <3>3, <3>4
    <2> HIDE DEF text
    <2>8. /\ lines \in Seq(Piece) /\ rest \in Seq(Piece)
          /\ Sorted(lines) /\ Sorted(rest) /\ Before(lines, rest)
          /\ Upto(lines, written) /\ Upto(rest, written)
          /\ Before(reported, lines) /\ Before(reported, rest)
          /\ \A u : Before(text, u) => Before(lines, u) /\ Before(rest, u)
      BY <2>7, OrderOfParts
    <2> HIDE DEF lines, rest
    <2>9. reported' = reported \o lines /\ (partial' = <<>> \/ partial' = rest)
      BY <1>3 DEF lines, rest
    <2>10. /\ Sorted(reported') /\ Upto(reported', written) /\ Before(reported', rest)
           /\ \A u : Before(reported, u) /\ Before(lines, u) => Before(reported', u)
      <3>1. reported \in Seq(Piece) /\ lines \in Seq(Piece) /\ reported' = reported \o lines
        BY <1>2, <2>8, <2>9
      <3>2. Sorted(reported \o lines)
        BY <2>1, <2>8, <3>1, OrderOfConcat
      <3>3. Upto(reported \o lines, written)
        BY <2>1, <2>8, <3>1, OrderOfConcat
      <3>4. ASSUME NEW u, Before(reported, u), Before(lines, u)
            PROVE  Before(reported \o lines, u)
        BY <3>1, <3>4, OrderOfConcat
      <3>5. Before(reported \o lines, rest)
        BY <2>8, <3>4
      <3> QED
        BY <3>1, <3>2, <3>3, <3>4, <3>5
    <2>11. /\ Sorted(partial') /\ Upto(partial', written) /\ Before(reported', partial')
           /\ \A u : Before(rest, u) => Before(partial', u)
      BY <1>5, <2>8, <2>9, <2>10
    <2>12. offset' > Len(C) => Before(reported', C) /\ Before(partial', C)
      BY <2>1, <2>5, <2>7, <2>8, <2>10, <2>11
    <2>13. path \notin {None, file} =>
              Before(reported', content[path]) /\ Before(partial', content[path])
      BY <2>1, <2>7, <2>8, <2>10, <2>11
    <2>14. Handed(reported)' /\ Handed(partial)'
      BY <1>4, <1>5, <2>6, <2>10, <2>11, <2>12 DEF Handed, Size, C
    <2> QED
      BY <1>4, <2>1, <2>11, <2>13, <2>14 DEF ReaderOrdered, C
  <1> QED
    BY <1>1, <1>4, <1>6, <1>7 DEF OrderInv
-----------------------------------------------------------------------------
(* As long as no system call fails for no lasting reason, nothing is       *)
(* handed over twice or out of the order in which it was written, across   *)
(* rotations, truncations and restarts (accesslog.go:422-453).             *)
THEOREM InOrderOnceHolds == Spec => []InOrderOnce
  <1>1. TailInv /\ OrderInv /\ [Next]_vars => OrderInv'
    BY OrderWrite, OrderTruncate, OrderNames, OrderCheck, OrderOpen, OrderMeasure, OrderRead
    DEF Next, Reader
  <1>2. TailInv /\ OrderInv => InOrderOnce
    <2> SUFFICES ASSUME TailInv, OrderInv, faults = 0 PROVE InOrderOnce
      BY DEF InOrderOnce
    <2>1. Sorted(reported) /\ reported \in Seq(Piece)
      BY DEF OrderInv, ReaderOrdered, Handed, TailInv, TypeOK
    <2>2. DOMAIN reported = 1..Len(reported)
      BY <2>1, LenProperties
    <2> QED
      BY <2>1, <2>2 DEF Sorted, InOrderOnce
  <1> QED
    BY <1>1, <1>2, OrderInit, TailAlways, PTL DEF Spec
=============================================================================
