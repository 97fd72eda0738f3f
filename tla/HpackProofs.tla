---------------------------- MODULE HpackProofs ----------------------------
(***************************************************************************)
(* Proofs about Hpack for any names, values, sizes, limits and static      *)
(* table: the decoder never gives a wrong name or value.                   *)
(*                                                                         *)
(* KnownIsRight is not inductive: it rests on the two tables being aligned *)
(* from the newest entry on (Aligned).  They stay so although each evicts  *)
(* by its own size, and the decoder by an underestimate of it, because     *)
(* evicting only cuts the old end; and because the decoder holds nothing   *)
(* while fields it does not read add entries to the other (LostIsEmpty).   *)
(***************************************************************************)
EXTENDS Hpack, FiniteSetTheorems, SequenceTheorems, TLAPS

Decoder == [entries : Seq(Seen), max : Nat, forgotten : BOOLEAN]

(* A decoded entry agrees with the one sent. *)
Agrees(seen, sent) == seen.name \in {Unknown, sent.name} /\ seen.value \in {Unknown, sent.value}

(* Newest first, the entries of both tables agree. *)
AlignedTo(t, s) == \A i \in 1 .. Len(t) : i <= Len(s) => Agrees(t[i], s[i])

Types ==
    /\ enc \in [table : Seq(Entry), max : Nat]
    /\ dec \in Decoder
    /\ block \in {"none", "read", "lost", "failed"}
    /\ got \in [field : Field, sent : Entry \cup {NoField}]

Aligned == astray \/ AlignedTo(dec.entries, enc.table)

LostIsEmpty == block \in {"lost", "failed"} => astray \/ dec.entries = <<>>

Inv == Types /\ Aligned /\ LostIsEmpty /\ KnownIsRight

(***************************************************************************)
(* Tables.                                                                 *)
(***************************************************************************)
(* Evicting keeps the newest entries of a table. *)
LEMMA FittingIsPrefix ==
    ASSUME NEW S, NEW t \in Seq(S), NEW size
    PROVE  /\ Fitting(t, size) \in Seq(S)
           /\ Len(Fitting(t, size)) <= Len(t)
           /\ \A i \in 1 .. Len(Fitting(t, size)) : Fitting(t, size)[i] = t[i]
<1> DEFINE kept == {k \in DOMAIN t : TableSize(SubSeq(t, 1, k)) <= size}
           n == Cardinality(kept)
<1>1. Len(t) \in Nat /\ DOMAIN t = 1 .. Len(t)
  BY LenProperties
<1>2. IsFiniteSet(1 .. Len(t)) /\ Cardinality(1 .. Len(t)) = Len(t)
  BY <1>1, FS_Interval, SMT
<1>3. kept \in SUBSET (1 .. Len(t))
  BY <1>1
<1>4. n \in Nat /\ n <= Len(t)
  BY <1>2, <1>3, FS_Subset, FS_CardinalityType
<1> HIDE DEF n
<1>5. Fitting(t, size) = SubSeq(t, 1, n)
  BY DEF Fitting, n
<1> QED BY <1>1, <1>4, <1>5, SMT

(* Tables that agree still do when either loses its oldest entries. *)
LEMMA FittingKeepsAligned ==
    ASSUME NEW S, NEW T, NEW t \in Seq(S), NEW s \in Seq(T), AlignedTo(t, s), NEW size
    PROVE  AlignedTo(Fitting(t, size), s) /\ AlignedTo(t, Fitting(s, size))
<1>1. /\ Len(t) \in Nat /\ Len(s) \in Nat
      /\ Len(Fitting(t, size)) \in Nat /\ Len(Fitting(s, size)) \in Nat
  BY FittingIsPrefix, LenProperties
<1>2. Len(Fitting(t, size)) <= Len(t) /\ Len(Fitting(s, size)) <= Len(s)
  BY FittingIsPrefix
<1>3. \A i \in 1 .. Len(Fitting(t, size)) : Fitting(t, size)[i] = t[i]
  BY FittingIsPrefix
<1>4. \A i \in 1 .. Len(Fitting(s, size)) : Fitting(s, size)[i] = s[i]
  BY FittingIsPrefix
<1> QED BY <1>1, <1>2, <1>3, <1>4, SMT DEF AlignedTo

(* Adding to the front of a table. *)
LEMMA PushProperties ==
    ASSUME NEW S, NEW t \in Seq(S), NEW e \in S
    PROVE  /\ <<e>> \o t \in Seq(S)
           /\ Len(<<e>> \o t) = Len(t) + 1
           /\ \A i \in 1 .. Len(t) + 1 : (<<e>> \o t)[i] = IF i = 1 THEN e ELSE t[i - 1]
<1>1. <<e>> \in Seq(S) /\ Len(<<e>>) = 1 /\ <<e>>[1] = e
  BY SMT
<1>2. Len(t) \in Nat
  BY LenProperties
<1>3. /\ <<e>> \o t \in Seq(S)
      /\ Len(<<e>> \o t) = Len(<<e>>) + Len(t)
      /\ \A i \in 1 .. Len(<<e>>) + Len(t) :
            (<<e>> \o t)[i] = IF i <= Len(<<e>>) THEN <<e>>[i] ELSE t[i - Len(<<e>>)]
  BY <1>1, ConcatProperties
<1>4. \A i \in 1 .. Len(t) + 1 : (<<e>> \o t)[i] = IF i = 1 THEN e ELSE t[i - 1]
  <2> TAKE i \in 1 .. Len(t) + 1
  <2>1. i \in 1 .. Len(<<e>>) + Len(t) /\ (i <= Len(<<e>>) <=> i = 1)
    BY <1>1, <1>2, SMT
  <2> QED BY <1>1, <1>3, <2>1
<1> QED BY <1>1, <1>2, <1>3, <1>4, SMT

(* Tables that agree still do when both get the same entry, or what the     *)
(* decoder knows of it.                                                     *)
LEMMA AddingKeepsAligned ==
    ASSUME NEW t \in Seq(Seen), NEW s \in Seq(Entry), AlignedTo(t, s),
           NEW seen \in Seen, NEW sent \in Entry, Agrees(seen, sent)
    PROVE  AlignedTo(<<seen>> \o t, <<sent>> \o s)
<1>1. Len(t) \in Nat /\ Len(s) \in Nat
  BY LenProperties
<1>2. /\ Len(<<seen>> \o t) = Len(t) + 1
      /\ \A i \in 1 .. Len(t) + 1 :
            (<<seen>> \o t)[i] = IF i = 1 THEN seen ELSE t[i - 1]
  BY PushProperties, ZenonT(60)
<1>3. /\ Len(<<sent>> \o s) = Len(s) + 1
      /\ \A i \in 1 .. Len(s) + 1 :
            (<<sent>> \o s)[i] = IF i = 1 THEN sent ELSE s[i - 1]
  BY PushProperties, ZenonT(60)
<1> SUFFICES ASSUME NEW i \in 1 .. Len(t) + 1, i <= Len(s) + 1
             PROVE  Agrees((<<seen>> \o t)[i], (<<sent>> \o s)[i])
  BY <1>2, <1>3 DEF AlignedTo
<1>4. i \in 1 .. Len(s) + 1
  BY <1>1, SMT
<1>5. CASE i = 1
  BY <1>2, <1>3, <1>4, <1>5
<1>6. CASE i # 1
  <2>1. i - 1 \in 1 .. Len(t) /\ i - 1 <= Len(s)
    BY <1>1, <1>6, SMT
  <2>2. Agrees(t[i - 1], s[i - 1])
    BY <2>1 DEF AlignedTo
  <2> QED BY <1>2, <1>3, <1>4, <1>6, <2>2
<1> QED BY <1>5, <1>6

(* Nothing disagrees with an empty table. *)
LEMMA EmptyIsAligned ==
    ASSUME NEW s
    PROVE  AlignedTo(<<>>, s) /\ <<>> \in Seq(Seen)
BY SMT DEF AlignedTo

(* What evict keeps is the newest part of the decoder's table. *)
LEMMA EvictKeepsAligned ==
    ASSUME NEW d \in Decoder, NEW s \in Seq(Entry), AlignedTo(d.entries, s)
    PROVE  Evict(d) \in Decoder /\ AlignedTo(Evict(d).entries, s)
<1> DEFINE sized == Fitting(d.entries, d.max)
           kept == Fitting(sized, MaxTableSize)
<1>1. d.entries \in Seq(Seen)
  BY DEF Decoder
<1>2. sized \in Seq(Seen) /\ AlignedTo(sized, s)
  BY <1>1, FittingIsPrefix, FittingKeepsAligned
<1> HIDE DEF sized
<1>3. kept \in Seq(Seen) /\ AlignedTo(kept, s)
  BY <1>2, FittingIsPrefix, FittingKeepsAligned
<1> HIDE DEF kept
<1>4. Evict(d) = [d EXCEPT !.entries = kept, !.forgotten = @ \/ kept # sized]
  BY DEF Evict, kept, sized
<1> QED BY <1>3, <1>4 DEF Decoder

(* A literal the decoder adds, alike in the encoder's table. *)
LEMMA InsertKeepsAligned ==
    ASSUME NEW d \in Decoder, NEW s \in Seq(Entry), AlignedTo(d.entries, s),
           NEW seen \in Seen, NEW sent \in Entry, Agrees(seen, sent)
    PROVE  Insert(d, seen) \in Decoder /\ AlignedTo(Insert(d, seen).entries, <<sent>> \o s)
<1>1. CASE EntrySize(seen) > d.max
  BY <1>1, EmptyIsAligned DEF Insert, Empty, Decoder
<1>2. CASE ~(EntrySize(seen) > d.max)
  <2> DEFINE e == [d EXCEPT !.entries = <<seen>> \o @]
  <2>1. d.entries \in Seq(Seen)
    BY DEF Decoder
  <2>2. e \in Decoder /\ e.entries = <<seen>> \o d.entries
    <3>1. <<seen>> \o d.entries \in Seq(Seen)
      BY <2>1, PushProperties
    <3> QED BY <3>1 DEF Decoder
  <2>3. AlignedTo(e.entries, <<sent>> \o s)
    BY <2>1, <2>2, AddingKeepsAligned
  <2>4. <<sent>> \o s \in Seq(Entry)
    BY PushProperties
  <2> HIDE DEF e
  <2>5. Evict(e) \in Decoder /\ AlignedTo(Evict(e).entries, <<sent>> \o s)
    BY <2>2, <2>3, <2>4, EvictKeepsAligned
  <2> QED BY <1>2, <2>5 DEF Insert, e
<1> QED BY <1>1, <1>2

(* A literal the decoder adds, whatever the encoder's table. *)
LEMMA InsertType ==
    ASSUME NEW d \in Decoder, NEW seen \in Seen
    PROVE  Insert(d, seen) \in Decoder
<1> DEFINE e == [d EXCEPT !.entries = <<seen>> \o @]
<1>1. <<>> \in Seq(Entry) /\ <<>> \in Seq(Seen) /\ \A t \in Seq(Seen) : AlignedTo(t, <<>>)
  BY SMT DEF AlignedTo
<1>2. <<seen>> \o d.entries \in Seq(Seen)
  BY PushProperties DEF Decoder
<1>3. e \in Decoder /\ e.entries \in Seq(Seen)
  BY <1>2 DEF Decoder
<1> HIDE DEF e
<1>4. Evict(e) \in Decoder
  BY <1>1, <1>3, EvictKeepsAligned
<1> QED BY <1>1, <1>4 DEF Insert, Empty, Decoder, e

(* Forgetting leaves a decoder that knows nothing. *)
LEMMA ForgetIsEmpty ==
    ASSUME NEW d
    PROVE  Forget(d) \in Decoder /\ Forget(d).entries = <<>>
BY HpackAssumption, EmptyIsAligned DEF Forget, Decoder

(* An index gives what the encoder meant by it, or nothing, when the tables *)
(* agree.                                                                   *)
LEMMA LookupIsRight ==
    ASSUME Types, NEW i \in Index
    PROVE  /\ Lookup(dec, i) \in Field
           /\ AlignedTo(dec.entries, enc.table) => Agrees(Lookup(dec, i), Indexed(i))
<1>1. /\ dec.entries \in Seq(Seen) /\ enc.table \in Seq(Entry) /\ Static \in Seq(Entry)
  BY HpackAssumption DEF Types, Decoder
<1>2. /\ Len(dec.entries) \in Nat /\ DOMAIN dec.entries = 1 .. Len(dec.entries)
      /\ Len(Static) \in Nat /\ DOMAIN Static = 1 .. Len(Static)
      /\ Len(enc.table) \in Nat
      /\ i \in Nat /\ i >= 1 /\ i <= Len(Static) + Len(enc.table)
  BY <1>1, LenProperties, SMT DEF Index
<1>3. CASE i \in DOMAIN Static
  <2>1. Lookup(dec, i) = Static[i]
    BY <1>2, <1>3, SMT DEF Lookup
  <2>2. Static[i] \in Entry
    BY <1>1, <1>3, ElementOfSeq, <1>2
  <2> QED BY <1>3, <2>1, <2>2 DEF Indexed, Agrees, Entry, Field, Text
<1>4. CASE i - Len(Static) \in DOMAIN dec.entries
  <2> DEFINE at == i - Len(Static)
  <2>1. i \notin DOMAIN Static /\ at \in 1 .. Len(dec.entries) /\ at <= Len(enc.table)
    BY <1>2, <1>4, SMT
  <2>2. ~(i > Len(Static) + Len(dec.entries))
    BY <1>2, <2>1, SMT
  <2>3. Lookup(dec, i) = dec.entries[at]
    BY <1>4, <2>1, <2>2 DEF Lookup
  <2>4. dec.entries[at] \in Seen
    BY <1>1, <2>1, ElementOfSeq
  <2>5. AlignedTo(dec.entries, enc.table) => Agrees(dec.entries[at], enc.table[at])
    BY <2>1 DEF AlignedTo
  <2> QED BY <2>1, <2>3, <2>4, <2>5 DEF Indexed, Seen, Field, Text
<1>5. CASE i > Len(Static) + Len(dec.entries)
  <2>1. Lookup(dec, i) = NoField
    <3>1. i \notin DOMAIN Static /\ i - Len(Static) \notin DOMAIN dec.entries
      BY <1>2, <1>5, SMT
    <3> QED BY <3>1, <1>5 DEF Lookup
  <2> QED BY <2>1 DEF NoField, Agrees, Field, Text
<1> QED BY <1>2, <1>3, <1>4, <1>5, SMT

(***************************************************************************)
(* The steps.                                                              *)
(***************************************************************************)
(* A connection starts with nothing lost and both tables empty. *)
LEMMA InitInv == Init => Inv
<1> SUFFICES ASSUME Init
             PROVE  Inv
  OBVIOUS
<1>1. <<>> \in Seq(Entry) /\ <<>> \in Seq(Seen)
  BY SMT
<1>2. Types
  BY HpackAssumption, <1>1 DEF Init, Types, Decoder, Nothing, NoField, Field, Text
<1>3. Aligned /\ LostIsEmpty /\ KnownIsRight
  BY EmptyIsAligned DEF Init, Aligned, LostIsEmpty, KnownIsRight, Nothing, NoField
<1> QED BY <1>2, <1>3 DEF Inv

(* A block that fails to decode leaves the decoder empty, and what was read *)
(* of it is dropped.                                                        *)
LEMMA FailKeepsInv ==
    ASSUME Inv, Fail, enc' \in [table : Seq(Entry), max : Nat]
    PROVE  Inv'
<1>1. dec' \in Decoder /\ dec'.entries = <<>>
  BY ForgetIsEmpty DEF Fail
<1>2. Types'
  BY <1>1 DEF Fail, Types, Nothing, NoField, Field, Text
<1>3. Aligned'
  BY <1>1, EmptyIsAligned DEF Aligned
<1>4. LostIsEmpty' /\ KnownIsRight'
  BY <1>1 DEF Fail, LostIsEmpty, KnownIsRight, Nothing, NoField
<1> QED BY <1>2, <1>3, <1>4 DEF Inv

(* The blocks begin, are lost and end. *)
LEMMA BlocksKeepInv ==
    ASSUME Inv, BeginBlock \/ LoseBlock \/ LoseUnnoticed \/ EndBlock
    PROVE  Inv'
<1>1. CASE BeginBlock
  BY <1>1 DEF BeginBlock, Inv, Types, Aligned, LostIsEmpty, KnownIsRight
<1>2. CASE LoseBlock
  <2>1. dec' \in Decoder /\ dec'.entries = <<>>
    BY <1>2, ForgetIsEmpty DEF LoseBlock
  <2>2. Types'
    BY <1>2, <2>1 DEF LoseBlock, Inv, Types, Nothing, NoField, Field, Text
  <2>3. Aligned'
    BY <2>1, EmptyIsAligned DEF Aligned
  <2>4. LostIsEmpty' /\ KnownIsRight'
    BY <1>2, <2>1 DEF LoseBlock, LostIsEmpty, KnownIsRight, Nothing, NoField
  <2> QED BY <2>2, <2>3, <2>4 DEF Inv
<1>3. CASE LoseUnnoticed
  BY <1>3 DEF LoseUnnoticed, Inv, Types, Aligned, LostIsEmpty, KnownIsRight
<1>4. CASE EndBlock
  BY <1>4 DEF EndBlock, Inv, Types, Aligned, LostIsEmpty, KnownIsRight
<1> QED BY <1>1, <1>2, <1>3, <1>4

(* A size update: both tables keep their newest entries. *)
LEMMA SetSizeKeepsInv ==
    ASSUME Inv, NEW size \in 0 .. Announced, SetSize(size)
    PROVE  Inv'
<1>1. size \in Nat /\ enc.table \in Seq(Entry) /\ dec \in Decoder /\ dec.entries \in Seq(Seen)
  BY HpackAssumption DEF Inv, Types, Decoder
<1>2. enc' \in [table : Seq(Entry), max : Nat] /\ enc'.table = Fitting(enc.table, size)
  BY <1>1, FittingIsPrefix DEF SetSize
<1>3. AlignedTo(dec.entries, enc.table) => AlignedTo(dec.entries, enc'.table)
  BY <1>1, <1>2, FittingKeepsAligned
<1>4. CASE block = "read" /\ CanResize(size) /\ dec' = Resize(dec, size)
           /\ UNCHANGED <<block, astray, got>>
  <2> DEFINE d == IF size = 0 THEN [Empty(dec) EXCEPT !.max = 0] ELSE [dec EXCEPT !.max = size]
  <2>1. d \in Decoder /\ d.entries \in {<<>>, dec.entries}
    BY <1>1, EmptyIsAligned DEF Empty, Decoder
  <2>2. AlignedTo(dec.entries, enc.table) => AlignedTo(d.entries, enc'.table)
    BY <1>3, <2>1, EmptyIsAligned
  <2>3. dec' = Evict(d)
    BY <1>4 DEF Resize
  <2> HIDE DEF d
  <2>4. AlignedTo(<<>>, <<>>) /\ <<>> \in Seq(Entry)
    BY EmptyIsAligned, SMT
  <2>5. AlignedTo(d.entries, <<>>)
    BY SMT DEF AlignedTo
  <2>6. dec' \in Decoder
    BY <2>1, <2>3, <2>4, <2>5, EvictKeepsAligned
  <2>7. AlignedTo(dec.entries, enc.table) => AlignedTo(dec'.entries, enc'.table)
    BY <1>2, <2>1, <2>2, <2>3, EvictKeepsAligned
  <2>8. Types' /\ Aligned'
    BY <1>2, <1>4, <2>6, <2>7 DEF Inv, Types, Aligned
  <2> QED BY <1>4, <2>8 DEF Inv, LostIsEmpty, KnownIsRight
<1>5. CASE Fail
  BY <1>2, <1>5, FailKeepsInv
<1>6. CASE block \in {"lost", "failed"} /\ UNCHANGED <<block, dec, astray, got>>
  BY <1>2, <1>3, <1>6 DEF Inv, Types, Aligned, LostIsEmpty, KnownIsRight
<1> QED BY <1>4, <1>5, <1>6 DEF SetSize

(* An indexed field. *)
LEMMA SendIndexedKeepsInv ==
    ASSUME Inv, NEW i \in Index, SendIndexed(i)
    PROVE  Inv'
<1>1. enc' = enc /\ enc \in [table : Seq(Entry), max : Nat] /\ dec \in Decoder
  BY DEF SendIndexed, Inv, Types
<1>2. CASE /\ block = "read" /\ ~BadIndex(dec, i)
           /\ got' = [field |-> Lookup(dec, i), sent |-> Indexed(i)]
           /\ UNCHANGED <<block, dec, fresh, astray>>
  <2>1. Indexed(i) \in Entry
    BY HpackAssumption, <1>1, SMT DEF Indexed, Index
  <2>2. Lookup(dec, i) \in Field
    BY LookupIsRight DEF Inv
  <2>3. Types'
    BY <1>1, <1>2, <2>1, <2>2 DEF Inv, Types
  <2>4. AlignedTo(dec.entries, enc.table) => Agrees(Lookup(dec, i), Indexed(i))
    BY LookupIsRight DEF Inv
  <2>5. KnownIsRight'
    BY <1>2, <2>4 DEF Inv, KnownIsRight, Aligned, Agrees
  <2> QED BY <1>1, <1>2, <2>3, <2>5 DEF Inv, Aligned, LostIsEmpty
<1>3. CASE Fail
  BY <1>1, <1>3, FailKeepsInv
<1>4. CASE UNCHANGED <<block, dec, fresh, astray, got>>
  BY <1>1, <1>4 DEF Inv, Types, Aligned, LostIsEmpty, KnownIsRight
<1> QED BY <1>2, <1>3, <1>4 DEF SendIndexed

(* A literal field, added to both tables or to none. *)
LEMMA SendLiteralKeepsInv ==
    ASSUME Inv, NEW i \in Index \cup {0}, NEW n \in Names, NEW v \in Values,
           NEW add \in BOOLEAN, SendLiteral(i, n, v, add)
    PROVE  Inv'
<1> DEFINE sent == [name |-> n, value |-> v]
           found == IF i = 0 THEN sent ELSE Lookup(dec, i)
           read == [name |-> found.name, value |-> v]
<1>1. enc \in [table : Seq(Entry), max : Nat] /\ dec \in Decoder /\ sent \in Entry
  BY DEF Inv, Types, Entry
<1>2. /\ enc' = IF add THEN [enc EXCEPT !.table = Encoded(sent)] ELSE enc
      /\ i # 0 => n = Indexed(i).name
  BY DEF SendLiteral
<1>3. read \in Seen /\ read \in Field
  <2>1. found.name \in Text(Names)
    BY LookupIsRight DEF Inv, Field, Text
  <2> HIDE DEF found
  <2> QED BY <2>1 DEF Seen, Field, Text
<1>4. AlignedTo(dec.entries, enc.table) => Agrees(read, sent)
  BY <1>2, LookupIsRight DEF Inv, Agrees
<1>5. /\ Encoded(sent) \in Seq(Entry)
      /\ \A t \in Seq(Seen) : AlignedTo(t, <<sent>> \o enc.table) => AlignedTo(t, Encoded(sent))
  <2>1. <<sent>> \o enc.table \in Seq(Entry)
    BY <1>1, PushProperties
  <2>2. CASE Encoded(sent) = <<>>
    <3>1. <<>> \in Seq(Entry) /\ \A t \in Seq(Seen) : AlignedTo(t, <<>>)
      BY SMT DEF AlignedTo
    <3> QED BY <2>2, <3>1
  <2>3. CASE Encoded(sent) = Fitting(<<sent>> \o enc.table, enc.max)
    <3>1. Fitting(<<sent>> \o enc.table, enc.max) \in Seq(Entry)
      BY <2>1, FittingIsPrefix
    <3>2. ASSUME NEW t \in Seq(Seen), AlignedTo(t, <<sent>> \o enc.table)
          PROVE  AlignedTo(t, Fitting(<<sent>> \o enc.table, enc.max))
      BY <2>1, <3>2, FittingKeepsAligned, Zenon
    <3> QED BY <2>3, <3>1, <3>2
  <2> QED BY <2>2, <2>3 DEF Encoded
<1>6. enc' \in [table : Seq(Entry), max : Nat]
  BY <1>1, <1>2, <1>5
<1>7. CASE /\ block = "read"
           /\ got' = [field |-> read, sent |-> sent]
           /\ dec' = IF add THEN Insert(dec, read) ELSE dec
           /\ UNCHANGED <<block, astray>>
  <2>1. dec' \in Decoder
    BY <1>1, <1>3, <1>7, InsertType
  <2>2. Types'
    BY <1>1, <1>3, <1>6, <1>7, <2>1 DEF Inv, Types
  <2>3. ASSUME ~astray, add
        PROVE  AlignedTo(dec'.entries, enc'.table)
    <3>1. AlignedTo(dec.entries, enc.table)
      BY <2>3 DEF Inv, Aligned
    <3>2. AlignedTo(Insert(dec, read).entries, <<sent>> \o enc.table)
      BY <1>1, <1>3, <1>4, <3>1, InsertKeepsAligned
    <3>3. dec' = Insert(dec, read) /\ dec'.entries \in Seq(Seen) /\ enc'.table = Encoded(sent)
      BY <1>1, <1>2, <1>7, <2>1, <2>3 DEF Decoder
    <3> QED BY <1>5, <3>2, <3>3
  <2>4. Aligned'
    BY <1>2, <1>7, <2>3 DEF Inv, Aligned
  <2>5. KnownIsRight'
    BY <1>4, <1>7 DEF Inv, Aligned, KnownIsRight, Agrees
  <2> QED BY <1>7, <2>2, <2>4, <2>5 DEF Inv, LostIsEmpty
<1>8. CASE Fail
  BY <1>6, <1>8, FailKeepsInv
<1>9. CASE block \in {"lost", "failed"} /\ UNCHANGED <<block, dec, astray, got>>
  <2>1. Types'
    BY <1>6, <1>9 DEF Inv, Types
  <2>2. Aligned'
    BY <1>9, EmptyIsAligned DEF Inv, LostIsEmpty, Aligned
  <2> QED BY <1>9, <2>1, <2>2 DEF Inv, LostIsEmpty, KnownIsRight
<1> QED BY <1>7, <1>8, <1>9 DEF SendLiteral

(* Every step keeps the tables aligned. *)
LEMMA NextInv == Inv /\ [Next]_vars => Inv'
<1> SUFFICES ASSUME Inv, [Next]_vars
             PROVE  Inv'
  OBVIOUS
<1>1. CASE BeginBlock \/ LoseBlock \/ LoseUnnoticed \/ EndBlock
  BY <1>1, BlocksKeepInv
<1>2. CASE \E size \in 0 .. Announced : SetSize(size)
  BY <1>2, SetSizeKeepsInv
<1>3. CASE \E i \in Index : SendIndexed(i)
  BY <1>3, SendIndexedKeepsInv
<1>4. CASE \E i \in Index \cup {0}, n \in Names, v \in Values, add \in BOOLEAN :
              SendLiteral(i, n, v, add)
  BY <1>4, SendLiteralKeepsInv
<1>5. CASE UNCHANGED vars
  BY <1>5 DEF vars, Inv, Types, Aligned, LostIsEmpty, KnownIsRight
<1> QED BY <1>1, <1>2, <1>3, <1>4, <1>5 DEF Next

(* Whatever was lost and noticed, and whatever sizes the peer sets, a name  *)
(* or value Decoder::decode gives is the one that was sent (hpack.rs:89).   *)
THEOREM FieldsAreRight == Spec => []KnownIsRight
<1>1. Inv => KnownIsRight
  BY DEF Inv
<1> QED BY <1>1, InitInv, NextInv, PTL DEF Spec
=============================================================================
