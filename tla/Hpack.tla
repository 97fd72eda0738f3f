------------------------------- MODULE Hpack -------------------------------
(***************************************************************************)
(* One direction of an HTTP/2 connection's header compression (hpack.rs):  *)
(* the peer's encoder, external to the agent, and the agent's decoder of   *)
(* the blocks it captures.  A block is sent field by field.  A block some  *)
(* bytes of which were lost is not decoded at all; H2Conn::feed and        *)
(* on_frame (conn.rs) forget the table when they notice it.                *)
(*                                                                         *)
(* Header strings are names and values of given lengths.  These variables   *)
(* are history: fresh, how many of the newest encoder entries the decoder   *)
(* has read since it last forgot; astray, whether a block was lost          *)
(* unnoticed since; got, the last field decoded and the one that was sent.  *)
(***************************************************************************)
EXTENDS Integers, SequencesExt

CONSTANTS Names, Values,       \* header names and values
          Unknown,             \* Text::Unknown
          NameLen, ValueLen,   \* their lengths
          Overhead,            \* ENTRY_OVERHEAD
          Static,              \* STATIC_TABLE
          Limit,               \* the decoder's limit: DEFAULT_TABLE_SIZE
          MaxTableSize,        \* MAX_TABLE_SIZE
          Announced            \* the largest size the encoder may set

Entry == [name : Names, value : Values]

ASSUME HpackAssumption ==
    /\ Unknown \notin Names \cup Values
    /\ NameLen \in [Names -> Nat]
    /\ ValueLen \in [Values -> Nat]
    /\ Overhead \in Nat \ {0}
    /\ Static \in Seq(Entry)
    /\ Limit \in Nat
    /\ MaxTableSize \in Nat
    /\ Announced \in Nat

Text(S) == S \cup {Unknown}

Field == [name : Text(Names), value : Text(Values)]

(* What the decoder's table holds: the name of an entry may be unknown, its *)
(* value never is.                                                         *)
Seen == [name : Text(Names), value : Values]

NoField == [name |-> Unknown, value |-> Unknown]

Nothing == [field |-> NoField, sent |-> NoField]

VARIABLES enc,     \* the encoder: its table, newest first, and its size limit
          dec,     \* the decoder
          block,   \* the block being sent: none, read, lost, or failed to decode
          first,   \* no field of the block was sent yet
          fresh, astray, got

vars == <<enc, dec, block, first, fresh, astray, got>>

TypeOK ==
    /\ enc \in [table : Seq(Entry), max : Nat]
    /\ dec \in [entries : Seq(Seen), max : Nat, forgotten : BOOLEAN]
    /\ block \in {"none", "read", "lost", "failed"}
    /\ first \in BOOLEAN
    /\ fresh \in 0 .. Len(enc.table)
    /\ astray \in BOOLEAN
    /\ got \in [field : Field, sent : Entry \cup {NoField}]

(***************************************************************************)
(* The table.                                                              *)
(***************************************************************************)
(* An unknown name counts as empty. *)
EntrySize(e) ==
    (IF e.name = Unknown THEN 0 ELSE NameLen[e.name]) + ValueLen[e.value] + Overhead

TableSize(t) == FoldLeft(LAMBDA n, e : n + EntrySize(e), 0, t)

(* t without its oldest entries, so that it fits. *)
Fitting(t, size) ==
    SubSeq(t, 1, Cardinality({k \in DOMAIN t : TableSize(SubSeq(t, 1, k)) <= size}))

Empty(d) == [d EXCEPT !.entries = <<>>, !.forgotten = FALSE]

Evict(d) ==
    LET sized == Fitting(d.entries, d.max)
        kept == Fitting(sized, MaxTableSize)
    IN  [d EXCEPT !.entries = kept, !.forgotten = @ \/ kept # sized]

Insert(d, e) ==
    IF EntrySize(e) > d.max THEN Empty(d) ELSE Evict([d EXCEPT !.entries = <<e>> \o @])

(* Mutants: the entries, or the size last set, are kept. *)
ForgetKeepsEntries(d) == [d EXCEPT !.max = Limit, !.forgotten = TRUE]

ForgetKeepsSize(d) == [d EXCEPT !.entries = <<>>, !.forgotten = TRUE]

Forget(d) == [entries |-> <<>>, max |-> Limit, forgotten |-> TRUE]

(* An index past a table the decoder has seen whole. *)
BadIndex(d, i) == ~d.forgotten /\ i > Len(Static) + Len(d.entries)

Lookup(d, i) ==
    CASE i \in DOMAIN Static                       -> Static[i]
      [] i - Len(Static) \in DOMAIN d.entries      -> d.entries[i - Len(Static)]
      [] i > Len(Static) + Len(d.entries)          -> NoField

(* A size update is an error over the decoder's limit, or after a field. *)
CanResize(size) == first /\ size <= Limit

Resize(d, size) ==
    Evict(IF size = 0 THEN [Empty(d) EXCEPT !.max = 0] ELSE [d EXCEPT !.max = size])

(***************************************************************************)
(* The peer's encoder (RFC 7541).                                          *)
(***************************************************************************)
Index == 1 .. Len(Static) + Len(enc.table)

Indexed(i) == IF i \in DOMAIN Static THEN Static[i] ELSE enc.table[i - Len(Static)]

Encoded(e) ==
    IF EntrySize(e) > enc.max THEN <<>> ELSE Fitting(<<e>> \o enc.table, enc.max)

(***************************************************************************)
(* The connection.                                                         *)
(***************************************************************************)
Init ==
    /\ enc = [table |-> <<>>, max |-> Limit]
    /\ dec = [entries |-> <<>>, max |-> Limit, forgotten |-> FALSE]
    /\ block = "none"
    /\ first = TRUE
    /\ fresh = 0
    /\ astray = FALSE
    /\ got = Nothing

BeginBlock ==
    /\ block = "none"
    /\ block' = "read"
    /\ first' = TRUE
    /\ UNCHANGED <<enc, dec, fresh, astray, got>>

(* A block bytes of which are lost, or that passes MAX_HEADER_BLOCK. *)
LoseBlock ==
    /\ block = "none"
    /\ block' = "lost"
    /\ first' = TRUE
    /\ dec' = Forget(dec)
    /\ fresh' = 0
    /\ astray' = FALSE
    /\ got' = Nothing
    /\ UNCHANGED enc

(* A whole SSL call found no room in the ring: the next one seems to follow *)
(* the one before it.                                                       *)
LoseUnnoticed ==
    /\ block = "none"
    /\ block' = "lost"
    /\ first' = TRUE
    /\ fresh' = 0
    /\ astray' = TRUE
    /\ UNCHANGED <<enc, dec, got>>

EndBlock ==
    /\ block # "none"
    /\ block' = "none"
    /\ UNCHANGED <<enc, dec, first, fresh, astray, got>>

(* A block that cannot be decoded: the rest of it is not read, and the      *)
(* fields before the error are dropped.                                     *)
Fail ==
    /\ block' = "failed"
    /\ dec' = Forget(dec)
    /\ fresh' = 0
    /\ astray' = FALSE
    /\ got' = Nothing

Smaller(m, n) == IF m <= n THEN m ELSE n

SetSize(size) ==
    /\ block # "none" /\ first
    /\ enc' = [table |-> Fitting(enc.table, size), max |-> size]
    /\ UNCHANGED first
    /\ \/ /\ block = "read" /\ CanResize(size)
          /\ dec' = Resize(dec, size)
          /\ fresh' = Smaller(fresh, Len(enc'.table))
          /\ UNCHANGED <<block, astray, got>>
       \/ block = "read" /\ ~CanResize(size) /\ Fail
       \/ /\ block \in {"lost", "failed"}
          /\ fresh' = Smaller(fresh, Len(enc'.table))
          /\ UNCHANGED <<block, dec, astray, got>>

SendIndexed(i) ==
    /\ block # "none"
    /\ first' = FALSE
    /\ \/ /\ block = "read" /\ ~BadIndex(dec, i)
          /\ got' = [field |-> Lookup(dec, i), sent |-> Indexed(i)]
          /\ UNCHANGED <<block, dec, fresh, astray>>
       \/ block = "read" /\ BadIndex(dec, i) /\ Fail
       \/ block \in {"lost", "failed"} /\ UNCHANGED <<block, dec, fresh, astray, got>>
    /\ UNCHANGED enc

(* A literal of value v, its name spelled out (i = 0) or that of entry i,   *)
(* added to the table or not.                                               *)
SendLiteral(i, n, v, add) ==
    LET sent == [name |-> n, value |-> v]
        found == IF i = 0 THEN sent ELSE Lookup(dec, i)
        read == [name |-> found.name, value |-> v]
    IN  /\ block # "none"
        /\ i # 0 => n = Indexed(i).name
        /\ first' = FALSE
        /\ enc' = IF add THEN [enc EXCEPT !.table = Encoded(sent)] ELSE enc
        /\ \/ /\ block = "read" /\ ~(i # 0 /\ BadIndex(dec, i))
              /\ got' = [field |-> read, sent |-> sent]
              /\ dec' = IF add THEN Insert(dec, read) ELSE dec
              /\ fresh' = IF add THEN Smaller(fresh + 1, Len(enc'.table)) ELSE fresh
              /\ UNCHANGED <<block, astray>>
           \/ block = "read" /\ i # 0 /\ BadIndex(dec, i) /\ Fail
           \/ /\ block \in {"lost", "failed"}
              /\ fresh' = IF add THEN 0 ELSE fresh
              /\ UNCHANGED <<block, dec, astray, got>>

Next ==
    \/ BeginBlock
    \/ LoseBlock
    \/ LoseUnnoticed
    \/ EndBlock
    \/ \E size \in 0 .. Announced : SetSize(size)
    \/ \E i \in Index : SendIndexed(i)
    \/ \E i \in Index \cup {0}, n \in Names, v \in Values, add \in BOOLEAN :
          SendLiteral(i, n, v, add)

Spec == Init /\ [][Next]_vars

(***************************************************************************)
(* Safety.                                                                 *)
(***************************************************************************)
(* A name or value the decoder gives is the one that was sent, whatever was *)
(* lost and noticed before and whatever sizes the peer sets: a request is   *)
(* not matched to a provider by the host or path of another (conn.rs:334).  *)
KnownIsRight ==
    astray \/ /\ got.field.name \in {Unknown, got.sent.name}
              /\ got.field.value \in {Unknown, got.sent.value}

(* A table forgotten once does not stay unknown: of the encoder's entries   *)
(* the decoder still holds all those it has read since, because the size it *)
(* assumes when it forgets is the largest (hpack.rs:172), unless the peer   *)
(* uses more than that.                                                     *)
KeepsWhatItSaw == astray \/ enc.max > Limit \/ fresh <= Len(dec.entries)

(* No block of a correct peer fails to decode, whatever was lost and noticed *)
(* before it: an index is bad only in a table the decoder has seen whole.   *)
(* The agent's limit is the default one: a peer told to use more may fail.  *)
FailsOnlyOverLimit ==
    [][block' = "failed" /\ block = "read" => astray \/ enc'.max > Limit]_vars
=============================================================================
