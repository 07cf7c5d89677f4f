--------------------------- MODULE ScribeWal_proofs ---------------------------
(***************************************************************************)
(* Proofs about ScribeWal for every value of its constants: the cached     *)
(* validation is sound and the journal stays well formed whatever fails;   *)
(* while no append to the log tears, the log holds what is committed and   *)
(* acknowledged, and while the journal can be read as well, the module     *)
(* implements AuditTrail.                                                  *)
(***************************************************************************)
EXTENDS ScribeWal, TLAPS

USE ConstantsAssumption, BoundsAssumption

-----------------------------------------------------------------------------
(* The journal grows by one row.                                            *)

\* What appending a row does to the sets a scan computes.
LEMMA RowAdded ==
  ASSUME NEW j \in Seq(Row), NEW row \in Row
  PROVE  LET k == Append(j, row) IN
         /\ k \in Seq(Row)
         /\ DOMAIN j = 1..Len(j)
         /\ DOMAIN k = 1..(Len(j) + 1)
         /\ Len(j) \in Nat
         /\ \A i \in DOMAIN j : k[i] = j[i]
         /\ k[Len(j) + 1] = row
         /\ IntentRows(j) \subseteq DOMAIN j
         /\ MarkerRows(j) \subseteq DOMAIN j
         /\ row.op = "append" =>
              /\ IntentRows(k) = IntentRows(j) \cup {Len(j) + 1}
              /\ MarkerRows(k) = MarkerRows(j)
              /\ Intended(k) = Intended(j) \cup {row.id}
              /\ Committed(k) = Committed(j)
         /\ row.op = "commit" =>
              /\ IntentRows(k) = IntentRows(j)
              /\ MarkerRows(k) = MarkerRows(j) \cup {Len(j) + 1}
              /\ Intended(k) = Intended(j)
              /\ Committed(k) = Committed(j) \cup {row.id}
<1> DEFINE k == Append(j, row)
<1>1. /\ k \in Seq(Row) /\ DOMAIN j = 1..Len(j) /\ DOMAIN k = 1..(Len(j) + 1)
      /\ Len(j) \in Nat
      /\ \A i \in DOMAIN j : k[i] = j[i]
      /\ k[Len(j) + 1] = row
  OBVIOUS
<1>2. IntentRows(j) \subseteq DOMAIN j /\ MarkerRows(j) \subseteq DOMAIN j
  BY DEF IntentRows, MarkerRows
<1> HIDE DEF k
<1>3. ASSUME row.op = "append"
      PROVE  /\ IntentRows(k) = IntentRows(j) \cup {Len(j) + 1}
             /\ MarkerRows(k) = MarkerRows(j)
  BY <1>1, <1>3 DEF IntentRows, MarkerRows
<1>4. ASSUME row.op = "commit"
      PROVE  /\ IntentRows(k) = IntentRows(j)
             /\ MarkerRows(k) = MarkerRows(j) \cup {Len(j) + 1}
  BY <1>1, <1>4 DEF IntentRows, MarkerRows
<1>5. ASSUME row.op = "append"
      PROVE  Intended(k) = Intended(j) \cup {row.id} /\ Committed(k) = Committed(j)
  BY <1>1, <1>2, <1>3, <1>5 DEF Intended, Committed
<1>6. ASSUME row.op = "commit"
      PROVE  Intended(k) = Intended(j) /\ Committed(k) = Committed(j) \cup {row.id}
  BY <1>1, <1>2, <1>4, <1>6 DEF Intended, Committed
<1>7. QED  BY <1>1, <1>2, <1>3, <1>4, <1>5, <1>6 DEF k

-----------------------------------------------------------------------------
(* The highest identifier of a set that has one, and of the set with one    *)
(* more: every set of identifiers that a journal holds has a highest one    *)
(* because it grows by single identifiers.                                  *)

HasHighest(S) == S = {} \/ \E x \in S : \A y \in S : y <= x

\* Highest is the greatest element of a set that has one.
LEMMA HighestIs ==
  ASSUME NEW S \in SUBSET Nat, HasHighest(S)
  PROVE  /\ Highest(S) \in Nat
         /\ \A y \in S : y <= Highest(S)
         /\ S # {} => Highest(S) \in S
<1>1. CASE S = {}
  BY <1>1 DEF Highest
<1>2. CASE S # {}
  <2>1. \E x \in S : \A y \in S : y <= x
    BY <1>2 DEF HasHighest
  <2> DEFINE m == CHOOSE x \in S : \A y \in S : y <= x
  <2>2. m \in S /\ \A y \in S : y <= m
    BY <2>1
  <2>3. Highest(S) = m
    BY <1>2 DEF Highest
  <2>4. QED  BY <2>2, <2>3
<1>3. QED  BY <1>1, <1>2

\* A set that gains one number still has a highest: the larger of the two.
LEMMA HighestGrows ==
  ASSUME NEW S \in SUBSET Nat, HasHighest(S), NEW x \in Nat
  PROVE  /\ HasHighest(S \cup {x})
         /\ Highest(S \cup {x}) = Larger(Highest(S), x)
<1> DEFINE T == S \cup {x}
           m == Larger(Highest(S), x)
<1>1. /\ Highest(S) \in Nat
      /\ \A y \in S : y <= Highest(S)
      /\ S # {} => Highest(S) \in S
      /\ S = {} => Highest(S) = 0
  BY HighestIs DEF Highest
<1>2. m \in T /\ \A y \in T : y <= m
  BY <1>1 DEF Larger
<1>3. HasHighest(T)
  BY <1>2 DEF HasHighest
<1>4. /\ Highest(T) \in T
      /\ \A y \in T : y <= Highest(T)
  BY <1>3, HighestIs
<1>5. T \subseteq Nat /\ m \in Nat
  BY <1>1 DEF Larger
<1>6. Highest(T) = m
  <2> HIDE DEF T, m
  <2>1. Highest(T) <= m /\ m <= Highest(T) /\ Highest(T) \in Nat
    BY <1>2, <1>4, <1>5
  <2>2. QED  BY <2>1, <1>5
<1>7. QED  BY <1>3, <1>6

-----------------------------------------------------------------------------
(* The inductive invariant of the journal and its cache.                    *)

JournalInv ==
    /\ \A i, k \in IntentRows(journal) : journal[i].id = journal[k].id => i = k
    /\ \A i, k \in MarkerRows(journal) : journal[i].id = journal[k].id => i = k
    /\ \A i \in MarkerRows(journal) :
         \E k \in IntentRows(journal) : k < i /\ journal[k].id = journal[i].id
    /\ HasHighest(Intended(journal))
    /\ HasHighest(Committed(journal))

\* What a proof whose signature is that of the file says of it.
Exact(v, s, h, j) == v # NoProof =>
    /\ v \in Proofs
    /\ v.size = s
    /\ h = "sound"
    /\ v.high = Highest(Intended(j))
    /\ v.committedHigh = Highest(Committed(j))

CacheInv == \A p \in Proc :
    proof[p] # NoProof =>
      /\ proof[p].size <= size
      /\ proof[p].size = size => Exact(proof[p], size, health, journal)

\* A pending entry is an entry of the journal, and nothing has committed it
\* as long as nothing has been written since.
PendingInv == \A t \in Thread :
    /\ pc[t] # "idle" => cur[t] \in Op
    /\ pending[t] # 0 =>
         /\ pc[t] # "idle"
         /\ pending[t] <= size
         /\ Stamp[cur[t]] \in Intended(journal)
         /\ pending[t] = size => Stamp[cur[t]] \notin Committed(journal)

TodoInv == \A p \in Proc : todo[p] \subseteq IntentRows(journal)

IInv == TypeOK /\ JournalInv /\ CacheInv /\ PendingInv /\ TodoInv

\* The rows of a typed journal name identifiers.
LEMMA Names ==
  ASSUME NEW j \in Seq(Row)
  PROVE  /\ Len(j) \in Nat /\ DOMAIN j = 1..Len(j)
         /\ IntentRows(j) \subseteq 1..Len(j) /\ MarkerRows(j) \subseteq 1..Len(j)
         /\ IntentRows(j) \cap MarkerRows(j) = {}
         /\ DOMAIN j = IntentRows(j) \cup MarkerRows(j)
         /\ Intended(j) \subseteq Id /\ Committed(j) \subseteq Id
<1>1. Len(j) \in Nat /\ DOMAIN j = 1..Len(j) /\ \A i \in DOMAIN j : j[i] \in Row
  OBVIOUS
<1>2. \A r \in Row : r.id \in Id /\ r.op \in {"append", "commit"}
  BY DEF Row
<1>3. QED
  BY <1>1, <1>2 DEF IntentRows, MarkerRows, Intended, Committed

\* What a writer leaves is what the scan accepts.
LEMMA JournalIsReadable ==
  ASSUME journal \in Seq(Row), JournalInv
  PROVE  Readable(journal)
<1>1. /\ IntentRows(journal) \subseteq 1..Len(journal)
      /\ MarkerRows(journal) \subseteq 1..Len(journal)
      /\ Len(journal) \in Nat
      /\ 1..Len(journal) = IntentRows(journal) \cup MarkerRows(journal)
  BY Names
<1>2. ASSUME NEW i \in IntentRows(journal), NEW k \in 1..(i - 1),
             journal[k].id = journal[i].id
      PROVE  FALSE
  <2>1. i \in 1..Len(journal) /\ k \in 1..Len(journal) /\ k < i
    BY <1>1
  <2>2. CASE k \in IntentRows(journal)
    BY <2>1, <2>2, <1>2 DEF JournalInv
  <2>3. CASE k \in MarkerRows(journal)
    <3>1. PICK n \in IntentRows(journal) : n < k /\ journal[n].id = journal[k].id
      BY <2>3 DEF JournalInv
    <3>2. n = i
      BY <3>1, <1>2 DEF JournalInv
    <3>3. n \in 1..Len(journal)
      BY <1>1
    <3>4. QED  BY <2>1, <3>1, <3>2, <3>3
  <2>4. QED  BY <1>1, <2>1, <2>2, <2>3
<1>3. QED  BY <1>2 DEF Readable, JournalInv

\* How a step may change the journal: not at all, by an unreadable row, by
\* the intent of a new entry or by the first marker of an intended one.
FileStep(row) ==
    \/ UNCHANGED fileVars
    \/ /\ size' = size + 1
       /\ health' \in {"sound", "unterminated", "corrupt"}
       /\ health' = "sound" => health = "sound" /\ journal' # journal
       /\ \/ journal' = journal
          \/ journal' = Append(journal, row)

NewIntent(row) == /\ row \in [op : {"append"}, id : Id, digest : Digest]
                  /\ row.id \notin Intended(journal)

NewMarker(row) == /\ row \in [op : {"commit"}, id : Id]
                  /\ row.id \in Intended(journal) \ Committed(journal)

\* The rows that writers write are rows of the journal.
LEMMA NewRows == \A row : NewIntent(row) \/ NewMarker(row) => row \in Row
BY DEF NewIntent, NewMarker, Row

\* A failing or a whole write of a row changes the file as FileStep says.
LEMMA FailIsFileStep ==
  ASSUME TypeOK, NEW row \in Row, FailRow(row)
  PROVE  FileStep(row)
<1>1. Append(journal, row) # journal
  <2>1. Len(Append(journal, row)) = Len(journal) + 1 /\ Len(journal) \in Nat
    BY DEF TypeOK
  <2>2. QED  BY <2>1
<1>2. CASE UNCHANGED fileVars
  BY <1>2 DEF FileStep
<1>3. CASE WriteRow(row)
  BY <1>1, <1>3 DEF FileStep, WriteRow, TypeOK
<1>4. CASE TearRow(row)
  BY <1>1, <1>4 DEF FileStep, TearRow, TypeOK
<1>5. QED  BY <1>2, <1>3, <1>4 DEF FailRow

\* The file stays typed, its signature grows by every change, and nothing
\* that a scan has found is lost.
LEMMA FileTypes ==
  ASSUME TypeOK, NEW row, UNCHANGED fileVars \/ (row \in Row /\ FileStep(row))
  PROVE  /\ journal' \in Seq(Row) /\ size' \in Nat
         /\ health' \in {"sound", "unterminated", "corrupt"}
         /\ size <= size'
         /\ size' = size => UNCHANGED fileVars
         /\ size' # size => size' = size + 1
         /\ Intended(journal) \subseteq Intended(journal')
         /\ Committed(journal) \subseteq Committed(journal')
         /\ IntentRows(journal) \subseteq IntentRows(journal')
         /\ \A i \in IntentRows(journal) : journal'[i] = journal[i]
<1> USE DEF fileVars
<1>1. journal \in Seq(Row) /\ size \in Nat
  BY DEF TypeOK
<1>2. row \in Row => row.op \in {"append", "commit"}
  BY DEF Row
<1>3. CASE UNCHANGED fileVars
  BY <1>1, <1>3 DEF TypeOK
<1>4. CASE row \in Row /\ FileStep(row) /\ size' = size + 1
  <2>1. CASE journal' = journal
    BY <1>1, <1>4, <2>1 DEF FileStep, TypeOK
  <2>2. CASE journal' = Append(journal, row)
    <3>1. /\ journal' \in Seq(Row)
          /\ Intended(journal) \subseteq Intended(journal')
          /\ Committed(journal) \subseteq Committed(journal')
          /\ IntentRows(journal) \subseteq IntentRows(journal')
          /\ \A i \in IntentRows(journal) : journal'[i] = journal[i]
      BY <1>1, <1>2, <2>2, RowAdded
    <3>2. QED  BY <1>1, <1>4, <3>1 DEF FileStep, TypeOK
  <2>3. QED  BY <1>1, <1>4, <2>1, <2>2 DEF FileStep
<1>5. QED  BY <1>3, <1>4 DEF FileStep

\* A new intent or a first marker keeps the journal well formed, written
\* whole, torn or not at all.
LEMMA JournalKept ==
  ASSUME TypeOK, JournalInv, NEW row \in Row, FileStep(row),
         NewIntent(row) \/ NewMarker(row)
  PROVE  JournalInv'
<1>1. journal \in Seq(Row)
  BY DEF TypeOK
<1>2. CASE journal' = journal
  BY <1>2 DEF JournalInv
<1>3. CASE journal' = Append(journal, row) /\ NewIntent(row)
  <2>1. row.op = "append" /\ row.id \in Id
    BY <1>3 DEF NewIntent
  <2>2. /\ IntentRows(journal') = IntentRows(journal) \cup {Len(journal) + 1}
        /\ MarkerRows(journal') = MarkerRows(journal)
        /\ Intended(journal') = Intended(journal) \cup {row.id}
        /\ Committed(journal') = Committed(journal)
        /\ \A i \in DOMAIN journal : journal'[i] = journal[i]
        /\ journal'[Len(journal) + 1] = row
        /\ IntentRows(journal) \subseteq DOMAIN journal
        /\ MarkerRows(journal) \subseteq DOMAIN journal
    BY <1>1, <1>3, <2>1, RowAdded
  <2>3. \A i \in IntentRows(journal) : journal[i].id # row.id
    BY <1>3 DEF NewIntent, Intended
  <2>4. HasHighest(Intended(journal'))
    <3>1. Intended(journal) \subseteq Nat /\ row.id \in Nat
      BY <1>1, <2>1, Names
    <3>2. QED  BY <2>2, <3>1, HighestGrows DEF JournalInv
  <2>5. QED  BY <2>2, <2>3, <2>4 DEF JournalInv
<1>4. CASE journal' = Append(journal, row) /\ NewMarker(row)
  <2>1. row.op = "commit" /\ row.id \in Id
    BY <1>4 DEF NewMarker
  <2>2. /\ IntentRows(journal') = IntentRows(journal)
        /\ MarkerRows(journal') = MarkerRows(journal) \cup {Len(journal) + 1}
        /\ Intended(journal') = Intended(journal)
        /\ Committed(journal') = Committed(journal) \cup {row.id}
        /\ \A i \in DOMAIN journal : journal'[i] = journal[i]
        /\ journal'[Len(journal) + 1] = row
        /\ IntentRows(journal) \subseteq DOMAIN journal
        /\ MarkerRows(journal) \subseteq DOMAIN journal
        /\ DOMAIN journal = 1..Len(journal) /\ Len(journal) \in Nat
    BY <1>1, <1>4, <2>1, RowAdded
  <2>3. \A i \in MarkerRows(journal) : journal[i].id # row.id
    BY <1>4 DEF NewMarker, Committed
  <2>4. PICK n \in IntentRows(journal) : journal[n].id = row.id
    BY <1>4 DEF NewMarker, Intended
  <2>5. n < Len(journal) + 1
    BY <2>2
  <2>6. HasHighest(Committed(journal'))
    <3>1. Committed(journal) \subseteq Nat /\ row.id \in Nat
      BY <1>1, <2>1, Names
    <3>2. QED  BY <2>2, <3>1, HighestGrows DEF JournalInv
  <2>7. \A i \in MarkerRows(journal') : \E k \in IntentRows(journal') :
           k < i /\ journal'[k].id = journal'[i].id
    <3>1. \A i \in MarkerRows(journal) : \E k \in IntentRows(journal) :
           k < i /\ journal[k].id = journal[i].id
      BY DEF JournalInv
    <3>2. QED  BY <2>2, <2>4, <2>5, <3>1
  <2>8. QED  BY <2>2, <2>3, <2>6, <2>7 DEF JournalInv
<1>5. QED  BY <1>2, <1>3, <1>4 DEF FileStep, fileVars

-----------------------------------------------------------------------------
(* The cache and the pending entries through a step.                        *)

\* What a scan caches is true of the file it scanned.
LEMMA ScannedExact ==
  ASSUME TypeOK, JournalInv
  PROVE  Exact(Scanned, size, health, journal)
<1>1. Intended(journal) \subseteq Nat /\ Committed(journal) \subseteq Nat
  BY Names DEF TypeOK
<1>2. Highest(Intended(journal)) \in Nat /\ Highest(Committed(journal)) \in Nat
  BY <1>1, HighestIs DEF JournalInv
<1>3. QED  BY <1>2 DEF Exact, Scanned, Proofs, TypeOK

\* A cached proof whose signature is the file's is true of the file.
LEMMA ValidExact ==
  ASSUME CacheInv, NEW p \in Proc, Valid(p)
  PROVE  Exact(proof[p], size, health, journal)
BY DEF CacheInv, Valid

\* After a writer's own row the grown proof describes the grown file.
LEMMA GrownExact ==
  ASSUME TypeOK, JournalInv, NEW base, Exact(base, size, health, journal),
         NEW row \in Row, WriteRow(row)
  PROVE  /\ NewIntent(row) =>
              Exact(Grown(base, row.id, 0), size', health', journal')
         /\ NewMarker(row) =>
              Exact(Grown(base, 0, row.id), size', health', journal')
<1>1. CASE base = NoProof
  BY <1>1 DEF Grown, Exact
<1>2. CASE base # NoProof
  <2>1. /\ base \in Proofs /\ base.size = size /\ health = "sound"
        /\ base.high = Highest(Intended(journal))
        /\ base.committedHigh = Highest(Committed(journal))
        /\ base.high \in Nat /\ base.committedHigh \in Nat /\ size \in Nat
    BY <1>2 DEF Exact, Proofs
  <2>2. journal' = Append(journal, row) /\ size' = size + 1 /\ health' = "sound"
    BY <2>1 DEF WriteRow
  <2>3. /\ Intended(journal) \in SUBSET Nat /\ Committed(journal) \in SUBSET Nat
        /\ row.id \in Nat
    BY Names DEF TypeOK, Row
  <2>4. /\ Larger(base.high, 0) = base.high
        /\ Larger(base.committedHigh, 0) = base.committedHigh
    BY <2>1 DEF Larger
  <2>5. /\ Larger(base.high, row.id) \in Nat
        /\ Larger(base.committedHigh, row.id) \in Nat
        /\ size + 1 \in Nat
    BY <2>1, <2>3 DEF Larger
  <2>6. ASSUME NewIntent(row)
        PROVE  Exact(Grown(base, row.id, 0), size', health', journal')
    <3>1. row.op = "append"
      BY <2>6 DEF NewIntent
    <3>2. /\ Intended(journal') = Intended(journal) \cup {row.id}
          /\ Committed(journal') = Committed(journal)
      BY <2>2, <3>1, RowAdded DEF TypeOK
    <3>3. Highest(Intended(journal) \cup {row.id})
            = Larger(Highest(Intended(journal)), row.id)
      BY <2>3, HighestGrows DEF JournalInv
    <3>4. /\ Larger(base.high, row.id) = Highest(Intended(journal'))
          /\ Larger(base.committedHigh, 0) = Highest(Committed(journal'))
          /\ Larger(base.high, row.id) \in Nat
          /\ Larger(base.committedHigh, 0) \in Nat
      BY <2>1, <2>4, <2>5, <3>2, <3>3
    <3>5. Grown(base, row.id, 0) =
            [size |-> size + 1, high |-> Larger(base.high, row.id),
             committedHigh |-> Larger(base.committedHigh, 0)]
      BY <1>2 DEF Grown
    <3>6. QED  BY <2>2, <2>5, <3>4, <3>5 DEF Exact, Proofs
  <2>7. ASSUME NewMarker(row)
        PROVE  Exact(Grown(base, 0, row.id), size', health', journal')
    <3>1. row.op = "commit"
      BY <2>7 DEF NewMarker
    <3>2. /\ Intended(journal') = Intended(journal)
          /\ Committed(journal') = Committed(journal) \cup {row.id}
      BY <2>2, <3>1, RowAdded DEF TypeOK
    <3>3. Highest(Committed(journal) \cup {row.id})
            = Larger(Highest(Committed(journal)), row.id)
      BY <2>3, HighestGrows DEF JournalInv
    <3>4. /\ Larger(base.high, 0) = Highest(Intended(journal'))
          /\ Larger(base.committedHigh, row.id) = Highest(Committed(journal'))
          /\ Larger(base.high, 0) \in Nat
          /\ Larger(base.committedHigh, row.id) \in Nat
      BY <2>1, <2>4, <2>5, <3>2, <3>3
    <3>5. Grown(base, 0, row.id) =
            [size |-> size + 1, high |-> Larger(base.high, 0),
             committedHigh |-> Larger(base.committedHigh, row.id)]
      BY <1>2 DEF Grown
    <3>6. QED  BY <2>2, <2>5, <3>4, <3>5 DEF Exact, Proofs
  <2>8. QED  BY <2>6, <2>7
<1>3. QED  BY <1>1, <1>2

ProofStep == \A p \in Proc :
    \/ proof'[p] = NoProof
    \/ proof'[p] = proof[p]
    \/ Exact(proof'[p], size', health', journal')

PendingStep == \A t \in Thread :
    \/ pending'[t] = 0 /\ (pc'[t] # "idle" => cur'[t] \in Op)
    \/ /\ pending'[t] = pending[t]
       /\ pc[t] # "idle" /\ pc'[t] # "idle" /\ cur'[t] = cur[t]
    \/ /\ pending'[t] = size'
       /\ pc'[t] # "idle" /\ cur'[t] \in Op
       /\ Stamp[cur'[t]] \in Intended(journal') \ Committed(journal')

TodoStep == \A p \in Proc : todo'[p] \subseteq IntentRows(journal)

\* What every action establishes is enough for the invariant.
LEMMA StepKeepsIInv ==
  ASSUME IInv, TypeOK', NEW row,
         \/ UNCHANGED fileVars
         \/ FileStep(row) /\ (NewIntent(row) \/ NewMarker(row)),
         ProofStep, PendingStep, TodoStep
  PROVE  IInv'
<1>1. JournalInv'
  <2>1. CASE UNCHANGED fileVars
    BY <2>1 DEF JournalInv, IInv, fileVars
  <2>2. CASE FileStep(row) /\ (NewIntent(row) \/ NewMarker(row))
    BY <2>2, JournalKept, NewRows DEF IInv
  <2>3. QED  BY <2>1, <2>2
<1>2. /\ size \in Nat /\ size' \in Nat /\ size <= size'
      /\ size' = size => UNCHANGED fileVars
      /\ Intended(journal) \subseteq Intended(journal')
      /\ IntentRows(journal) \subseteq IntentRows(journal')
  BY FileTypes, NewRows DEF IInv, TypeOK
<1>3. CacheInv'
  <2> SUFFICES ASSUME NEW p \in Proc, proof'[p] # NoProof
               PROVE  /\ proof'[p].size <= size'
                      /\ proof'[p].size = size' =>
                           Exact(proof'[p], size', health', journal')
    BY DEF CacheInv
  <2>1. CASE proof'[p] = proof[p]
    <3>1. /\ proof[p].size <= size /\ proof[p].size \in Nat
          /\ proof[p].size = size => Exact(proof[p], size, health, journal)
      BY <2>1 DEF IInv, CacheInv, TypeOK, Proofs
    <3>2. proof[p].size <= size'
      BY <1>2, <3>1
    <3>3. ASSUME proof[p].size = size'
          PROVE  Exact(proof[p], size', health', journal')
      <4>1. size' = size /\ proof[p].size = size
        BY <1>2, <3>1, <3>3
      <4>2. journal' = journal /\ health' = health
        BY <1>2, <4>1 DEF fileVars
      <4>3. QED  BY <3>1, <4>1, <4>2
    <3>4. QED  BY <2>1, <3>2, <3>3
  <2>2. CASE Exact(proof'[p], size', health', journal')
    BY <1>2, <2>2 DEF Exact
  <2>3. QED  BY <2>1, <2>2 DEF ProofStep
<1>4. PendingInv'
  <2> SUFFICES ASSUME NEW t \in Thread
               PROVE  /\ pc'[t] # "idle" => cur'[t] \in Op
                      /\ pending'[t] # 0 =>
                           /\ pc'[t] # "idle"
                           /\ pending'[t] <= size'
                           /\ Stamp[cur'[t]] \in Intended(journal')
                           /\ pending'[t] = size' =>
                                Stamp[cur'[t]] \notin Committed(journal')
    BY DEF PendingInv
  <2>1. CASE pending'[t] = 0 /\ (pc'[t] # "idle" => cur'[t] \in Op)
    BY <2>1
  <2>2. CASE /\ pending'[t] = pending[t]
             /\ pc[t] # "idle" /\ pc'[t] # "idle" /\ cur'[t] = cur[t]
    <3>1. /\ cur[t] \in Op
          /\ pending[t] # 0 =>
               /\ pending[t] <= size
               /\ Stamp[cur[t]] \in Intended(journal)
               /\ pending[t] = size => Stamp[cur[t]] \notin Committed(journal)
      BY <2>2 DEF IInv, PendingInv
    <3>2. pending[t] \in Nat
      BY DEF IInv, TypeOK
    <3>3. ASSUME pending[t] # 0, pending[t] = size'
          PROVE  Stamp[cur[t]] \notin Committed(journal')
      <4>1. size' = size
        BY <1>2, <3>1, <3>2, <3>3
      <4>2. journal' = journal
        BY <1>2, <4>1 DEF fileVars
      <4>3. QED  BY <3>1, <3>3, <4>1, <4>2
    <3>4. pending[t] # 0 => pending[t] <= size'
      BY <1>2, <3>1, <3>2
    <3>5. QED  BY <1>2, <2>2, <3>1, <3>3, <3>4
  <2>3. CASE /\ pending'[t] = size'
             /\ pc'[t] # "idle" /\ cur'[t] \in Op
             /\ Stamp[cur'[t]] \in Intended(journal') \ Committed(journal')
    BY <1>2, <2>3
  <2>4. QED  BY <2>1, <2>2, <2>3 DEF PendingStep
<1>5. TodoInv'
  BY <1>2 DEF TodoStep, TodoInv
<1>6. QED  BY <1>1, <1>3, <1>4, <1>5 DEF IInv

-----------------------------------------------------------------------------
(* The actions keep the invariant.                                          *)

\* Caching a true proof, or none, is an admissible change of the cache.
LEMMA Remembered ==
  ASSUME TypeOK, NEW p \in Proc, NEW v, Remember(p, v),
         v = NoProof \/ Exact(v, size', health', journal')
  PROVE  /\ proof' \in [Proc -> Proofs \cup {NoProof}]
         /\ ProofStep
BY DEF TypeOK, Remember, ProofStep, Exact

\* So is leaving the cache alone.
LEMMA ProofUnchanged ==
  ASSUME TypeOK, UNCHANGED proof
  PROVE  proof' \in [Proc -> Proofs \cup {NoProof}] /\ ProofStep
BY DEF TypeOK, ProofStep

\* A new lineage leaves other processes' pending entries and no others.
LEMMA NewLineagePending ==
  ASSUME TypeOK, PendingInv, NEW p \in Proc, NewLineage(p),
         \A t \in Thread : ProcOf[t] # p => pc'[t] = pc[t] /\ cur'[t] = cur[t],
         \A t \in Thread : pc'[t] # "idle" => cur'[t] \in Op
  PROVE  pending' \in [Thread -> Nat] /\ PendingStep
<1>1. pending' \in [Thread -> Nat]
  BY DEF NewLineage, TypeOK
<1>2. ASSUME NEW t \in Thread, ProcOf[t] = p
      PROVE  pending'[t] = 0 /\ (pc'[t] # "idle" => cur'[t] \in Op)
  BY <1>2 DEF NewLineage
<1>3. ASSUME NEW t \in Thread, ProcOf[t] # p, pc[t] = "idle"
      PROVE  pending'[t] = 0 /\ (pc'[t] # "idle" => cur'[t] \in Op)
  BY <1>3 DEF NewLineage, PendingInv
<1>4. ASSUME NEW t \in Thread, ProcOf[t] # p, pc[t] # "idle"
      PROVE  /\ pending'[t] = pending[t]
             /\ pc[t] # "idle" /\ pc'[t] # "idle" /\ cur'[t] = cur[t]
  BY <1>4 DEF NewLineage
<1>5. QED  BY <1>1, <1>2, <1>3, <1>4 DEF PendingStep

\* Intent and marker rows have the types of rows.
LEMMA Rows ==
  /\ \A o \in Op : Intent(Stamp[o], DigestOf[o]) \in [op : {"append"}, id : Id, digest : Digest]
  /\ \A id \in Id : Marker(id) \in [op : {"commit"}, id : Id]
BY DEF Intent, Marker

\* The fast path of write_entry is right: the identifier is new.
LEMMA AbsentIsNew ==
  ASSUME IInv, NEW p \in Proc, NEW id \in Id, Absent(p, id)
  PROVE  id \notin Intended(journal)
<1>1. Exact(proof[p], size, health, journal) /\ proof[p] # NoProof
  BY ValidExact DEF IInv, Absent, Valid
<1>2. proof[p].high = Highest(Intended(journal)) /\ id > proof[p].high
  BY <1>1 DEF Exact, Absent
<1>3. Intended(journal) \subseteq Nat
  BY Names DEF IInv, TypeOK
<1>4. /\ Highest(Intended(journal)) \in Nat
      /\ \A y \in Intended(journal) : y <= Highest(Intended(journal))
  BY <1>3, HighestIs DEF IInv, JournalInv
<1>5. QED  BY <1>2, <1>3, <1>4

\* So is the fast path of commit_entry: the entry is there and uncommitted.
LEMMA PendingIsUncommitted ==
  ASSUME IInv, NEW t \in Thread, pc[t] = "commit", StillPending(t)
  PROVE  Stamp[cur[t]] \in Intended(journal) \ Committed(journal)
<1> DEFINE p == ProcOf[t]
           id == Stamp[cur[t]]
<1>1. /\ p \in Proc /\ Valid(p) /\ pending[t] # 0
      /\ pending[t] = size \/ id > proof[p].committedHigh
  BY DEF StillPending
<1>2. /\ cur[t] \in Op
      /\ id \in Intended(journal)
      /\ pending[t] = size => id \notin Committed(journal)
  BY <1>1 DEF IInv, PendingInv
<1>3. ASSUME id > proof[p].committedHigh
      PROVE  id \notin Committed(journal)
  <2>1. Exact(proof[p], size, health, journal) /\ proof[p] # NoProof
    BY <1>1, ValidExact DEF IInv, Valid
  <2>2. proof[p].committedHigh = Highest(Committed(journal))
    BY <2>1 DEF Exact
  <2>3. Committed(journal) \subseteq Nat
    BY Names DEF IInv, TypeOK
  <2>4. /\ Highest(Committed(journal)) \in Nat
        /\ \A y \in Committed(journal) : y <= Highest(Committed(journal))
    BY <2>3, HighestIs DEF IInv, JournalInv
  <2>5. QED  BY <1>2, <1>3, <2>2, <2>3, <2>4
<1>4. QED  BY <1>1, <1>2, <1>3

\* write_entry appends a row on its fast path or after a scan.
LEMMA IntentWritten ==
  ASSUME IInv, NEW t \in Thread, NEW o \in Op,
         IntentFast(t, o) \/ IntentScan(t, o)
  PROVE  IInv'
<1> DEFINE p == ProcOf[t]
           row == Intent(Stamp[o], DigestOf[o])
           base == IF Absent(p, Stamp[o]) THEN proof[p] ELSE Scanned
<1>1. /\ Begins(t, o) /\ Journalled(t, o) /\ UNCHANGED budgetVars
      /\ WriteRow(row) /\ Remember(p, Grown(base, Stamp[o], 0))
      /\ Stamp[o] \notin Intended(journal)
  BY AbsentIsNew DEF IntentFast, IntentScan
<1>2. p \in Proc /\ row \in Row /\ NewIntent(row) /\ row.id = Stamp[o] /\ Stamp[o] \in Id
  BY <1>1, Rows DEF Row, NewIntent, Intent
<1>3. Exact(base, size, health, journal)
  BY ValidExact, ScannedExact DEF Absent, IInv
<1>4. Exact(Grown(base, Stamp[o], 0), size', health', journal')
  BY <1>1, <1>2, <1>3, GrownExact DEF IInv
<1>5. proof' \in [Proc -> Proofs \cup {NoProof}] /\ ProofStep
  BY <1>1, <1>2, <1>4, Remembered DEF IInv
<1>6. FileStep(row)
  BY <1>1, <1>2, FailIsFileStep DEF FailRow, IInv
<1>7. base # NoProof =>
        /\ journal' = Append(journal, row) /\ size' = size + 1
        /\ Stamp[o] \in Intended(journal') \ Committed(journal')
  <2> SUFFICES ASSUME base # NoProof
               PROVE  /\ journal' = Append(journal, row) /\ size' = size + 1
                      /\ Stamp[o] \in Intended(journal') \ Committed(journal')
    OBVIOUS
  <2>1. health = "sound"
    BY <1>3 DEF Exact
  <2>2. journal' = Append(journal, row) /\ size' = size + 1
    BY <1>1, <2>1 DEF WriteRow
  <2>3. Intended(journal') = Intended(journal) \cup {Stamp[o]}
        /\ Committed(journal') = Committed(journal)
    BY <1>2, <2>2, RowAdded DEF IInv, TypeOK, Intent
  <2>4. Committed(journal) \subseteq Intended(journal)
    BY DEF IInv, JournalInv, Committed, Intended
  <2>5. QED  BY <1>1, <2>2, <2>3, <2>4
<1>8. pending' \in [Thread -> Nat] /\ PendingStep
  <2>1. \A u \in Thread \ {t} : pc'[u] = pc[u] /\ cur'[u] = cur[u]
    BY <1>1 DEF Journalled, IInv, TypeOK
  <2>2. pc'[t] = "apply" /\ cur'[t] = o
    BY <1>1 DEF Journalled, IInv, TypeOK
  <2>3. /\ \A u \in Thread \ {t} : pending'[u] \in {0, pending[u]}
        /\ pending'[t] = 0 \/ (base # NoProof /\ pending'[t] = size + 1)
        /\ pending' \in [Thread -> Nat]
    <3>1. size \in Nat /\ pending \in [Thread -> Nat]
      BY DEF IInv, TypeOK
    <3>2. CASE Absent(p, Stamp[o])
      <4>1. pending' = [pending EXCEPT ![t] = size + 1]
        BY <3>2 DEF IntentFast, IntentScan
      <4>2. base # NoProof
        BY <3>2 DEF Absent, Valid
      <4>3. QED  BY <3>1, <4>1, <4>2
    <3>3. CASE ~Absent(p, Stamp[o])
      <4>1. IntentScan(t, o) /\ base = Scanned
        BY <3>3 DEF IntentFast
      <4> DEFINE rest == [u \in Thread |-> IF ProcOf[u] = p THEN 0 ELSE pending[u]]
      <4>2. pending' = IF Scanned = NoProof THEN rest
                       ELSE [rest EXCEPT ![t] = size + 1]
        BY <4>1 DEF IntentScan
      <4>3. rest \in [Thread -> Nat] /\ rest[t] = 0
            /\ \A u \in Thread : rest[u] \in {0, pending[u]}
        BY <3>1
      <4> HIDE DEF rest
      <4>4. QED  BY <3>1, <4>1, <4>2, <4>3
    <3>4. QED  BY <3>2, <3>3
  <2>4. \A u \in Thread : pc[u] # "idle" => cur[u] \in Op
    BY DEF IInv, PendingInv
  <2>5. \A u \in Thread \ {t} : pc[u] = "idle" => pending[u] = 0
    BY DEF IInv, PendingInv
  <2>6. QED  BY <1>7, <2>1, <2>2, <2>3, <2>4, <2>5 DEF PendingStep
<1>9. TodoStep
  BY <1>1 DEF Begins, replayVars, TodoStep, IInv, TodoInv
<1>10. TypeOK'
  <2>1. journal' \in Seq(Row) /\ size' \in Nat
        /\ health' \in {"sound", "unterminated", "corrupt"}
    BY <1>2, <1>6, FileTypes DEF IInv
  <2>2. QED
    BY <1>1, <1>5, <1>8, <2>1
       DEF IInv, TypeOK, Begins, Journalled, lineVars, replayVars, budgetVars
<1>11. QED
  BY <1>2, <1>5, <1>6, <1>8, <1>9, <1>10, StepKeepsIInv

\* write_entry returns an identifier it finds, or raises, without writing.
LEMMA IntentNotWritten ==
  ASSUME IInv, NEW t \in Thread, NEW o \in Op,
         IntentRepeated(t, o) \/ IntentRefused(t, o)
  PROVE  IInv'
<1> DEFINE p == ProcOf[t]
<1>1. /\ p \in Proc
      /\ Begins(t, o) /\ NewLineage(p) /\ UNCHANGED <<fileVars, budgetVars>>
      /\ Remember(p, Scanned) \/ Remember(p, NoProof)
      /\ Journalled(t, o) \/ UNCHANGED threadVars
  BY DEF IntentRepeated, IntentRefused
<1>2. Exact(Scanned, size', health', journal')
  BY <1>1, ScannedExact DEF IInv, fileVars
<1>3. proof' \in [Proc -> Proofs \cup {NoProof}] /\ ProofStep
  BY <1>1, <1>2, Remembered DEF IInv
<1>4. pending' \in [Thread -> Nat] /\ PendingStep
  <2>1. \A u \in Thread : ProcOf[u] # p => pc'[u] = pc[u] /\ cur'[u] = cur[u]
    BY <1>1 DEF Journalled, threadVars, IInv, TypeOK
  <2>2. \A u \in Thread : pc'[u] # "idle" => cur'[u] \in Op
    BY <1>1 DEF Journalled, threadVars, IInv, TypeOK, PendingInv
  <2>3. QED  BY <1>1, <2>1, <2>2, NewLineagePending DEF IInv
<1>5. TodoStep
  BY <1>1 DEF Begins, replayVars, TodoStep, IInv, TodoInv
<1>6. TypeOK'
  <2>1. pc' \in [Thread -> {"idle", "apply", "commit"}]
        /\ cur' \in [Thread -> Op \cup {NoOp}]
    <3>1. CASE Journalled(t, o)
      BY <3>1 DEF IInv, TypeOK, Journalled
    <3>2. CASE UNCHANGED threadVars
      BY <3>2 DEF IInv, TypeOK, threadVars
    <3>3. QED  BY <1>1, <3>1, <3>2
  <2>2. QED
    BY <1>1, <1>3, <1>4, <2>1
       DEF IInv, TypeOK, Begins, fileVars, lineVars, replayVars, budgetVars
<1>7. QED  BY <1>1, <1>3, <1>4, <1>5, <1>6, StepKeepsIInv

\* A write that fails leaves no proof, and a row the scan can judge.
LEMMA FailedWrite ==
  ASSUME IInv, NEW p \in Proc, NEW row, NewIntent(row) \/ NewMarker(row),
         FailRow(row), Remember(p, NoProof), NewLineage(p),
         \A t \in Thread : ProcOf[t] # p => pc'[t] = pc[t] /\ cur'[t] = cur[t],
         \A t \in Thread : pc'[t] # "idle" => cur'[t] \in Op
  PROVE  /\ FileStep(row) /\ ProofStep /\ PendingStep
         /\ journal' \in Seq(Row) /\ size' \in Nat
         /\ health' \in {"sound", "unterminated", "corrupt"}
         /\ pending' \in [Thread -> Nat]
         /\ proof' \in [Proc -> Proofs \cup {NoProof}]
<1>1. row \in Row /\ FileStep(row)
  BY NewRows, FailIsFileStep DEF IInv
<1>2. QED
  BY <1>1, FileTypes, Remembered, NewLineagePending DEF IInv

\* write_entry fails while it writes.
LEMMA IntentNotFinished ==
  ASSUME IInv, NEW t \in Thread, NEW o \in Op, IntentFails(t, o)
  PROVE  IInv'
<1> DEFINE p == ProcOf[t]
           row == Intent(Stamp[o], DigestOf[o])
<1>1. /\ p \in Proc /\ Stamp[o] \in Id
      /\ Begins(t, o) /\ FailRow(row) /\ Remember(p, NoProof) /\ NewLineage(p)
      /\ Fault /\ UNCHANGED threadVars
      /\ Stamp[o] \notin Intended(journal)
  BY AbsentIsNew DEF IntentFails
<1>2. NewIntent(row)
  BY <1>1, Rows DEF NewIntent, Intent
<1>3. \A u \in Thread : /\ pc'[u] = pc[u] /\ cur'[u] = cur[u]
                        /\ pc[u] # "idle" => cur[u] \in Op
  BY <1>1 DEF threadVars, IInv, PendingInv
<1> HIDE DEF row
<1>4. /\ FileStep(row) /\ ProofStep /\ PendingStep
      /\ journal' \in Seq(Row) /\ size' \in Nat
      /\ health' \in {"sound", "unterminated", "corrupt"}
      /\ pending' \in [Thread -> Nat]
      /\ proof' \in [Proc -> Proofs \cup {NoProof}]
  BY <1>1, <1>2, <1>3, FailedWrite
<1>5. TodoStep
  BY <1>1 DEF Begins, replayVars, TodoStep, IInv, TodoInv
<1>6. TypeOK'
  BY <1>1, <1>4
     DEF IInv, TypeOK, Begins, threadVars, lineVars, replayVars, Fault
<1>7. QED  BY <1>2, <1>4, <1>5, <1>6, StepKeepsIInv

\* The line is written, or fails to be.
LEMMA LineWritten ==
  ASSUME IInv, NEW t \in Thread, ApplyLine(t) \/ ApplyFails(t)
  PROVE  IInv'
<1>1. cur[t] \in Op
  BY DEF ApplyLine, ApplyFails, IInv, PendingInv
<1>2. /\ pc[t] = "apply"
      /\ UNCHANGED <<fileVars, acked, started, proof, replayVars>>
      /\ pc' \in [Thread -> {"idle", "apply", "commit"}]
      /\ cur' \in [Thread -> Op \cup {NoOp}]
      /\ pending' \in [Thread -> Nat]
      /\ \A u \in Thread \ {t} :
           pc'[u] = pc[u] /\ cur'[u] = cur[u] /\ pending'[u] = pending[u]
      /\ \/ pc'[t] = "commit" /\ cur'[t] = cur[t] /\ pending'[t] = pending[t]
         \/ pc'[t] = "idle" /\ pending'[t] = 0
      /\ crashes' \in 0..MaxCrashes /\ faults' \in 0..MaxFaults
      /\ evictions' \in 0..MaxEvictions
  <2>1. CASE ApplyLine(t)
    BY <2>1 DEF ApplyLine, budgetVars, IInv, TypeOK
  <2>2. CASE ApplyFails(t)
    BY <2>2 DEF ApplyFails, Returns, Fault, IInv, TypeOK
  <2>3. QED  BY <2>1, <2>2
<1>3. logged' \subseteq Op /\ copies' \in [Id -> Nat] /\ ragged' \in BOOLEAN
      /\ present' \in BOOLEAN
  BY <1>1 DEF ApplyLine, ApplyFails, FailLine, NoLine, WriteLine, TearLine,
              IInv, TypeOK
<1>4. PendingStep
  BY <1>1, <1>2 DEF PendingStep, IInv, PendingInv
<1>5. ProofStep /\ TodoStep
  BY <1>2 DEF ProofStep, TodoStep, IInv, TodoInv, replayVars
<1>6. TypeOK'
  BY <1>2, <1>3 DEF IInv, TypeOK, fileVars, replayVars
<1>7. QED  BY <1>2, <1>4, <1>5, <1>6, StepKeepsIInv

\* commit_entry appends a marker on its fast path or after a scan.
LEMMA CommitWritten ==
  ASSUME IInv, NEW t \in Thread, CommitFast(t) \/ CommitScan(t)
  PROVE  IInv'
<1> DEFINE p == ProcOf[t]
           id == Stamp[cur[t]]
           row == Marker(id)
           base == IF StillPending(t) THEN proof[p] ELSE Scanned
<1>1. /\ Commits(t) /\ Acks(t) /\ UNCHANGED budgetVars
      /\ WriteRow(row) /\ Remember(p, Grown(base, 0, id))
      /\ id \in Intended(journal) \ Committed(journal)
  BY PendingIsUncommitted DEF CommitFast, CommitScan, Commits
<1>2. cur[t] \in Op /\ p \in Proc /\ id \in Id
  BY <1>1 DEF Commits, IInv, PendingInv
<1>3. row \in Row /\ NewMarker(row) /\ row.id = id
  BY <1>1, <1>2, Rows DEF Row, NewMarker, Marker
<1>4. Exact(base, size, health, journal)
  BY <1>2, ValidExact, ScannedExact DEF StillPending, IInv
<1>5. Exact(Grown(base, 0, id), size', health', journal')
  BY <1>1, <1>3, <1>4, GrownExact DEF IInv
<1>6. proof' \in [Proc -> Proofs \cup {NoProof}] /\ ProofStep
  BY <1>1, <1>2, <1>5, Remembered DEF IInv
<1>7. FileStep(row)
  BY <1>1, <1>3, FailIsFileStep DEF FailRow, IInv
<1>8. pending' \in [Thread -> Nat] /\ PendingStep
  <2>1. /\ \A u \in Thread \ {t} : pc'[u] = pc[u] /\ cur'[u] = cur[u]
        /\ pc'[t] = "idle"
    BY <1>1 DEF Commits, Returns, IInv, TypeOK
  <2>2. \A u \in Thread : /\ pc[u] # "idle" => cur[u] \in Op
                          /\ pc[u] = "idle" => pending[u] = 0
    BY DEF IInv, PendingInv
  <2>3. /\ pending' \in [Thread -> Nat] /\ pending'[t] = 0
        /\ \A u \in Thread : pending'[u] \in {0, pending[u]}
    <3>1. CASE NewLineage(p)
      BY <3>1 DEF NewLineage, IInv, TypeOK
    <3>2. CASE pending' = [pending EXCEPT ![t] = 0]
      BY <3>2 DEF IInv, TypeOK
    <3>3. QED  BY <3>1, <3>2 DEF CommitFast, CommitScan
  <2>4. QED  BY <2>1, <2>2, <2>3 DEF PendingStep
<1>9. TodoStep
  BY <1>1 DEF Commits, replayVars, TodoStep, IInv, TodoInv
<1>10. TypeOK'
  <2>1. journal' \in Seq(Row) /\ size' \in Nat
        /\ health' \in {"sound", "unterminated", "corrupt"}
    BY <1>3, <1>7, FileTypes DEF IInv
  <2>2. QED
    BY <1>1, <1>2, <1>6, <1>8, <2>1
       DEF IInv, TypeOK, Commits, Returns, Acks, lineVars, replayVars, budgetVars
<1>11. QED
  BY <1>3, <1>6, <1>7, <1>8, <1>9, <1>10, StepKeepsIInv

\* commit_entry finds the marker, is refused or cannot take the lock.
LEMMA CommitNotWritten ==
  ASSUME IInv, NEW t \in Thread,
         CommitFound(t) \/ CommitRefused(t) \/ CommitTimesOut(t)
  PROVE  IInv'
<1> DEFINE p == ProcOf[t]
<1>1. Commits(t) /\ UNCHANGED fileVars /\ p \in Proc
  BY DEF CommitFound, CommitRefused, CommitTimesOut
<1>2. /\ \A u \in Thread \ {t} : pc'[u] = pc[u] /\ cur'[u] = cur[u]
      /\ pc'[t] = "idle" /\ cur[t] \in Op
  BY <1>1 DEF Commits, Returns, IInv, TypeOK, PendingInv
<1>3. \A u \in Thread : /\ pc[u] # "idle" => cur[u] \in Op
                        /\ pc[u] = "idle" => pending[u] = 0
  BY DEF IInv, PendingInv
<1>4. Exact(Scanned, size', health', journal')
  BY <1>1, ScannedExact DEF IInv, fileVars
<1>5. proof' \in [Proc -> Proofs \cup {NoProof}] /\ ProofStep
  <2>1. CASE Remember(p, Scanned) \/ Remember(p, NoProof)
    BY <1>1, <1>4, <2>1, Remembered DEF IInv
  <2>2. CASE UNCHANGED proof
    BY <2>2, ProofUnchanged DEF IInv
  <2>3. QED  BY <2>1, <2>2 DEF CommitFound, CommitRefused, CommitTimesOut
<1>6. /\ pending' \in [Thread -> Nat] /\ pending'[t] = 0
      /\ \A u \in Thread : pending'[u] \in {0, pending[u]}
  <2>1. CASE NewLineage(p)
    BY <2>1 DEF NewLineage, IInv, TypeOK
  <2>2. CASE pending' = [pending EXCEPT ![t] = 0]
    BY <2>2 DEF IInv, TypeOK
  <2>3. QED  BY <2>1, <2>2 DEF CommitFound, CommitRefused, CommitTimesOut
<1>7. PendingStep
  BY <1>2, <1>3, <1>6 DEF PendingStep
<1>8. TodoStep
  BY <1>1 DEF Commits, replayVars, TodoStep, IInv, TodoInv
<1>9. acked' \subseteq Op /\ crashes' \in 0..MaxCrashes
      /\ faults' \in 0..MaxFaults /\ evictions' \in 0..MaxEvictions
  BY <1>2 DEF CommitFound, CommitRefused, CommitTimesOut, Acks, Fault, budgetVars,
       IInv, TypeOK
<1>10. TypeOK'
  BY <1>1, <1>5, <1>6, <1>9
     DEF IInv, TypeOK, Commits, Returns, fileVars, lineVars, replayVars
<1>11. QED  BY <1>1, <1>5, <1>7, <1>8, <1>10, StepKeepsIInv

\* commit_entry fails while it writes.
LEMMA CommitNotFinished ==
  ASSUME IInv, NEW t \in Thread, CommitFails(t)
  PROVE  IInv'
<1> DEFINE p == ProcOf[t]
           row == Marker(Stamp[cur[t]])
<1>1. /\ Commits(t) /\ p \in Proc /\ UNCHANGED acked /\ Fault
      /\ FailRow(row) /\ Remember(p, NoProof) /\ NewLineage(p)
      /\ Stamp[cur[t]] \in Intended(journal) \ Committed(journal)
  BY PendingIsUncommitted DEF CommitFails, Commits
<1>2. cur[t] \in Op
  BY <1>1 DEF Commits, IInv, PendingInv
<1>3. NewMarker(row)
  BY <1>1, <1>2, Rows DEF NewMarker, Marker
<1>4. /\ \A u \in Thread : u # t => pc'[u] = pc[u] /\ cur'[u] = cur[u]
      /\ pc'[t] = "idle"
      /\ \A u \in Thread : pc[u] # "idle" => cur[u] \in Op
  BY <1>1 DEF Commits, Returns, IInv, TypeOK, PendingInv
<1> HIDE DEF row
<1>5. /\ FileStep(row) /\ ProofStep /\ PendingStep
      /\ journal' \in Seq(Row) /\ size' \in Nat
      /\ health' \in {"sound", "unterminated", "corrupt"}
      /\ pending' \in [Thread -> Nat]
      /\ proof' \in [Proc -> Proofs \cup {NoProof}]
  BY <1>1, <1>3, <1>4, FailedWrite
<1>6. TodoStep
  BY <1>1 DEF Commits, replayVars, TodoStep, IInv, TodoInv
<1>7. TypeOK'
  <2>1. pc' \in [Thread -> {"idle", "apply", "commit"}]
        /\ cur' \in [Thread -> Op \cup {NoOp}]
    BY <1>1 DEF IInv, TypeOK, Commits, Returns
  <2>2. faults' \in 0..MaxFaults /\ crashes' \in 0..MaxCrashes
        /\ evictions' \in 0..MaxEvictions
    BY <1>1 DEF IInv, TypeOK, Fault
  <2>3. QED
    BY <1>1, <1>5, <2>1, <2>2 DEF IInv, TypeOK, Commits, lineVars, replayVars
<1>8. QED  BY <1>3, <1>5, <1>6, <1>7, StepKeepsIInv

\* Steps of the replays leave the threads where they are.
LEMMA ThreadsStay ==
  ASSUME IInv, UNCHANGED threadVars
  PROVE  /\ pc' \in [Thread -> {"idle", "apply", "commit"}]
         /\ cur' \in [Thread -> Op \cup {NoOp}]
         /\ \A t \in Thread : /\ pc'[t] = pc[t] /\ cur'[t] = cur[t]
                              /\ pc'[t] # "idle" => cur'[t] \in Op
         /\ UNCHANGED pending =>
               pending' \in [Thread -> Nat] /\ PendingStep
BY DEF threadVars, IInv, TypeOK, PendingInv, PendingStep

\* A replay reads the uncommitted entries.
LEMMA ReplayRead ==
  ASSUME IInv, NEW p \in Proc, StartReplay(p)
  PROVE  IInv'
<1>1. /\ ReplayOnly /\ UNCHANGED <<fileVars, lineVars, budgetVars>>
      /\ passes[p] > 0 /\ passes' = [passes EXCEPT ![p] = @ - 1]
  BY DEF StartReplay
<1>2. Exact(Scanned, size', health', journal')
  BY <1>1, ScannedExact DEF IInv, fileVars
<1>3. proof' \in [Proc -> Proofs \cup {NoProof}] /\ ProofStep
  <2>1. CASE Remember(p, Scanned) \/ Remember(p, NoProof)
    BY <1>2, <2>1, Remembered DEF IInv
  <2>2. CASE UNCHANGED proof
    BY <2>2, ProofUnchanged DEF IInv
  <2>3. QED  BY <2>1, <2>2 DEF StartReplay
<1>4. pending' \in [Thread -> Nat] /\ PendingStep
  <2>1. UNCHANGED threadVars
    BY <1>1 DEF ReplayOnly
  <2>2. CASE NewLineage(p)
    BY <2>1, <2>2, ThreadsStay, NewLineagePending DEF IInv
  <2>3. CASE UNCHANGED pending
    BY <2>1, <2>3, ThreadsStay
  <2>4. QED  BY <2>2, <2>3 DEF StartReplay
<1>5. /\ todo' \in [Proc -> SUBSET (Nat \ {0})]
      /\ rpc' \in [Proc -> {"idle", "apply", "commit"}]
      /\ TodoStep
  <2>1. Uncommitted(journal) \subseteq IntentRows(journal)
    BY DEF Uncommitted
  <2>2. IntentRows(journal) \subseteq Nat \ {0}
    <3>1. IntentRows(journal) \subseteq 1..Len(journal) /\ Len(journal) \in Nat
      BY Names DEF IInv, TypeOK
    <3>2. QED  BY <3>1
  <2>3. /\ todo \in [Proc -> SUBSET (Nat \ {0})]
        /\ rpc \in [Proc -> {"idle", "apply", "commit"}]
        /\ \A q \in Proc : todo[q] \subseteq IntentRows(journal)
    BY DEF IInv, TypeOK, TodoInv
  <2>4. CASE UNCHANGED <<todo, rpc>>
    BY <2>3, <2>4 DEF TodoStep
  <2>5. CASE /\ todo' = [todo EXCEPT ![p] = Uncommitted(journal)]
             /\ rpc' = [rpc EXCEPT ![p] = IF Uncommitted(journal) = {}
                                          THEN "idle" ELSE "apply"]
    BY <2>1, <2>2, <2>3, <2>5 DEF TodoStep
  <2>6. QED  BY <2>4, <2>5 DEF StartReplay
<1>6. passes' \in [Proc -> 0..ReplayPasses]
  BY <1>1 DEF IInv, TypeOK
<1>7. TypeOK'
  BY <1>1, <1>3, <1>4, <1>5, <1>6
     DEF IInv, TypeOK, ReplayOnly, threadVars, fileVars, lineVars, budgetVars
<1>8. QED  BY <1>1, <1>3, <1>4, <1>5, <1>7, StepKeepsIInv

\* A replay names entries of the journal.
LEMMA TodoNames ==
  ASSUME IInv, NEW p \in Proc, NEW i \in todo[p]
  PROVE  journal[i].id \in Id /\ journal[i].id \in Intended(journal)
<1>1. i \in IntentRows(journal)
  BY DEF IInv, TodoInv
<1>2. journal[i].id \in Intended(journal)
  BY <1>1 DEF Intended
<1>3. Intended(journal) \subseteq Id
  BY Names DEF IInv, TypeOK
<1>4. QED  BY <1>2, <1>3

\* A line added by a replay keeps the log typed.
LEMMA CopyTypes ==
  ASSUME TypeOK, NEW id \in Id, WriteCopy(id)
  PROVE  logged' \subseteq Op /\ copies' \in [Id -> Nat] /\ ragged' \in BOOLEAN
      /\ present' \in BOOLEAN
<1>1. copies[id] \in Nat /\ copies \in [Id -> Nat] /\ logged \subseteq Op
  BY DEF TypeOK
<1>2. copies' \in [Id -> Nat]
  BY <1>1 DEF WriteCopy
<1>3. QED  BY <1>1, <1>2 DEF WriteCopy

\* A replay appends a line.
LEMMA ReplayApplied ==
  ASSUME IInv, NEW p \in Proc, ReplayApply(p)
  PROVE  IInv'
<1>1. PICK i \in todo[p] :
        /\ WriteCopy(journal[i].id) /\ ReplayOnly
        /\ rpc' = [rpc EXCEPT ![p] = "commit"]
        /\ UNCHANGED <<fileVars, pending, proof, todo, passes, budgetVars>>
  BY DEF ReplayApply
<1>2. journal[i].id \in Id
  BY TodoNames
<1>3. logged' \subseteq Op /\ copies' \in [Id -> Nat] /\ ragged' \in BOOLEAN
      /\ present' \in BOOLEAN
  BY <1>1, <1>2, CopyTypes DEF IInv
<1>4. PendingStep /\ ProofStep /\ TodoStep
  <2>1. UNCHANGED threadVars /\ UNCHANGED pending
    BY <1>1 DEF ReplayOnly
  <2>2. PendingStep
    BY <2>1, ThreadsStay
  <2>3. QED  BY <1>1, <2>2 DEF ProofStep, TodoStep, IInv, TodoInv
<1>5. TypeOK'
  BY <1>1, <1>3 DEF IInv, TypeOK, ReplayOnly, threadVars, fileVars, budgetVars
<1>6. QED  BY <1>1, <1>4, <1>5, StepKeepsIInv

\* The entries left to do stay rows of the journal.
LEMMA ProceedTypes ==
  ASSUME IInv, NEW p \in Proc, NEW i, Proceed(p, i)
  PROVE  /\ todo' \in [Proc -> SUBSET (Nat \ {0})]
         /\ rpc' \in [Proc -> {"idle", "apply", "commit"}]
         /\ passes' \in [Proc -> 0..ReplayPasses]
         /\ TodoStep
BY DEF Proceed, IInv, TypeOK, TodoInv, TodoStep

\* A replay commits an entry, or finds that it cannot or need not.
LEMMA ReplayCommitted ==
  ASSUME IInv, NEW p \in Proc, ReplayCommit(p)
  PROVE  IInv'
<1>1. PICK i \in todo[p] :
        LET id == journal[i].id IN
        /\ Proceed(p, i) /\ NewLineage(p)
        /\ ReplayOnly /\ UNCHANGED <<lineVars, budgetVars>>
        /\ \/ /\ id \notin Committed(journal)
              /\ WriteRow(Marker(id))
              /\ Remember(p, Grown(Scanned, 0, id))
           \/ /\ Remember(p, Scanned) \/ Remember(p, NoProof)
              /\ UNCHANGED fileVars
  BY DEF ReplayCommit
<1> DEFINE id == journal[i].id
           row == Marker(id)
<1>2. id \in Id /\ id \in Intended(journal)
  BY TodoNames
<1>3. /\ UNCHANGED threadVars
      /\ \A t \in Thread : /\ pc'[t] = pc[t] /\ cur'[t] = cur[t]
                           /\ pc'[t] # "idle" => cur'[t] \in Op
  BY <1>1, ThreadsStay DEF ReplayOnly
<1>4. pending' \in [Thread -> Nat] /\ PendingStep
  BY <1>1, <1>3, NewLineagePending DEF IInv
<1>5. CASE /\ id \notin Committed(journal)
           /\ WriteRow(row) /\ Remember(p, Grown(Scanned, 0, id))
  <2>1. row \in Row /\ NewMarker(row) /\ row.id = id
    BY <1>2, <1>5, Rows DEF Row, NewMarker, Marker
  <2>2. Exact(Grown(Scanned, 0, id), size', health', journal')
    BY <1>5, <2>1, ScannedExact, GrownExact DEF IInv
  <2>3. proof' \in [Proc -> Proofs \cup {NoProof}] /\ ProofStep
    BY <1>5, <2>2, Remembered DEF IInv
  <2>4. FileStep(row)
    BY <1>5, <2>1, FailIsFileStep DEF FailRow, IInv
  <2>5. journal' \in Seq(Row) /\ size' \in Nat
        /\ health' \in {"sound", "unterminated", "corrupt"}
    BY <2>1, <2>4, FileTypes DEF IInv
  <2>6. TypeOK'
    BY <1>1, <1>4, <2>3, <2>5, ProceedTypes
       DEF IInv, TypeOK, ReplayOnly, threadVars, lineVars, budgetVars
  <2>7. QED
    BY <1>1, <1>4, <2>1, <2>3, <2>4, <2>6, ProceedTypes, StepKeepsIInv
<1>6. CASE /\ Remember(p, Scanned) \/ Remember(p, NoProof)
           /\ UNCHANGED fileVars
  <2>1. Exact(Scanned, size', health', journal')
    BY <1>6, ScannedExact DEF IInv, fileVars
  <2>2. proof' \in [Proc -> Proofs \cup {NoProof}] /\ ProofStep
    BY <1>6, <2>1, Remembered DEF IInv
  <2>3. TypeOK'
    BY <1>1, <1>4, <1>6, <2>2, ProceedTypes
       DEF IInv, TypeOK, ReplayOnly, threadVars, fileVars, lineVars, budgetVars
  <2>4. QED  BY <1>1, <1>4, <1>6, <2>2, <2>3, ProceedTypes, StepKeepsIInv
<1>7. QED  BY <1>1, <1>5, <1>6

\* A step of a replay fails and the next entry is tried.
LEMMA ReplayNotFinished ==
  ASSUME IInv, NEW p \in Proc, ReplayFails(p)
  PROVE  IInv'
<1>1. PICK i \in todo[p] :
        LET id == journal[i].id IN
        /\ Proceed(p, i) /\ Fault /\ ReplayOnly
        /\ \/ /\ FailLine(WriteCopy(id))
              /\ UNCHANGED <<fileVars, proof, pending>>
           \/ /\ id \notin Committed(journal)
              /\ FailRow(Marker(id))
              /\ Remember(p, NoProof) /\ NewLineage(p)
              /\ UNCHANGED lineVars
           \/ UNCHANGED <<fileVars, lineVars, proof, pending>>
  BY DEF ReplayFails
<1> DEFINE id == journal[i].id
           row == Marker(id)
<1>2. id \in Id /\ id \in Intended(journal)
  BY TodoNames
<1>3. /\ UNCHANGED threadVars
      /\ \A t \in Thread : /\ pc'[t] = pc[t] /\ cur'[t] = cur[t]
                           /\ pc'[t] # "idle" => cur'[t] \in Op
  BY <1>1, ThreadsStay DEF ReplayOnly
<1>4. faults' \in 0..MaxFaults /\ crashes' \in 0..MaxCrashes
      /\ evictions' \in 0..MaxEvictions
  BY <1>1 DEF Fault, IInv, TypeOK
<1>5. logged' \subseteq Op /\ copies' \in [Id -> Nat] /\ ragged' \in BOOLEAN
      /\ present' \in BOOLEAN
  <2>1. CASE WriteCopy(id)
    BY <1>2, <2>1, CopyTypes DEF IInv
  <2>2. CASE TearLine
    BY <2>2 DEF TearLine, IInv, TypeOK
  <2>3. CASE UNCHANGED lineVars \/ NoLine
    BY <2>3 DEF lineVars, NoLine, IInv, TypeOK
  <2>4. QED  BY <1>1, <2>1, <2>2, <2>3 DEF FailLine
<1>6. CASE UNCHANGED <<fileVars, proof, pending>>
  <2>1. pending' \in [Thread -> Nat] /\ PendingStep
    BY <1>3, <1>6, ThreadsStay
  <2>2. proof' \in [Proc -> Proofs \cup {NoProof}] /\ ProofStep
    BY <1>6, ProofUnchanged DEF IInv
  <2>3. TypeOK'
    BY <1>1, <1>4, <1>5, <1>6, <2>1, <2>2, ProceedTypes
       DEF IInv, TypeOK, ReplayOnly, threadVars, fileVars
  <2>4. QED  BY <1>1, <1>6, <2>1, <2>2, <2>3, ProceedTypes, StepKeepsIInv
<1>7. CASE /\ id \notin Committed(journal)
           /\ FailRow(row)
           /\ Remember(p, NoProof) /\ NewLineage(p)
           /\ UNCHANGED lineVars
  <2>1. NewMarker(row)
    BY <1>2, <1>7, Rows DEF NewMarker, Marker
  <2> HIDE DEF row
  <2>2. /\ FileStep(row) /\ ProofStep /\ PendingStep
        /\ journal' \in Seq(Row) /\ size' \in Nat
        /\ health' \in {"sound", "unterminated", "corrupt"}
        /\ pending' \in [Thread -> Nat]
        /\ proof' \in [Proc -> Proofs \cup {NoProof}]
    BY <1>3, <1>7, <2>1, FailedWrite
  <2>3. TypeOK'
    BY <1>1, <1>4, <1>5, <2>2, ProceedTypes
       DEF IInv, TypeOK, ReplayOnly, threadVars
  <2>4. QED  BY <1>1, <2>1, <2>2, <2>3, ProceedTypes, StepKeepsIInv
<1>8. QED  BY <1>1, <1>6, <1>7

\* A process dies and starts again.
LEMMA CrashKeeps ==
  ASSUME IInv, NEW p \in Proc, Crash(p)
  PROVE  IInv'
<1>1. /\ pc' \in [Thread -> {"idle", "apply", "commit"}]
      /\ cur' \in [Thread -> Op \cup {NoOp}]
      /\ \A t \in Thread : ProcOf[t] # p => pc'[t] = pc[t] /\ cur'[t] = cur[t]
      /\ \A t \in Thread : ProcOf[t] = p => pc'[t] = "idle"
  BY DEF Crash, IInv, TypeOK
<1>2. /\ Remember(p, NoProof) /\ NewLineage(p)
      /\ UNCHANGED <<fileVars, lineVars, acked, started, faults, evictions>>
      /\ crashes' \in 0..MaxCrashes
      /\ rpc' \in [Proc -> {"idle", "apply", "commit"}]
      /\ todo' \in [Proc -> SUBSET (Nat \ {0})]
      /\ passes' \in [Proc -> 0..ReplayPasses]
      /\ TodoStep
  BY DEF Crash, IInv, TypeOK, TodoInv, TodoStep
<1>3. \A t \in Thread : pc'[t] # "idle" => cur'[t] \in Op
  BY <1>1 DEF IInv, PendingInv
<1>4. /\ pending' \in [Thread -> Nat] /\ PendingStep
      /\ proof' \in [Proc -> Proofs \cup {NoProof}] /\ ProofStep
  BY <1>1, <1>2, <1>3, NewLineagePending, Remembered DEF IInv
<1>5. TypeOK'
  BY <1>1, <1>2, <1>4 DEF IInv, TypeOK, fileVars, lineVars
<1>6. QED  BY <1>2, <1>4, <1>5, StepKeepsIInv

\* The validation is pushed out of the cache.
LEMMA EvictKeeps ==
  ASSUME IInv, NEW p \in Proc, Evict(p)
  PROVE  IInv'
<1>1. /\ Remember(p, NoProof) /\ NewLineage(p) /\ ReplayOnly
      /\ UNCHANGED <<fileVars, lineVars, replayVars, crashes, faults>>
      /\ evictions' \in 0..MaxEvictions
  BY DEF Evict, IInv, TypeOK
<1>2. /\ UNCHANGED threadVars
      /\ \A t \in Thread : /\ pc'[t] = pc[t] /\ cur'[t] = cur[t]
                           /\ pc'[t] # "idle" => cur'[t] \in Op
  BY <1>1, ThreadsStay DEF ReplayOnly
<1>3. /\ pending' \in [Thread -> Nat] /\ PendingStep
      /\ proof' \in [Proc -> Proofs \cup {NoProof}] /\ ProofStep
  BY <1>1, <1>2, NewLineagePending, Remembered DEF IInv
<1>4. TypeOK' /\ TodoStep
  BY <1>1, <1>3
     DEF IInv, TypeOK, TodoInv, TodoStep, ReplayOnly, threadVars, fileVars,
         lineVars, replayVars
<1>5. QED  BY <1>1, <1>3, <1>4, StepKeepsIInv

\* The invariant holds of an empty journal.
LEMMA InitIInv == Init => IInv
<1> SUFFICES ASSUME Init PROVE IInv
  OBVIOUS
<1>1. IntentRows(journal) = {} /\ MarkerRows(journal) = {}
  BY DEF Init, IntentRows, MarkerRows
<1>2. Intended(journal) = {} /\ Committed(journal) = {}
  BY <1>1 DEF Intended, Committed
<1>3. TypeOK
  <2>1. journal \in Seq(Row) /\ size \in Nat
    BY DEF Init
  <2>2. copies \in [Id -> Nat] /\ pending \in [Thread -> Nat]
    BY DEF Init
  <2>3. passes \in [Proc -> 0..ReplayPasses]
    BY DEF Init
  <2>4. crashes \in 0..MaxCrashes /\ faults \in 0..MaxFaults
        /\ evictions \in 0..MaxEvictions
    BY DEF Init
  <2>5. QED  BY <2>1, <2>2, <2>3, <2>4 DEF Init, TypeOK
<1>4. QED
  BY <1>1, <1>2, <1>3
     DEF IInv, Init, JournalInv, CacheInv, PendingInv, TodoInv, HasHighest

\* Every action keeps the invariant.
LEMMA NextIInv == IInv /\ [Next]_vars => IInv'
<1> SUFFICES ASSUME IInv, [Next]_vars PROVE IInv'
  OBVIOUS
<1>1. CASE UNCHANGED vars
  <2>1. TypeOK'
    BY <1>1 DEF vars, IInv, TypeOK, fileVars, lineVars, threadVars, replayVars,
                budgetVars
  <2>2. ProofStep /\ PendingStep /\ TodoStep /\ UNCHANGED fileVars
    BY <1>1 DEF vars, ProofStep, PendingStep, TodoStep, IInv, PendingInv, TodoInv,
                threadVars, replayVars
  <2>3. QED  BY <2>1, <2>2, StepKeepsIInv
<1>2. ASSUME NEW t \in Thread, AppendLine(t)
      PROVE  IInv'
  <2>1. CASE WriteEntry(t)
    BY <2>1, IntentWritten, IntentNotWritten, IntentNotFinished DEF WriteEntry
  <2>2. CASE ApplyLine(t) \/ ApplyFails(t)
    BY <2>2, LineWritten
  <2>3. CASE CommitEntry(t)
    BY <2>3, CommitWritten, CommitNotWritten, CommitNotFinished DEF CommitEntry
  <2>4. QED  BY <1>2, <2>1, <2>2, <2>3 DEF AppendLine
<1>3. ASSUME NEW p \in Proc, Replay(p) \/ ReplayFails(p) \/ Crash(p) \/ Evict(p)
      PROVE  IInv'
  BY <1>3, ReplayRead, ReplayApplied, ReplayCommitted, ReplayNotFinished,
     CrashKeeps, EvictKeeps DEF Replay
<1>4. QED  BY <1>1, <1>2, <1>3 DEF Next

\* So it holds in every reachable state.
LEMMA IInvAlways == Spec => []IInv
BY InitIInv, NextIInv, PTL DEF Spec

-----------------------------------------------------------------------------

\* Every variable keeps its type, the cached high-water marks included, which
\* are the highest elements of sets that have one.
THEOREM TypeCorrect == Spec => []TypeOK
<1>1. IInv => TypeOK
  BY DEF IInv
<1>2. QED  BY <1>1, IInvAlways, PTL

\* No entry is ever committed twice: whatever threads, processes, replays,
\* failing writes, crashes and evictions do, the cached and the scanned path
\* of commit_entry agree on what is committed.
THEOREM CommitsOnce == Spec => []CommittedOnce
<1>1. IInv => CommittedOnce
  BY DEF IInv, JournalInv, CommittedOnce
<1>2. QED  BY <1>1, IInvAlways, PTL

\* The rows the writers leave always pass the reader's validation.
THEOREM AlwaysReadable == Spec => []JournalReadable
<1>1. IInv => JournalReadable
  BY JournalIsReadable DEF IInv, TypeOK, JournalReadable
<1>2. QED  BY <1>1, IInvAlways, PTL

\* A cached validation with the signature of the file is the truth about it.
THEOREM CacheIsTrue == Spec => []ProofsTrue
<1>1. IInv => ProofsTrue
  BY ValidExact DEF IInv, ProofsTrue, Exact, Valid
<1>2. QED  BY <1>1, IInvAlways, PTL

\* What commit_entry skips its scan for is an uncommitted entry.
THEOREM PendingIsTrue == Spec => []PendingUncommitted
<1>1. IInv => PendingUncommitted
  BY PendingIsUncommitted DEF PendingUncommitted
<1>2. QED  BY <1>1, IInvAlways, PTL

-----------------------------------------------------------------------------
(* What the log holds.  An append to the log that tears (ragged) takes the  *)
(* next line with it; while none does, an acknowledged line is in the log   *)
(* and so is the line of a committed entry, however the journal is torn.    *)
(* While the journal can be read as well, every step is a step of AuditTrail *)
(* or changes none of its variables.                                        *)

LogWhole == ragged = FALSE

JournalWhole == health # "corrupt"

\* An append that has returned success wrote its own line to the log, however
\* the journal was torn meanwhile.
AckedLogged == acked \subseteq logged

\* Who is about to commit has its line in the log.
LinesInv ==
    /\ AckedLogged /\ CommittedInLog
    /\ \A t \in Thread : pc[t] = "commit" => cur[t] \in logged
    /\ \A p \in Proc : \A i \in todo[p] :
         rpc[p] = "commit" /\ IsNext(i, p) => InLog(journal[i].id)

\* An append that goes on has its intent in the journal.
IntentInv ==
    \A t \in Thread : pc[t] # "idle" => Stamp[cur[t]] \in Intended(journal)

\* How a step changes what the two speak of.
Extends == /\ Intended(journal) \subseteq Intended(journal')
           /\ \A i \in IntentRows(journal) : journal'[i] = journal[i]

LinesKept == /\ logged \subseteq logged'
             /\ \A id \in Id : copies[id] > 0 => copies'[id] > 0

ThreadStep == \A t \in Thread :
    \/ pc'[t] \in {"idle", "apply"}
    \/ pc'[t] = pc[t] /\ cur'[t] = cur[t]
    \/ cur'[t] = cur[t] /\ cur[t] \in logged'

ReplayStep == \A p \in Proc :
    \/ rpc'[p] # "commit"
    \/ rpc'[p] = rpc[p] /\ todo'[p] = todo[p]
    \/ /\ todo'[p] = todo[p]
       /\ \A i \in todo[p] : IsNext(i, p) => copies'[journal[i].id] > 0

MarkerStep == \A id \in Committed(journal') \ Committed(journal) : InLog(id)

AckStep == acked' \subseteq acked \cup logged

LinesStep == Extends /\ LinesKept /\ ThreadStep /\ ReplayStep /\ MarkerStep /\ AckStep

\* A call keeps its line, or begins with its intent in the journal.
IntentStep == \A t \in Thread :
    \/ pc'[t] = "idle"
    \/ pc[t] # "idle" /\ cur'[t] = cur[t]
    \/ Stamp[cur'[t]] \in Intended(journal')

AuditStep == [Audit!Next]_(Audit!auditVars)

\* What a step is as long as the journal can be read.
WholeStep == IntentInv /\ JournalWhole' => IntentStep /\ AuditStep

\* A line in the log stays there.
LEMMA InLogKept ==
  ASSUME LinesKept, NEW id \in Id, InLog(id)
  PROVE  InLog(id)'
BY DEF LinesKept, InLog

\* What a step does to the log, the threads and the replays keeps LinesInv.
LEMMA StepKeepsLines ==
  ASSUME IInv, IInv', LinesInv, LinesStep
  PROVE  LinesInv'
<1>1. \A t \in Thread : pc'[t] = "commit" => cur'[t] \in logged'
  BY DEF LinesStep, ThreadStep, LinesKept, LinesInv
<1>2. ASSUME NEW p \in Proc, NEW i \in todo'[p], rpc'[p] = "commit", IsNext(i, p)'
      PROVE  InLog(journal[i].id)'
  <2>1. todo'[p] = todo[p] /\ i \in todo[p] /\ IsNext(i, p)
    BY <1>2 DEF LinesStep, ReplayStep, IsNext
  <2>2. i \in IntentRows(journal) /\ journal[i].id \in Id
    BY <2>1, TodoNames DEF IInv, TodoInv
  <2>3. journal'[i] = journal[i]
    BY <2>2 DEF LinesStep, Extends
  <2>4. InLog(journal[i].id) \/ copies'[journal[i].id] > 0
    BY <1>2, <2>1 DEF LinesStep, ReplayStep, LinesInv
  <2>5. \/ copies'[journal[i].id] > 0
        \/ \E o \in logged' : Stamp[o] = journal[i].id
    BY <2>2, <2>4 DEF LinesStep, LinesKept, InLog
  <2>6. QED  BY <2>3, <2>5 DEF InLog
<1>3. ASSUME NEW id \in Committed(journal')
      PROVE  InLog(id)'
  <2>1. id \in Id
    BY Names DEF IInv, TypeOK
  <2>2. InLog(id)
    BY <1>3 DEF LinesStep, MarkerStep, LinesInv, CommittedInLog
  <2>3. QED  BY <2>1, <2>2, InLogKept DEF LinesStep
<1>4. AckedLogged'
  BY DEF LinesStep, AckStep, LinesKept, LinesInv, AckedLogged
<1>5. QED  BY <1>1, <1>2, <1>3, <1>4 DEF LinesInv, CommittedInLog

\* So does it keep IntentInv.
LEMMA StepKeepsIntents == IntentInv /\ Extends /\ IntentStep => IntentInv'
BY DEF IntentInv, Extends, IntentStep

\* A row that is written, whole or in part, is the last one or lost; in a
\* journal that can be read it is the last one.
LEMMA RowIsLast ==
  ASSUME IInv, NEW row \in Row, WriteRow(row) \/ TearRow(row)
  PROVE  /\ Extends
         /\ row.op = "append" => Committed(journal') = Committed(journal)
         /\ row.op = "commit" => Committed(journal') \subseteq Committed(journal) \cup {row.id}
         /\ JournalWhole' /\ row.op = "append" =>
              Intended(journal') = Intended(journal) \cup {row.id}
         /\ JournalWhole' /\ row.op = "commit" =>
              /\ Intended(journal') = Intended(journal)
              /\ Committed(journal') = Committed(journal) \cup {row.id}
<1>1. journal \in Seq(Row) /\ row.op \in {"append", "commit"}
  BY DEF IInv, TypeOK, Row
<1>2. CASE journal' = Append(journal, row)
  <2>1. Extends
    BY <1>1, <1>2, RowAdded DEF Extends
  <2>2. QED  BY <1>1, <1>2, <2>1, RowAdded
<1>3. CASE journal' = journal /\ health' = "corrupt"
  BY <1>3 DEF Extends, JournalWhole
<1>4. QED  BY <1>2, <1>3 DEF WriteRow, TearRow

\* A journal left alone.
LEMMA FileKept ==
  ASSUME UNCHANGED fileVars
  PROVE  /\ Extends /\ MarkerStep
         /\ Intended(journal') = Intended(journal)
         /\ Committed(journal') = Committed(journal)
BY DEF fileVars, Extends, MarkerStep

\* Lines left alone.
LEMMA LinesSame == UNCHANGED lineVars \/ NoLine => LinesKept
BY DEF lineVars, NoLine, LinesKept

\* Replays left alone.
LEMMA ReplaysSame == UNCHANGED replayVars => ReplayStep
BY DEF replayVars, ReplayStep

\* Threads left alone, and threads that return.
LEMMA ThreadsSame == UNCHANGED threadVars => ThreadStep /\ IntentStep
BY DEF threadVars, ThreadStep, IntentStep

\* A thread that returns is idle.
LEMMA ThreadReturns ==
  ASSUME TypeOK, NEW t \in Thread, Returns(t)
  PROVE  ThreadStep /\ IntentStep
BY DEF TypeOK, Returns, ThreadStep, IntentStep

-----------------------------------------------------------------------------
(* The actions, one by one: what becomes of the lines, and which action of  *)
(* AuditTrail it is.                                                        *)

\* The abstract steps, from what a step does to the abstract variables.
LEMMA Stutters ==
  ASSUME Intended(journal') = Intended(journal),
         Committed(journal') = Committed(journal),
         UNCHANGED <<logged, copies, acked>>
  PROVE  AuditStep
BY DEF AuditStep, Audit!auditVars

\* A first intent row.
LEMMA Intends ==
  ASSUME NEW id \in Id, id \notin Intended(journal),
         Intended(journal') = Intended(journal) \cup {id},
         Committed(journal') = Committed(journal),
         UNCHANGED <<logged, copies, acked>>
  PROVE  AuditStep
<1>1. Audit!Intend(id)
  BY DEF Audit!Intend
<1>2. QED  BY <1>1 DEF AuditStep, Audit!Next

\* A line of its own.
LEMMA Appends ==
  ASSUME NEW o \in Op, Stamp[o] \in Intended(journal),
         Intended(journal') = Intended(journal),
         Committed(journal') = Committed(journal),
         logged' = logged \cup {o}, UNCHANGED <<copies, acked>>
  PROVE  AuditStep
<1>1. Audit!Append(o)
  BY DEF Audit!Append
<1>2. QED  BY <1>1 DEF AuditStep, Audit!Next

\* A line a replay adds.
LEMMA Recovers ==
  ASSUME NEW id \in Id, id \in Intended(journal),
         Intended(journal') = Intended(journal),
         Committed(journal') = Committed(journal),
         copies' = [copies EXCEPT ![id] = @ + 1], UNCHANGED <<logged, acked>>
  PROVE  AuditStep
<1>1. Audit!Recover(id)
  BY DEF Audit!Recover
<1>2. QED  BY <1>1 DEF AuditStep, Audit!Next

\* A marker is written for an entry in the log, by a replay, by an append
\* whose call fails after all, or by one that returns.
LEMMA MarkerCommits ==
  ASSUME NEW id \in Id, id \in Intended(journal) \ Committed(journal), InLog(id),
         Intended(journal') = Intended(journal),
         Committed(journal') = Committed(journal) \cup {id},
         UNCHANGED <<logged, copies>>
  PROVE  /\ UNCHANGED acked => AuditStep
         /\ \A o \in Op : o \in logged /\ Stamp[o] = id /\ acked' = acked \cup {o}
              => AuditStep
<1>1. Audit!Commit(id)
  BY DEF Audit!Commit, Audit!InLog, InLog
<1>2. UNCHANGED acked => AuditStep
  BY <1>1 DEF AuditStep, Audit!Next
<1>3. ASSUME NEW o \in Op, o \in logged, Stamp[o] = id, acked' = acked \cup {o}
      PROVE  AuditStep
  <2>1. Audit!Acknowledge(o)
    BY <1>1, <1>3 DEF Audit!Acknowledge
  <2>2. QED  BY <2>1 DEF AuditStep, Audit!Next
<1>4. QED  BY <1>2, <1>3

\* write_entry.
LEMMA IntentRefines ==
  ASSUME IInv, LinesInv, NEW t \in Thread, WriteEntry(t)
  PROVE  LinesStep /\ WholeStep
<1>1. PICK o \in Op : \/ IntentFast(t, o) \/ IntentScan(t, o)
                      \/ IntentRepeated(t, o) \/ IntentRefused(t, o)
                      \/ IntentFails(t, o)
  BY DEF WriteEntry
<1> DEFINE row == Intent(Stamp[o], DigestOf[o])
<1>2. Begins(t, o) /\ ProcOf[t] \in Proc /\ Stamp[o] \in Id
  <2>1. ProcOf[t] \in Proc /\ Stamp[o] \in Id
    OBVIOUS
  <2>2. Begins(t, o)
    BY <1>1 DEF IntentFast, IntentScan, IntentRepeated, IntentRefused,
                IntentFails
  <2>3. QED  BY <2>1, <2>2
<1>3. LinesKept /\ ReplayStep /\ AckStep /\ UNCHANGED <<logged, copies, acked>>
  BY <1>2, LinesSame, ReplaysSame DEF Begins, lineVars, AckStep
<1>4. row \in Row /\ row.op = "append" /\ row.id = Stamp[o]
  BY <1>2, Rows DEF Intent, Row
<1>5. ASSUME Journalled(t, o)
      PROVE  ThreadStep /\ (Stamp[o] \in Intended(journal') => IntentStep)
  BY <1>5 DEF Journalled, ThreadStep, IntentStep, IInv, TypeOK
<1>6. CASE (WriteRow(row) \/ TearRow(row)) /\ Stamp[o] \notin Intended(journal)
           /\ (Journalled(t, o) \/ UNCHANGED threadVars)
  <2>1. /\ Extends /\ MarkerStep
        /\ Committed(journal') = Committed(journal)
        /\ JournalWhole' => Intended(journal') = Intended(journal) \cup {Stamp[o]}
    BY <1>4, <1>6, RowIsLast DEF MarkerStep
  <2>2. ThreadStep /\ (JournalWhole' => IntentStep)
    BY <1>5, <1>6, <2>1, ThreadsSame
  <2>3. JournalWhole' => AuditStep
    BY <1>2, <1>3, <1>6, <2>1, Intends
  <2>4. QED  BY <1>3, <2>1, <2>2, <2>3 DEF LinesStep, WholeStep
<1>7. CASE UNCHANGED fileVars
           /\ \/ Journalled(t, o) /\ Stamp[o] \in Intended(journal)
              \/ UNCHANGED threadVars
  <2>1. /\ Extends /\ MarkerStep
        /\ Intended(journal') = Intended(journal)
        /\ Committed(journal') = Committed(journal)
    BY <1>7, FileKept
  <2>2. ThreadStep /\ IntentStep
    BY <1>5, <1>7, <2>1, ThreadsSame
  <2>3. QED  BY <1>3, <2>1, <2>2, Stutters DEF LinesStep, WholeStep
<1>8. CASE IntentFast(t, o) \/ IntentScan(t, o)
  BY <1>2, <1>6, <1>8, AbsentIsNew DEF IntentFast, IntentScan
<1>9. CASE IntentRepeated(t, o) \/ IntentRefused(t, o)
  BY <1>7, <1>9 DEF IntentRepeated, IntentRefused
<1>10. CASE IntentFails(t, o)
  <2>1. /\ WriteRow(row) \/ TearRow(row) \/ UNCHANGED fileVars
        /\ UNCHANGED threadVars
        /\ Stamp[o] \notin Intended(journal)
    BY <1>2, <1>10, AbsentIsNew DEF IntentFails, FailRow
  <2>2. QED  BY <1>6, <1>7, <2>1
<1>11. QED  BY <1>1, <1>8, <1>9, <1>10

\* The line.
LEMMA LineRefines ==
  ASSUME IInv, LinesInv, LogWhole, LogWhole', NEW t \in Thread,
         ApplyLine(t) \/ ApplyFails(t)
  PROVE  LinesStep /\ WholeStep
<1>1. /\ pc[t] = "apply" /\ cur[t] \in Op
      /\ UNCHANGED <<fileVars, acked, replayVars>>
      /\ WriteLine(cur[t]) \/ (NoLine /\ ApplyFails(t))
  BY DEF ApplyLine, ApplyFails, FailLine, TearLine, LogWhole, IInv, PendingInv
<1>2. /\ Extends /\ MarkerStep
      /\ Intended(journal') = Intended(journal)
      /\ Committed(journal') = Committed(journal)
  BY <1>1, FileKept
<1>3. ReplayStep /\ AckStep
  BY <1>1, ReplaysSame DEF AckStep
<1>4. CASE WriteLine(cur[t])
  <2>1. logged' = logged \cup {cur[t]} /\ copies' = copies
    BY <1>4 DEF WriteLine, LogWhole
  <2>2. LinesKept
    BY <2>1 DEF LinesKept
  <2>3. ThreadStep /\ IntentStep
    <3>1. CASE ApplyLine(t)
      BY <1>1, <2>1, <3>1 DEF ApplyLine, ThreadStep, IntentStep, IInv, TypeOK
    <3>2. CASE ApplyFails(t)
      BY <3>2, ThreadReturns DEF ApplyFails, IInv
    <3>3. QED  BY <3>1, <3>2
  <2>4. IntentInv => AuditStep
    BY <1>1, <1>2, <2>1, Appends DEF IntentInv
  <2>5. QED  BY <1>2, <1>3, <2>2, <2>3, <2>4 DEF LinesStep, WholeStep
<1>5. CASE NoLine /\ ApplyFails(t)
  BY <1>1, <1>2, <1>3, <1>5, LinesSame, ThreadReturns, Stutters
     DEF ApplyFails, IInv, LinesStep, WholeStep, NoLine
<1>6. QED  BY <1>1, <1>4, <1>5

\* commit_entry, called by an append.
LEMMA CommitRefines ==
  ASSUME IInv, LinesInv, NEW t \in Thread, CommitEntry(t)
  PROVE  LinesStep /\ WholeStep
<1> DEFINE o == cur[t]
           row == Marker(Stamp[o])
<1>1. Commits(t) /\ pc[t] = "commit"
  BY DEF CommitEntry, CommitFast, CommitScan, CommitFound, CommitRefused,
         CommitFails, CommitTimesOut, Commits
<1>2. /\ o \in Op /\ o \in logged /\ Stamp[o] \in Id /\ InLog(Stamp[o])
      /\ IntentInv => Stamp[o] \in Intended(journal)
  <2>1. o \in Op /\ o \in logged
    BY <1>1 DEF IInv, PendingInv, LinesInv
  <2>2. Stamp[o] \in Id
    BY <2>1
  <2>3. InLog(Stamp[o])
    BY <2>1 DEF InLog
  <2>4. QED  BY <1>1, <2>1, <2>2, <2>3 DEF IntentInv
<1>3. /\ LinesKept /\ ReplayStep /\ ThreadStep /\ IntentStep
      /\ UNCHANGED <<logged, copies>>
  BY <1>1, LinesSame, ReplaysSame, ThreadReturns DEF Commits, lineVars, IInv
<1>4. row \in Row /\ row.op = "commit" /\ row.id = Stamp[o]
  BY <1>2, Rows DEF Marker, Row
<1>5. Acks(t) \/ UNCHANGED acked => AckStep
  BY <1>2 DEF Acks, AckStep
<1>6. CASE /\ WriteRow(row) \/ TearRow(row)
           /\ Stamp[o] \notin Committed(journal)
           /\ Acks(t) \/ UNCHANGED acked
  <2>1. /\ Extends
        /\ Committed(journal') \subseteq Committed(journal) \cup {Stamp[o]}
        /\ JournalWhole' => /\ Intended(journal') = Intended(journal)
                            /\ Committed(journal') = Committed(journal) \cup {Stamp[o]}
    BY <1>4, <1>6, RowIsLast
  <2>2. MarkerStep
    BY <1>2, <2>1 DEF MarkerStep
  <2>3. IntentInv /\ JournalWhole' => AuditStep
    BY <1>2, <1>3, <1>6, <2>1, MarkerCommits DEF Acks
  <2>4. QED  BY <1>3, <1>5, <1>6, <2>1, <2>2, <2>3 DEF LinesStep, WholeStep
<1>7. CASE /\ UNCHANGED fileVars
           /\ \/ Acks(t) /\ Stamp[o] \in Committed(journal)
              \/ UNCHANGED acked
  <2>1. /\ Extends /\ MarkerStep
        /\ Intended(journal') = Intended(journal)
        /\ Committed(journal') = Committed(journal)
    BY <1>7, FileKept
  <2>2. AuditStep
    <3>1. CASE UNCHANGED acked
      BY <1>3, <2>1, <3>1, Stutters
    <3>2. CASE Acks(t) /\ Stamp[o] \in Committed(journal)
      <4>1. Audit!Acknowledge(o)
        BY <1>2, <1>3, <2>1, <3>2 DEF Audit!Acknowledge, Acks
      <4>2. QED  BY <1>2, <4>1 DEF AuditStep, Audit!Next
    <3>3. QED  BY <1>7, <3>1, <3>2
  <2>3. QED  BY <1>3, <1>5, <1>7, <2>1, <2>2 DEF LinesStep, WholeStep
<1>8. CASE CommitFast(t) \/ CommitScan(t)
  BY <1>1, <1>6, <1>8, PendingIsUncommitted DEF CommitFast, CommitScan
<1>9. CASE CommitFound(t) \/ CommitRefused(t) \/ CommitTimesOut(t)
  BY <1>7, <1>9 DEF CommitFound, CommitRefused, CommitTimesOut
<1>10. CASE CommitFails(t)
  <2>1. /\ WriteRow(row) \/ TearRow(row) \/ UNCHANGED fileVars
        /\ UNCHANGED acked
        /\ Stamp[o] \notin Committed(journal)
    BY <1>1, <1>10, PendingIsUncommitted DEF CommitFails, FailRow
  <2>2. QED  BY <1>6, <1>7, <2>1
<1>11. QED  BY <1>8, <1>9, <1>10 DEF CommitEntry

\* A replay's copy is counted.
LEMMA CopyCounted ==
  ASSUME copies \in [Id -> Nat], NEW id \in Id,
         copies' = [copies EXCEPT ![id] = @ + 1]
  PROVE  /\ copies'[id] > 0
         /\ \A x \in Id : copies[x] > 0 => copies'[x] > 0
<1>1. copies'[id] = copies[id] + 1 /\ copies[id] \in Nat
  OBVIOUS
<1>2. ASSUME NEW x \in Id, copies[x] > 0
      PROVE  copies'[x] > 0
  <2>1. CASE x = id
    BY <1>1, <2>1
  <2>2. CASE x # id
    BY <1>2, <2>2
  <2>3. QED  BY <2>1, <2>2
<1>3. QED  BY <1>1, <1>2

\* The replay.  Its commit finds the line of the next entry in the log.
LEMMA ReplayRefines ==
  ASSUME IInv, LinesInv, LogWhole, LogWhole', NEW p \in Proc,
         Replay(p) \/ ReplayFails(p)
  PROVE  LinesStep /\ WholeStep
<1>1. ReplayOnly /\ ThreadStep /\ IntentStep /\ AckStep /\ UNCHANGED acked
  BY ThreadsSame DEF Replay, StartReplay, ReplayApply, ReplayCommit, ReplayFails,
                     ReplayOnly, AckStep
<1>2. rpc \in [Proc -> {"idle", "apply", "commit"}]
      /\ todo \in [Proc -> SUBSET (Nat \ {0})]
  BY DEF IInv, TypeOK
<1>3. CASE StartReplay(p)
  <2>1. UNCHANGED fileVars /\ UNCHANGED lineVars
    BY <1>3 DEF StartReplay
  <2>2. ReplayStep
    BY <1>2, <1>3 DEF StartReplay, ReplayStep
  <2>3. UNCHANGED <<logged, copies, acked>>
    BY <1>1, <2>1 DEF lineVars
  <2>4. QED  BY <1>1, <2>1, <2>2, <2>3, FileKept, LinesSame, Stutters
                DEF LinesStep, WholeStep
<1>4. ASSUME NEW i \in todo[p], Proceed(p, i)
      PROVE  ReplayStep
  BY <1>2, <1>4 DEF Proceed, ReplayStep
<1>5. ASSUME NEW i \in todo[p], WriteCopy(journal[i].id), UNCHANGED fileVars,
             ReplayStep
      PROVE  LinesStep /\ WholeStep
  <2>1. journal[i].id \in Id /\ journal[i].id \in Intended(journal)
    BY TodoNames
  <2>2. /\ logged' = logged
        /\ copies' = [copies EXCEPT ![journal[i].id] = @ + 1]
    BY <1>5 DEF WriteCopy, LogWhole
  <2>3. LinesKept
    BY <2>1, <2>2, CopyCounted DEF LinesKept, IInv, TypeOK
  <2>4. QED  BY <1>1, <1>5, <2>1, <2>2, <2>3, FileKept, Recovers
                DEF LinesStep, WholeStep
<1>6. ASSUME NEW i \in todo[p], rpc[p] = "commit", IsNext(i, p), Proceed(p, i),
             UNCHANGED lineVars,
             \/ UNCHANGED fileVars
             \/ /\ journal[i].id \notin Committed(journal)
                /\ WriteRow(Marker(journal[i].id)) \/ TearRow(Marker(journal[i].id))
      PROVE  LinesStep /\ WholeStep
  <2> DEFINE id == journal[i].id
             row == Marker(id)
  <2>1. /\ id \in Id /\ id \in Intended(journal) /\ InLog(id)
        /\ LinesKept /\ UNCHANGED <<logged, copies>>
    BY <1>6, TodoNames, LinesSame DEF LinesInv, lineVars
  <2>2. row \in Row /\ row.op = "commit" /\ row.id = id
    BY <2>1, Rows DEF Marker, Row
  <2>3. CASE UNCHANGED fileVars
    BY <1>1, <1>4, <1>6, <2>1, <2>3, FileKept, Stutters DEF LinesStep, WholeStep
  <2>4. CASE (WriteRow(row) \/ TearRow(row)) /\ id \notin Committed(journal)
    <3>1. /\ Extends
          /\ Committed(journal') \subseteq Committed(journal) \cup {id}
          /\ JournalWhole' => /\ Intended(journal') = Intended(journal)
                              /\ Committed(journal') = Committed(journal) \cup {id}
      BY <2>2, <2>4, RowIsLast
    <3>2. MarkerStep
      BY <2>1, <3>1 DEF MarkerStep
    <3>3. JournalWhole' => AuditStep
      BY <1>1, <2>1, <2>4, <3>1, MarkerCommits
    <3>4. QED  BY <1>1, <1>4, <1>6, <2>1, <3>1, <3>2, <3>3 DEF LinesStep, WholeStep
  <2>5. QED  BY <1>6, <2>3, <2>4
<1>7. CASE ReplayApply(p)
  <2>1. PICK i \in todo[p] :
          /\ WriteCopy(journal[i].id) /\ UNCHANGED fileVars /\ IsNext(i, p)
          /\ rpc' = [rpc EXCEPT ![p] = "commit"] /\ todo' = todo
    BY <1>7 DEF ReplayApply
  <2>2. ReplayStep
    <3>1. \A k \in todo[p] : IsNext(k, p) => k = i
      BY <1>2, <2>1 DEF IsNext
    <3>2. copies'[journal[i].id] > 0
      <4>1. journal[i].id \in Id
        BY TodoNames
      <4>2. copies' = [copies EXCEPT ![journal[i].id] = @ + 1]
        BY <2>1 DEF WriteCopy, LogWhole
      <4>3. copies \in [Id -> Nat]
        BY DEF IInv, TypeOK
      <4>4. QED  BY <4>1, <4>2, <4>3, CopyCounted
    <3>3. QED  BY <1>2, <2>1, <3>1, <3>2 DEF ReplayStep
  <2>3. QED  BY <1>5, <2>1, <2>2
<1>8. CASE ReplayCommit(p)
  BY <1>6, <1>8 DEF ReplayCommit
<1>9. CASE ReplayFails(p)
  <2>1. PICK i \in todo[p] :
          /\ rpc[p] # "idle" /\ IsNext(i, p) /\ Proceed(p, i)
          /\ \/ FailLine(WriteCopy(journal[i].id)) /\ UNCHANGED fileVars
             \/ /\ rpc[p] = "commit" /\ UNCHANGED lineVars
                /\ \/ UNCHANGED fileVars
                   \/ /\ journal[i].id \notin Committed(journal)
                      /\ FailRow(Marker(journal[i].id))
    BY <1>9 DEF ReplayFails
  <2>2. CASE WriteCopy(journal[i].id) /\ UNCHANGED fileVars
    BY <1>4, <1>5, <2>1, <2>2
  <2>3. CASE (UNCHANGED lineVars \/ NoLine) /\ UNCHANGED fileVars
    <3>1. UNCHANGED <<logged, copies, acked>>
      BY <1>1, <2>3 DEF lineVars, NoLine
    <3>2. QED
      BY <1>1, <1>4, <2>1, <2>3, <3>1, FileKept, LinesSame, Stutters
         DEF LinesStep, WholeStep
  <2>4. CASE /\ rpc[p] = "commit" /\ UNCHANGED lineVars
             /\ journal[i].id \notin Committed(journal)
             /\ FailRow(Marker(journal[i].id))
    BY <1>6, <2>1, <2>4 DEF FailRow
  <2>5. QED  BY <2>1, <2>2, <2>3, <2>4 DEF FailLine, TearLine, LogWhole
<1>10. QED  BY <1>3, <1>7, <1>8, <1>9 DEF Replay

\* A crash loses threads and replays, an eviction nothing that matters here.
LEMMA CrashRefines ==
  ASSUME IInv, LinesInv, NEW p \in Proc, Crash(p) \/ Evict(p)
  PROVE  LinesStep /\ WholeStep
<1>1. UNCHANGED fileVars /\ UNCHANGED lineVars /\ UNCHANGED acked
  BY DEF Crash, Evict, ReplayOnly
<1>2. ThreadStep /\ IntentStep
  BY ThreadsSame DEF Crash, Evict, ReplayOnly, ThreadStep, IntentStep, IInv, TypeOK
<1>3. ReplayStep /\ AckStep
  BY <1>1, ReplaysSame DEF Crash, Evict, ReplayStep, AckStep, IInv, TypeOK
<1>4. UNCHANGED <<logged, copies, acked>>
  BY <1>1 DEF lineVars
<1>5. QED  BY <1>1, <1>2, <1>3, <1>4, FileKept, LinesSame, Stutters
              DEF LinesStep, WholeStep

\* The initial states map to initial states.
LEMMA InitLines == Init => LinesInv /\ IntentInv /\ Audit!Init
<1> SUFFICES ASSUME Init PROVE LinesInv /\ IntentInv /\ Audit!Init
  OBVIOUS
<1>1. Intended(journal) = {} /\ Committed(journal) = {}
  BY DEF Init, Intended, Committed, IntentRows, MarkerRows
<1>2. QED  BY <1>1 DEF Init, LinesInv, AckedLogged, CommittedInLog, IntentInv, Audit!Init

\* While the log is whole every step keeps what it holds, and while the
\* journal is whole too, every step maps to a step or a stutter.
LEMMA NextRefines ==
  ASSUME IInv, LinesInv, LogWhole, LogWhole', [Next]_vars
  PROVE  /\ LinesInv'
         /\ IntentInv /\ JournalWhole' => IntentInv' /\ AuditStep
<1>1. LinesStep /\ WholeStep
  <2>1. CASE UNCHANGED vars
    BY <2>1, FileKept, LinesSame, ThreadsSame, ReplaysSame, Stutters
       DEF vars, lineVars, LinesStep, WholeStep, AckStep
  <2>2. ASSUME NEW t \in Thread, AppendLine(t)
        PROVE  LinesStep /\ WholeStep
    BY <2>2, IntentRefines, LineRefines, CommitRefines DEF AppendLine
  <2>3. ASSUME NEW p \in Proc, Replay(p) \/ ReplayFails(p) \/ Crash(p) \/ Evict(p)
        PROVE  LinesStep /\ WholeStep
    BY <2>3, ReplayRefines, CrashRefines
  <2>4. QED  BY <2>1, <2>2, <2>3 DEF Next
<1>2. IInv'
  BY NextIInv
<1>3. QED  BY <1>1, <1>2, StepKeepsLines, StepKeepsIntents DEF LinesStep, WholeStep

\* What AuditTrail promises of committed and acknowledged calls.
LEMMA AuditKeeps ==
  ASSUME TypeOK, CommittedInLog, AckedDurable, AuditStep
  PROVE  CommittedInLog' /\ AckedDurable'
<1>1. copies \in [Id -> Nat] /\ Intended(journal) \subseteq Id
      /\ Committed(journal) \subseteq Id
  BY Names DEF TypeOK
<1>2. CASE \/ UNCHANGED Audit!auditVars
           \/ \E id \in Id : Audit!Intend(id)
           \/ \E o \in Op : Audit!Append(o)
  BY <1>2 DEF Audit!auditVars, Audit!Intend, Audit!Append, CommittedInLog,
              AckedDurable, InLog
<1>3. ASSUME NEW id \in Id, Audit!Recover(id)
      PROVE  CommittedInLog' /\ AckedDurable'
  <2>1. \A x \in Id : copies[x] > 0 => copies'[x] > 0
    BY <1>1, <1>3 DEF Audit!Recover
  <2>2. /\ Committed(journal') = Committed(journal)
        /\ UNCHANGED <<logged, acked>>
    BY <1>3 DEF Audit!Recover
  <2>3. ASSUME NEW x \in Committed(journal)
        PROVE  InLog(x)'
    <3>1. InLog(x) /\ x \in Id
      BY <1>1 DEF CommittedInLog
    <3>2. QED  BY <2>1, <2>2, <3>1 DEF InLog
  <2>4. QED  BY <2>2, <2>3 DEF CommittedInLog, AckedDurable
<1>4. ASSUME NEW id \in Id, Audit!Commit(id)
      PROVE  /\ CommittedInLog'
             /\ \A o \in acked : o \in logged' /\ Stamp[o] \in Committed(journal')
             /\ id \in Committed(journal') /\ logged' = logged
  BY <1>4 DEF Audit!Commit, Audit!InLog, CommittedInLog, AckedDurable, InLog
<1>5. ASSUME NEW o \in Op, Audit!Acknowledge(o)
      PROVE  CommittedInLog' /\ AckedDurable'
  <2>1. Stamp[o] \in Id /\ o \in logged /\ acked' = acked \cup {o}
    BY <1>5 DEF Audit!Acknowledge
  <2>2. CASE Audit!Commit(Stamp[o])
    <3>1. /\ CommittedInLog'
          /\ \A x \in acked : x \in logged' /\ Stamp[x] \in Committed(journal')
          /\ Stamp[o] \in Committed(journal') /\ logged' = logged
      BY <1>4, <2>1, <2>2
    <3>2. QED  BY <2>1, <3>1 DEF AckedDurable
  <2>3. CASE /\ Stamp[o] \in Committed(journal)
             /\ Committed(journal') = Committed(journal)
             /\ UNCHANGED <<logged, copies>>
    BY <2>1, <2>3 DEF CommittedInLog, AckedDurable, InLog
  <2>4. QED  BY <1>5, <2>2, <2>3 DEF Audit!Acknowledge
<1>6. ASSUME NEW id \in Id, Audit!Commit(id), UNCHANGED acked
      PROVE  CommittedInLog' /\ AckedDurable'
  BY <1>4, <1>6 DEF AckedDurable
<1>7. QED
  BY <1>2, <1>3, <1>5, <1>6 DEF AuditStep, Audit!Next

-----------------------------------------------------------------------------

\* What the log holds as long as no append to it tears.
LEMMA LinesAlways == Spec /\ []LogWhole => [](IInv /\ LinesInv)
<1>1. IInv /\ LinesInv /\ LogWhole /\ LogWhole' /\ [Next]_vars => LinesInv'
  BY NextRefines
<1>2. QED  BY <1>1, InitLines, IInvAlways, PTL DEF Spec

\* An append that returned success has its line in the log, through crashes,
\* failures, evictions and replays, and however the journal is torn.
THEOREM AckedIsLogged == Spec /\ []LogWhole => []AckedLogged
<1>1. LinesInv => AckedLogged
  BY DEF LinesInv
<1>2. QED  BY <1>1, LinesAlways, PTL

\* What a replay skips is in the log, however the journal is torn.
THEOREM CommittedIsInLog == Spec /\ []LogWhole => []CommittedInLog
<1>1. LinesInv => CommittedInLog
  BY DEF LinesInv
<1>2. QED  BY <1>1, LinesAlways, PTL

\* The journalled append keeps the promise of AuditTrail through threads,
\* processes, failing sections, crashes, evictions and replays, as long as
\* both files can be read.
THEOREM WholeFilesKeepThePromise ==
  Spec /\ []LogWhole /\ []JournalWhole => KeepsAuditTrail
<1>1. /\ IInv /\ LinesInv /\ IntentInv /\ LogWhole /\ LogWhole' /\ JournalWhole'
      /\ [Next]_vars
      => IntentInv' /\ [Audit!Next]_(Audit!auditVars)
  BY NextRefines DEF AuditStep
<1>2. Init => IntentInv /\ Audit!Init
  BY InitLines
<1>3. QED
  BY <1>1, <1>2, LinesAlways, PTL DEF Spec, KeepsAuditTrail, Audit!Spec

\* Then an append that returned success has its own line in the log and its
\* entry committed.
THEOREM WholeFilesAreDurable == Spec /\ []LogWhole /\ []JournalWhole => []AckedDurable
<1>1. Init => IntentInv /\ AckedDurable
  BY InitLines DEF Init, AckedDurable
<1>2. /\ IInv /\ LinesInv /\ IntentInv /\ LogWhole /\ LogWhole' /\ JournalWhole'
      /\ [Next]_vars /\ AckedDurable
      => IntentInv' /\ AckedDurable'
  BY NextRefines, AuditKeeps DEF IInv, LinesInv
<1>3. QED  BY <1>1, <1>2, LinesAlways, PTL DEF Spec

\* Without torn writes both files are whole.
LEMMA UntornIsWhole == ~Tears => (Spec => [](LogWhole /\ health = "sound"))
<1> SUFFICES ASSUME ~Tears PROVE Spec => [](LogWhole /\ health = "sound")
  OBVIOUS
<1>1. Init => LogWhole /\ health = "sound"
  BY DEF Init, LogWhole
<1>2. LogWhole /\ health = "sound" /\ [Next]_vars => (LogWhole /\ health = "sound")'
  <2> SUFFICES ASSUME LogWhole, health = "sound", [Next]_vars
               PROVE  (LogWhole /\ health = "sound")'
    OBVIOUS
  <2>1. UNCHANGED fileVars \/ (\E row : FailRow(row)) => health' = "sound"
    BY DEF FailRow, WriteRow, TearRow, fileVars
  <2>2. \/ UNCHANGED lineVars
        \/ \E o : FailLine(WriteLine(o))
        \/ \E id : FailLine(WriteCopy(id))
        => LogWhole'
    BY DEF FailLine, NoLine, WriteLine, WriteCopy, TearLine, LogWhole, lineVars
  <2>3. CASE UNCHANGED vars
    BY <2>1, <2>2, <2>3 DEF vars
  <2>4. ASSUME NEW t \in Thread, NEW o \in Op,
               \/ IntentFast(t, o) \/ IntentScan(t, o) \/ IntentRepeated(t, o)
               \/ IntentRefused(t, o) \/ IntentFails(t, o)
        PROVE  (LogWhole /\ health = "sound")'
    <3>1. Begins(t, o) /\ (UNCHANGED fileVars \/ (\E row : FailRow(row)))
      BY <2>4 DEF IntentFast, IntentScan, IntentRepeated, IntentRefused, IntentFails,
                  FailRow
    <3>2. QED  BY <2>1, <2>2, <3>1 DEF Begins
  <2>5. ASSUME NEW t \in Thread, ApplyLine(t) \/ ApplyFails(t)
        PROVE  (LogWhole /\ health = "sound")'
    BY <2>1, <2>2, <2>5 DEF ApplyLine, ApplyFails, FailLine
  <2>6. ASSUME NEW t \in Thread, CommitEntry(t)
        PROVE  (LogWhole /\ health = "sound")'
    <3>1. Commits(t) /\ (UNCHANGED fileVars \/ (\E row : FailRow(row)))
      BY <2>6 DEF CommitEntry, CommitFast, CommitScan, CommitFound, CommitRefused,
                  CommitFails, CommitTimesOut, FailRow
    <3>2. QED  BY <2>1, <2>2, <3>1 DEF Commits
  <2>7. ASSUME NEW p \in Proc, Replay(p) \/ ReplayFails(p) \/ Crash(p) \/ Evict(p)
        PROVE  (LogWhole /\ health = "sound")'
    <3>1. UNCHANGED fileVars \/ (\E row : FailRow(row))
      BY <2>7 DEF Replay, StartReplay, ReplayApply, ReplayCommit, ReplayFails, Crash,
                  Evict, FailRow
    <3>2. UNCHANGED lineVars \/ (\E id : FailLine(WriteCopy(id)))
      BY <2>7 DEF Replay, StartReplay, ReplayApply, ReplayCommit, ReplayFails, Crash,
                  Evict, FailLine
    <3>3. QED  BY <2>1, <2>2, <3>1, <3>2
  <2>8. QED
    BY <2>3, <2>4, <2>5, <2>6, <2>7 DEF Next, AppendLine, WriteEntry
<1>3. QED  BY <1>1, <1>2, PTL DEF Spec

\* So the promise is kept.
THEOREM ImplementsAuditTrail == ~Tears => (Spec => KeepsAuditTrail)
<1> SUFFICES ASSUME ~Tears PROVE Spec => KeepsAuditTrail
  OBVIOUS
<1>1. health = "sound" => JournalWhole
  BY DEF JournalWhole
<1>2. QED  BY <1>1, UntornIsWhole, WholeFilesKeepThePromise, PTL

\* And what was acknowledged is durable.
THEOREM AckedIsDurable == ~Tears => (Spec => []AckedDurable)
<1> SUFFICES ASSUME ~Tears PROVE Spec => []AckedDurable
  OBVIOUS
<1>1. health = "sound" => JournalWhole
  BY DEF JournalWhole
<1>2. QED  BY <1>1, UntornIsWhole, WholeFilesAreDurable, PTL
=============================================================================
