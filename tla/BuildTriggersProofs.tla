------------------------ MODULE BuildTriggersProofs ------------------------
(* Proofs about the trigger pipeline, for any number of tag events, any    *)
(* components and any number of faults.                                    *)
EXTENDS BuildTriggers, SequenceTheorems, FiniteSetTheorems, TLAPS

PreRun == {"scmurl", "denylist", "sidetag"}

(* The message being handled reached the table once stored is set; while   *)
(* it is being inserted, it is one of an eligible component.               *)
StoredInv ==
    /\ stored => \E i \in Ids : rows[i].build = handling
    /\ stamp # NoStamp => /\ handling # NoMessage /\ ~stored
                          /\ CompOf[handling] \in Eligible

(* Inserts are of eligible builds that exist.                              *)
InsertInv ==
    \A r \in inserts : /\ r.build \in 1 .. tagged \/ r.build \in Builds \ Tags
                       /\ CompOf[r.build] \in Eligible

(* No created_at is given to two rows.                                     *)
StampInv ==
    /\ \A i \in Ids : rows[i].at \in 1 .. clock /\ rows[i].at # stamp
    /\ \A r \in inserts : /\ r.at \in 1 .. clock /\ r.at # stamp
                          /\ \A i \in Ids : rows[i].at # r.at
    /\ \A r, q \in inserts : r.at = q.at => r = q

(* A row has been read when it is in a batch, and never with a row that    *)
(* had not appeared yet.                                                   *)
SeenInv ==
    /\ \A i \in Ids : rows[i].seen <= Len(rows)
    /\ \A i \in triggers \cup todo : ReadWith(i, i)

(* While superseded rows are dropped: a pending row with a pending older   *)
(* one of its component, read with it, cannot be completed before it.      *)
DropInv ==
    pc = "drop" =>
        /\ todo \cap triggers = {}
        /\ \A t \in triggers : ~rows[t].done
        /\ \A i \in todo :
              \E j \in Ids : Older(i, j) /\ SameComp(i, j) /\ ReadWith(j, i)
        /\ \A j \in triggers \cup todo, i \in Ids :
              Older(i, j) /\ SameComp(i, j) /\ ReadWith(i, j)
                 /\ ~rows[i].done => i \in todo

(* Afterwards every row older than a trigger, and read with it, is         *)
(* completed.                                                              *)
OlderInv ==
    pc \notin {"idle", "drop"} =>
        /\ todo \subseteq triggers
        /\ \A t \in triggers, i \in Ids :
              Older(i, t) /\ SameComp(i, t) /\ ReadWith(i, t)
                 => rows[i].done

(* A row newer than a trigger either appeared after the selection, and     *)
(* neither this batch nor an earlier one touched it, or was completed      *)
(* before the trigger had appeared to the batch that took the newer row.   *)
NewerInv ==
    pc # "idle" =>
        \A t \in triggers, j \in Ids :
            Older(t, j) /\ SameComp(t, j) =>
                /\ ReadWith(j, t) => rows[j].done /\ ~ReadWith(t, j)
                /\ ~ReadWith(j, t) => /\ ~rows[j].done /\ rows[j].runs = 0
                                      /\ j \notin triggers /\ j \notin todo

(* Where each trigger of the batch stands in the filtering loops.          *)
FilterInv ==
    /\ pc = "idle" => triggers = {} /\ todo = {}
    /\ pc \in {"idle", "drop"} => withUrl = {}
    /\ pc \in {"idle", "drop", "scmurl"} => admitted = {}
    /\ \A i \in withUrl : UrlOfRow(i) # NoUrl
    /\ pc = "scmurl" =>
          /\ todo \cap withUrl = {}
          /\ \A i \in todo \cup withUrl : ~rows[i].done
          /\ \A i \in triggers : i \in todo \cup withUrl \/ rows[i].done
    /\ pc = "denylist" =>
          /\ todo \subseteq withUrl /\ todo \cap admitted = {}
          /\ \A i \in todo \cup admitted : ~rows[i].done
          /\ \A i \in triggers : i \in todo \cup admitted \/ rows[i].done
    /\ pc = "sidetag" =>
          /\ \A i \in admitted : ~rows[i].done
          /\ \A i \in triggers : i \in admitted \/ rows[i].done
    /\ pc \in {"denylist", "sidetag"} => \A i \in admitted : ~Denied(i)
    /\ pc \in {"run", "finalize", "complete"} =>
          \A i \in triggers : rows[i].runs > 0 \/ rows[i].done

(* A pending row that this batch has not submitted owes each of its past   *)
(* submissions to a fault.                                                 *)
RunsInv ==
    \A i \in Ids :
        (/\ ~rows[i].done
         /\ \/ pc \in {"idle", "drop"} \cup PreRun
            \/ i \notin triggers
            \/ pc = "complete" /\ i \notin todo)
        => rows[i].runs <= faults

BusInv == NoLostTrigger /\ StoredInv /\ InsertInv /\ StampInv

TableInv ==
    /\ SeenInv
    /\ CompletedInOrder /\ DropInv /\ OlderInv /\ NewerInv
    /\ FilterInv
    /\ RunOncePerFault /\ RunsInv
    /\ CompletedForAReason

IInv == TypeOK /\ BusInv /\ TableInv

-----------------------------------------------------------------------------
(* How the three writes to build_trigger change the table.                 *)

(* What a step that keeps the build, created_at and selection of the rows  *)
(* keeps of the relations between them.                                    *)
LEMMA SameRelations ==
    ASSUME NEW S \in SUBSET Ids, S \subseteq Ids',
           \A i \in S : /\ rows'[i].build = rows[i].build
                        /\ rows'[i].at = rows[i].at
                        /\ rows'[i].seen = rows[i].seen
    PROVE  /\ \A i, j \in S : /\ SameComp(i, j)' <=> SameComp(i, j)
                              /\ Older(i, j)' <=> Older(i, j)
           /\ \A i, j \in S : ReadWith(i, j)' <=> ReadWith(i, j)
           /\ \A i \in S : UrlOfRow(i)' = UrlOfRow(i)
BY DEF SameComp, CompOfRow, UrlOfRow, Older, ReadWith

(* The three changes of a row each keep its other fields.                  *)
LEMMA RowWrites ==
    ASSUME NEW r \in Row
    PROVE  /\ r.build \in Builds /\ r.at \in Nat /\ r.done \in BOOLEAN
           /\ r.runs \in Nat /\ r.seen \in Nat
           /\ LET e == [r EXCEPT !.done = TRUE]
              IN  /\ e \in Row /\ e.build = r.build /\ e.at = r.at
                  /\ e.seen = r.seen /\ e.runs = r.runs /\ e.done
           /\ LET e == [r EXCEPT !.runs = @ + 1]
              IN  /\ e \in Row /\ e.build = r.build /\ e.at = r.at
                  /\ e.seen = r.seen /\ e.runs = r.runs + 1 /\ e.done = r.done
           /\ \A n \in Nat :
                LET e == [r EXCEPT !.seen = n]
                IN  /\ e \in Row /\ e.build = r.build /\ e.at = r.at
                    /\ e.seen = n /\ e.runs = r.runs /\ e.done = r.done
<1>1. /\ r.build \in Builds /\ r.at \in Nat /\ r.done \in BOOLEAN
      /\ r.runs \in Nat /\ r.seen \in Nat
  BY DEF Row
<1>2. ASSUME NEW e, e = [r EXCEPT !.done = TRUE]
      PROVE  /\ e \in Row /\ e.build = r.build /\ e.at = r.at
             /\ e.seen = r.seen /\ e.runs = r.runs /\ e.done
  BY <1>2 DEF Row
<1>3. ASSUME NEW e, e = [r EXCEPT !.runs = @ + 1]
      PROVE  /\ e \in Row /\ e.build = r.build /\ e.at = r.at
             /\ e.seen = r.seen /\ e.runs = r.runs + 1 /\ e.done = r.done
  BY <1>3 DEF Row
<1>4. ASSUME NEW n \in Nat, NEW e, e = [r EXCEPT !.seen = n]
      PROVE  /\ e \in Row /\ e.build = r.build /\ e.at = r.at
             /\ e.seen = n /\ e.runs = r.runs /\ e.done = r.done
  BY <1>4 DEF Row
<1> QED
  BY <1>1, <1>2, <1>3, <1>4

(* A row that appears leaves the others alone and comes after them.        *)
LEMMA AppendFacts ==
    ASSUME rows \in Seq(Row), NEW b \in Builds, NEW t \in Nat, Commit(b, t)
    PROVE  /\ rows' \in Seq(Row)
           /\ Ids' = Ids \cup {Len(rows) + 1}
           /\ Len(rows') = Len(rows) + 1
           /\ Len(rows) + 1 \notin Ids
           /\ Ids \subseteq Nat /\ Len(rows) + 1 \in Nat
           /\ \A i \in Ids : rows'[i] = rows[i]
           /\ rows'[Len(rows) + 1] = NewRow(b, t)
           /\ \A i, j \in Ids : SameComp(i, j)' <=> SameComp(i, j)
           /\ \A i, j \in Ids : Older(i, j)' <=> Older(i, j)
           /\ \A i, j \in Ids : ReadWith(i, j)' <=> ReadWith(i, j)
           /\ \A i \in Ids : UrlOfRow(i)' = UrlOfRow(i)
<1>1. NewRow(b, t) \in Row
  BY DEF NewRow, Row
<1>2. Len(rows) \in Nat /\ Ids = 1 .. Len(rows)
  BY DEF Ids
<1>3. /\ rows' \in Seq(Row) /\ Len(rows') = Len(rows) + 1
      /\ \A i \in Ids : rows'[i] = rows[i]
      /\ rows'[Len(rows) + 1] = NewRow(b, t)
  BY <1>1, <1>2 DEF Ids, Commit
<1>4. Ids' = Ids \cup {Len(rows) + 1}
  <2>1. Ids' = 1 .. Len(rows')
    BY <1>3 DEF Ids
  <2> QED
    BY <1>2, <1>3, <2>1
<1>5. /\ \A i, j \in Ids : /\ SameComp(i, j)' <=> SameComp(i, j)
                           /\ Older(i, j)' <=> Older(i, j)
                           /\ ReadWith(i, j)' <=> ReadWith(i, j)
      /\ \A i \in Ids : UrlOfRow(i)' = UrlOfRow(i)
  BY <1>3, <1>4, SameRelations
<1> QED
  BY <1>2, <1>3, <1>4, <1>5, SMTT(30)

(* Completing a row sets its completed_at and nothing else.                *)
LEMMA CompleteFacts ==
    ASSUME rows \in Seq(Row), NEW i \in Ids, Complete(i)
    PROVE  /\ rows' \in Seq(Row)
           /\ Ids' = Ids /\ Len(rows') = Len(rows)
           /\ \A j \in Ids : /\ rows'[j].build = rows[j].build
                             /\ rows'[j].at = rows[j].at
                             /\ rows'[j].seen = rows[j].seen
                             /\ rows'[j].runs = rows[j].runs
                             /\ rows'[j].done = (j = i \/ rows[j].done)
           /\ \A j, k \in Ids : SameComp(j, k)' <=> SameComp(j, k)
           /\ \A j, k \in Ids : Older(j, k)' <=> Older(j, k)
           /\ \A j, k \in Ids : ReadWith(j, k)' <=> ReadWith(j, k)
           /\ \A j \in Ids : UrlOfRow(j)' = UrlOfRow(j)
<1>1. Ids = 1 .. Len(rows) /\ Len(rows) \in Nat
  BY DEF Ids
<1>2. \A j \in Ids : rows[j] \in Row
  BY <1>1
<1> DEFINE e == [rows[i] EXCEPT !.done = TRUE]
<1>3. /\ e \in Row /\ e.build = rows[i].build /\ e.runs = rows[i].runs
      /\ e.at = rows[i].at /\ e.seen = rows[i].seen /\ e.done
  BY <1>2, RowWrites
<1>4. rows' = [rows EXCEPT ![i] = e]
  BY DEF Complete
<1>5. /\ rows' \in Seq(Row) /\ Ids' = Ids /\ Len(rows') = Len(rows)
      /\ \A j \in Ids : rows'[j] = IF j = i THEN e ELSE rows[j]
  <2> HIDE DEF e
  <2>1. /\ [rows EXCEPT ![i] = e] \in Seq(Row)
        /\ Len([rows EXCEPT ![i] = e]) = Len(rows)
    BY <1>1, <1>3, ExceptSeq
  <2> QED
    BY <1>1, <1>4, <2>1 DEF Ids
<1>6. /\ \A j \in Ids : rows[j].done \in BOOLEAN
      /\ \A j \in Ids : /\ rows'[j].build = rows[j].build
                        /\ rows'[j].at = rows[j].at
                        /\ rows'[j].seen = rows[j].seen
  BY <1>2, <1>3, <1>5 DEF Row
<1>7. /\ \A j, k \in Ids : /\ SameComp(j, k)' <=> SameComp(j, k)
                           /\ Older(j, k)' <=> Older(j, k)
                           /\ ReadWith(j, k)' <=> ReadWith(j, k)
      /\ \A j \in Ids : UrlOfRow(j)' = UrlOfRow(j)
  BY <1>5, <1>6, SameRelations
<1> QED
  BY <1>2, <1>3, <1>5, <1>6, <1>7 DEF Row

(* Submitting the admitted rows counts one run for each of them.           *)
LEMMA StartRunFacts ==
    ASSUME rows \in Seq(Row), StartRun
    PROVE  /\ rows' \in Seq(Row)
           /\ Ids' = Ids /\ Len(rows') = Len(rows)
           /\ \A j \in Ids :
                /\ rows'[j].build = rows[j].build
                /\ rows'[j].at = rows[j].at
                /\ rows'[j].seen = rows[j].seen
                /\ rows'[j].done = rows[j].done
                /\ rows[j].runs \in Nat
                /\ rows'[j].runs = IF j \in admitted THEN rows[j].runs + 1
                                                    ELSE rows[j].runs
           /\ \A j, k \in Ids : SameComp(j, k)' <=> SameComp(j, k)
           /\ \A j, k \in Ids : Older(j, k)' <=> Older(j, k)
           /\ \A j, k \in Ids : ReadWith(j, k)' <=> ReadWith(j, k)
           /\ \A j \in Ids : UrlOfRow(j)' = UrlOfRow(j)
<1>1. Ids = 1 .. Len(rows) /\ Len(rows) \in Nat
  BY DEF Ids
<1>2. \A j \in Ids : rows[j] \in Row
  BY <1>1
<1>3. rows' = [j \in Ids |-> IF j \in admitted
                             THEN [rows[j] EXCEPT !.runs = @ + 1]
                             ELSE rows[j]]
  BY DEF StartRun
<1>4. ASSUME NEW j \in Ids
      PROVE  /\ rows'[j] \in Row
             /\ rows'[j].build = rows[j].build
             /\ rows'[j].at = rows[j].at
             /\ rows'[j].seen = rows[j].seen
             /\ rows'[j].done = rows[j].done
             /\ rows[j].runs \in Nat
             /\ rows'[j].runs = IF j \in admitted THEN rows[j].runs + 1
                                                 ELSE rows[j].runs
  <2>1. rows[j] \in Row
    BY <1>2
  <2>2. CASE j \in admitted
    <3>1. PICK r \in Row : r = rows[j]
      BY <2>1
    <3>2. PICK e : e = [r EXCEPT !.runs = @ + 1]
      OBVIOUS
    <3>3. /\ e \in Row /\ e.build = r.build /\ e.at = r.at /\ r.runs \in Nat
          /\ e.seen = r.seen /\ e.runs = r.runs + 1 /\ e.done = r.done
      BY <3>2, RowWrites
    <3>4. rows'[j] = e
      BY <1>3, <2>2, <3>1, <3>2
    <3> QED
      BY <2>2, <3>1, <3>3, <3>4
  <2>3. CASE j \notin admitted
    <3>1. rows'[j] = rows[j]
      BY <1>3, <2>3
    <3> QED
      BY <2>1, <2>3, <3>1, RowWrites
  <2> QED
    BY <2>2, <2>3
<1>5. rows' \in Seq(Row) /\ Ids' = Ids /\ Len(rows') = Len(rows)
  BY <1>1, <1>3, <1>4 DEF Ids
<1>7. /\ \A j, k \in Ids : /\ SameComp(j, k)' <=> SameComp(j, k)
                           /\ Older(j, k)' <=> Older(j, k)
                           /\ ReadWith(j, k)' <=> ReadWith(j, k)
      /\ \A j \in Ids : UrlOfRow(j)' = UrlOfRow(j)
  BY <1>4, <1>5, SameRelations
<1> QED
  BY <1>4, <1>5, <1>7

(* Selecting the pending rows marks what they were read with.              *)
LEMMA MarkSeenFacts ==
    ASSUME rows \in Seq(Row), MarkSeen
    PROVE  /\ rows' \in Seq(Row)
           /\ Ids' = Ids /\ Len(rows') = Len(rows) /\ Len(rows) \in Nat
           /\ \A j \in Ids :
                /\ j <= Len(rows)
                /\ rows'[j].build = rows[j].build
                /\ rows'[j].at = rows[j].at
                /\ rows'[j].done = rows[j].done
                /\ rows'[j].runs = rows[j].runs
                /\ rows'[j].seen = IF rows[j].done THEN rows[j].seen
                                                   ELSE Len(rows)
           /\ \A j, k \in Ids : SameComp(j, k)' <=> SameComp(j, k)
           /\ \A j, k \in Ids : Older(j, k)' <=> Older(j, k)
           /\ \A j \in Ids : UrlOfRow(j)' = UrlOfRow(j)
<1>1. Ids = 1 .. Len(rows) /\ Len(rows) \in Nat
  BY DEF Ids
<1>2. \A j \in Ids : rows[j] \in Row
  BY <1>1
<1>3. rows' = [j \in Ids |-> IF j \in Pending
                             THEN [rows[j] EXCEPT !.seen = Len(rows)]
                             ELSE rows[j]]
  BY DEF MarkSeen
<1>4. ASSUME NEW j \in Ids
      PROVE  /\ rows'[j] \in Row
             /\ rows'[j].build = rows[j].build
             /\ rows'[j].at = rows[j].at
             /\ rows'[j].done = rows[j].done
             /\ rows'[j].runs = rows[j].runs
             /\ rows'[j].seen = IF rows[j].done THEN rows[j].seen
                                                ELSE Len(rows)
  <2>1. rows[j] \in Row
    BY <1>2
  <2>2. CASE j \in Pending
    <3>1. rows'[j] = [rows[j] EXCEPT !.seen = Len(rows)]
      BY <1>3, <2>2
    <3>2. ~rows[j].done
      BY <2>2 DEF Pending
    <3> QED
      BY <1>1, <2>1, <3>1, <3>2 DEF Row
  <2>3. CASE j \notin Pending
    <3>1. rows'[j] = rows[j] /\ rows[j].done
      BY <1>3, <2>3 DEF Pending
    <3> QED
      BY <2>1, <3>1
  <2> QED
    BY <2>2, <2>3
<1>5. rows' \in Seq(Row) /\ Ids' = Ids /\ Len(rows') = Len(rows)
  BY <1>1, <1>3, <1>4 DEF Ids
<1>6. \A j \in Ids : j <= Len(rows)
  BY <1>1
<1>7. /\ \A j, k \in Ids : /\ SameComp(j, k)' <=> SameComp(j, k)
                           /\ Older(j, k)' <=> Older(j, k)
      /\ \A j \in Ids : UrlOfRow(j)' = UrlOfRow(j)
  BY <1>4, <1>5 DEF SameComp, CompOfRow, UrlOfRow, Older
<1> QED
  BY <1>1, <1>4, <1>5, <1>6, <1>7

(* Rows of one component, and their order.                                 *)
LEMMA SameCompIsEquivalence ==
    /\ \A i, j \in Ids : SameComp(i, j) => SameComp(j, i)
    /\ \A i, j, k \in Ids : SameComp(i, j) /\ SameComp(j, k) => SameComp(i, k)
BY DEF SameComp

(* What the type invariant says of a row and of its place.                 *)
LEMMA RowFacts ==
    ASSUME TypeOK
    PROVE  /\ Ids \subseteq Nat /\ Ids = 1 .. Len(rows) /\ Len(rows) \in Nat
           /\ \A i \in Ids : /\ rows[i] \in Row /\ rows[i].runs \in Nat
                             /\ rows[i].at \in Nat /\ rows[i].seen \in Nat
                             /\ rows[i].build \in Builds
                             /\ rows[i].done \in BOOLEAN
<1>1. Ids = 1 .. Len(rows) /\ \A i \in 1 .. Len(rows) : rows[i] \in Row
  BY DEF TypeOK, Ids
<1> QED
  BY <1>1 DEF Row, TypeOK

(* created_at orders rows.                                                 *)
LEMMA OlderIsOrder ==
    ASSUME TypeOK
    PROVE  /\ \A i, j \in Ids : ~(Older(i, j) /\ Older(j, i))
           /\ \A i, j, k \in Ids : Older(i, j) /\ Older(j, k) => Older(i, k)
<1>1. \A i \in Ids : rows[i].at \in Nat
  BY RowFacts
<1> QED
  BY <1>1 DEF Older

-----------------------------------------------------------------------------
(* Each kind of step keeps the invariant.                                  *)

(* A step that leaves the table and the batch alone: the bus, the pause,   *)
(* an INSERT that begins, another try at the side-tag.                     *)
LEMMA QuietStep ==
    ASSUME TypeOK, TableInv, UNCHANGED <<dbVars, batchVars, unresolved>>,
           faults' \in Nat, faults <= faults'
    PROVE  TableInv'
<1>1. UNCHANGED <<rows, denylist, pc, triggers, todo, withUrl, admitted,
                  unresolved>>
  BY DEF dbVars, batchVars
<1>2. (CompletedInOrder /\ DropInv /\ OlderInv /\ NewerInv /\ SeenInv)'
  BY <1>1 DEF TableInv, CompletedInOrder, DropInv, OlderInv, NewerInv,
              SeenInv, Ids, SameComp, CompOfRow, Older, ReadWith
<1>3. FilterInv' /\ CompletedForAReason'
  BY <1>1 DEF TableInv, FilterInv, CompletedForAReason, Ids, SameComp,
              CompOfRow, UrlOfRow, Denied, Older, ReadWith
<1>4. \A i \in Ids : rows[i].runs \in Nat
  BY RowFacts
<1>5. RunOncePerFault' /\ RunsInv'
  <2>1. /\ \A i \in Ids' : rows'[i].runs = rows[i].runs /\ rows[i].runs \in Nat
        /\ Ids' = Ids
    BY <1>1, <1>4 DEF Ids
  <2>2. RunOncePerFault'
    BY <2>1 DEF TableInv, TypeOK, RunOncePerFault
  <2>3. RunsInv'
    BY <1>1, <2>1 DEF TableInv, TypeOK, RunsInv
  <2> QED
    BY <2>2, <2>3
<1> QED
  BY <1>2, <1>3, <1>5 DEF TableInv

(* The batch is abandoned, by an exception or a crash: each run of a row   *)
(* still pending is now paid for by a fault.                               *)
LEMMA AbandonStep ==
    ASSUME TypeOK, TableInv, ClearBatch, UNCHANGED <<dbVars, unresolved>>,
           faults' = faults + 1
    PROVE  TableInv'
<1>1. /\ UNCHANGED <<rows, denylist, unresolved>> /\ Ids' = Ids
      /\ pc' = "idle" /\ triggers' = {} /\ todo' = {}
      /\ withUrl' = {} /\ admitted' = {}
  BY DEF ClearBatch, dbVars, Ids
<1>2. CompletedInOrder' /\ CompletedForAReason'
  BY <1>1 DEF TableInv, CompletedInOrder, CompletedForAReason, SameComp,
              CompOfRow, UrlOfRow, Denied, Older, ReadWith
<1>3. DropInv' /\ OlderInv' /\ NewerInv' /\ FilterInv' /\ SeenInv'
  BY <1>1 DEF TableInv, SeenInv, DropInv, OlderInv, NewerInv, FilterInv
<1>4. \A i \in Ids : rows[i].runs \in Nat
  BY RowFacts
<1>5. RunOncePerFault' /\ RunsInv'
  BY <1>1, <1>4 DEF TableInv, TypeOK, RunOncePerFault, RunsInv
<1> QED
  BY <1>2, <1>3, <1>5 DEF TableInv

(* A row appears, from the bus or from rebuild_from_components, whatever   *)
(* the batch is doing and however old the row is: no row was read with it. *)
LEMMA InsertStep ==
    ASSUME TypeOK, TableInv, NEW b \in Builds, NEW t \in Nat, Commit(b, t),
           UNCHANGED <<denylist, batchVars, unresolved, faults>>
    PROVE  TableInv'
<1>0. PICK n : n = Len(rows) + 1
  OBVIOUS
<1>1. /\ Ids' = Ids \cup {n} /\ n \notin Ids
      /\ \A i \in Ids : rows'[i] = rows[i]
      /\ ~rows'[n].done /\ rows'[n].runs = 0
      /\ \A i, j \in Ids : SameComp(i, j)' <=> SameComp(i, j)
      /\ \A i, j \in Ids : Older(i, j)' <=> Older(i, j)
      /\ \A i, j \in Ids : ReadWith(i, j)' <=> ReadWith(i, j)
      /\ \A i \in Ids : UrlOfRow(i)' = UrlOfRow(i)
  <2>1. ~NewRow(b, t).done /\ NewRow(b, t).runs = 0
    BY DEF NewRow
  <2> QED
    BY <1>0, <2>1, AppendFacts DEF TypeOK
<1>2. /\ UNCHANGED <<denylist, pc, triggers, todo, withUrl, admitted,
                     unresolved, faults>>
      /\ triggers \subseteq Ids /\ todo \subseteq Ids
      /\ withUrl \subseteq Ids /\ admitted \subseteq Ids
  BY DEF batchVars, TypeOK
<1>3. /\ \A i \in Ids : rows[i].runs \in Nat
      /\ faults \in Nat
  BY RowFacts DEF TypeOK
<1>4. /\ \A j \in Ids : ~ReadWith(n, j)'
      /\ \A i \in Ids' : ~ReadWith(i, n)'
      /\ \A i \in Ids' : rows'[i].seen <= Len(rows')
  <2>1. /\ rows'[n] = NewRow(b, t) /\ Len(rows') = n
        /\ \A i \in Ids : rows'[i] = rows[i]
    BY <1>0, AppendFacts DEF TypeOK
  <2>2. rows'[n].seen = 0
    BY <2>1 DEF NewRow
  <2>3. /\ Len(rows) \in Nat /\ Ids = 1 .. Len(rows)
        /\ \A i \in Ids : rows[i].seen \in Nat /\ rows[i].seen <= Len(rows)
    BY RowFacts DEF TableInv, SeenInv
  <2>4. \A i \in Ids' : 1 <= i /\ i \in Nat
    BY <1>0, <1>1, <2>3
  <2>5. /\ \A i \in Ids : rows'[i].seen <= Len(rows') /\ ~(n <= rows'[i].seen)
        /\ rows'[n].seen <= Len(rows')
        /\ \A i \in Ids' : ~(i <= rows'[n].seen)
    BY <1>0, <2>1, <2>2, <2>3, <2>4
  <2> QED
    BY <1>1, <2>5 DEF ReadWith
<1>5. CompletedInOrder'
  <2> SUFFICES ASSUME NEW i \in Ids', NEW j \in Ids', Older(i, j)',
                      SameComp(i, j)', rows'[j].done, ReadWith(i, j)'
               PROVE  rows'[i].done
    BY DEF CompletedInOrder
  <2>1. i \in Ids /\ j \in Ids
    BY <1>1, <1>4
  <2> QED
    BY <1>1, <2>1 DEF TableInv, CompletedInOrder
<1>6. DropInv'
  <2> SUFFICES ASSUME pc = "drop" PROVE DropInv'
    BY <1>2 DEF DropInv
  <2>1. /\ (todo \cap triggers = {})'
        /\ \A s \in triggers' : ~rows'[s].done
        /\ \A j \in todo' : \E k \in Ids' :
              Older(j, k)' /\ SameComp(j, k)' /\ ReadWith(k, j)'
    BY <1>1, <1>2 DEF TableInv, DropInv
  <2>2. \A j \in triggers' \cup todo', k \in Ids' :
           Older(k, j)' /\ SameComp(k, j)' /\ ReadWith(k, j)'
              /\ ~rows'[k].done => k \in todo'
    BY <1>1, <1>2, <1>4 DEF TableInv, DropInv
  <2> QED
    BY <2>1, <2>2 DEF DropInv
<1>7. OlderInv'
  BY <1>1, <1>2, <1>4 DEF TableInv, OlderInv
<1>8. NewerInv'
  BY <1>1, <1>2, <1>4 DEF TableInv, NewerInv
<1>9. FilterInv'
  BY <1>1, <1>2 DEF TableInv, FilterInv, Denied
<1>10. RunOncePerFault' /\ RunsInv'
  <2>1. \A i \in Ids : /\ rows'[i].runs = rows[i].runs
                       /\ rows'[i].done = rows[i].done
    BY <1>1
  <2>2. rows'[n].runs <= faults' /\ rows'[n].runs <= 1 + faults'
    BY <1>1, <1>2, <1>3
  <2>3. RunOncePerFault'
    BY <1>1, <1>2, <2>1, <2>2 DEF TableInv, RunOncePerFault
  <2>4. RunsInv'
    BY <1>1, <1>2, <2>1, <2>2 DEF TableInv, RunsInv
  <2> QED
    BY <2>3, <2>4
<1>11. CompletedForAReason'
  BY <1>1, <1>2 DEF TableInv, CompletedForAReason, Denied
<1>12. SeenInv'
  BY <1>1, <1>2, <1>4 DEF TableInv, SeenInv
<1> QED
  BY <1>5, <1>6, <1>7, <1>8, <1>9, <1>10, <1>11, <1>12 DEF TableInv

(* A superseded row is dropped: every older row that was read with it      *)
(* already is, since the loop takes the oldest first.                      *)
LEMMA DropStep ==
    ASSUME TypeOK, TableInv, NEW i \in Ids, DropSuperseded(i)
    PROVE  TableInv'
<1>1. /\ Ids' = Ids /\ Len(rows') = Len(rows)
      /\ \A j \in Ids : /\ rows'[j].build = rows[j].build
                        /\ rows'[j].seen = rows[j].seen
                        /\ rows'[j].runs = rows[j].runs
                        /\ rows'[j].done = (j = i \/ rows[j].done)
      /\ \A j, k \in Ids : SameComp(j, k)' <=> SameComp(j, k)
      /\ \A j, k \in Ids : Older(j, k)' <=> Older(j, k)
      /\ \A j, k \in Ids : ReadWith(j, k)' <=> ReadWith(j, k)
      /\ \A j \in Ids : UrlOfRow(j)' = UrlOfRow(j)
  BY CompleteFacts DEF TypeOK, DropSuperseded
<1>2. /\ pc = "drop" /\ pc' = "drop" /\ i \in todo
      /\ triggers' = triggers /\ todo' = todo \ {i}
      /\ UNCHANGED <<withUrl, admitted, unresolved, denylist, faults>>
      /\ triggers \subseteq Ids /\ todo \subseteq Ids
      /\ \A j \in todo : SameComp(i, j) => ~Older(j, i)
  BY DEF TypeOK, DropSuperseded
<1>3. DropInv /\ CompletedInOrder
  BY DEF TableInv
<1>4. CompletedInOrder'
  <2> SUFFICES ASSUME NEW a \in Ids, NEW b \in Ids, Older(a, b),
                      SameComp(a, b), ReadWith(a, b),
                      rows'[b].done, ~rows[a].done
               PROVE  FALSE
    BY <1>1 DEF CompletedInOrder
  <2>1. CASE rows[b].done
    BY <1>3, <2>1 DEF CompletedInOrder
  <2>2. CASE b = i
    <3>1. a \in todo
      BY <1>2, <1>3, <2>2 DEF DropInv
    <3> QED
      BY <1>2, <2>2, <3>1, SameCompIsEquivalence
  <2> QED
    BY <1>1, <2>1, <2>2
<1>5. DropInv'
  <2>1. /\ (todo \cap triggers = {})'
        /\ \A t \in triggers' : ~rows'[t].done
        /\ \A j \in todo' : \E k \in Ids' :
              Older(j, k)' /\ SameComp(j, k)' /\ ReadWith(k, j)'
    BY <1>1, <1>2, <1>3 DEF DropInv
  <2>2. \A j \in triggers' \cup todo', k \in Ids' :
           Older(k, j)' /\ SameComp(k, j)' /\ ReadWith(k, j)'
              /\ ~rows'[k].done => k \in todo'
    BY <1>1, <1>2, <1>3 DEF DropInv
  <2> QED
    BY <1>2, <2>1, <2>2 DEF DropInv
<1>6. OlderInv' /\ FilterInv'
  BY <1>1, <1>2 DEF TableInv, OlderInv, FilterInv
<1>7. NewerInv' /\ SeenInv'
  <2>1. NewerInv'
    <3> SUFFICES ASSUME pc # "idle", NEW t \in triggers, NEW j \in Ids,
                        Older(t, j), SameComp(t, j)
                 PROVE  /\ ReadWith(j, t) => rows'[j].done /\ ~ReadWith(t, j)
                        /\ ~ReadWith(j, t) =>
                              /\ ~rows'[j].done /\ rows'[j].runs = 0
                              /\ j \notin triggers' /\ j \notin todo'
      BY <1>1, <1>2 DEF NewerInv
    <3>1. /\ ReadWith(j, t) => rows[j].done /\ ~ReadWith(t, j)
          /\ ~ReadWith(j, t) => /\ ~rows[j].done /\ rows[j].runs = 0
                                /\ j \notin triggers /\ j \notin todo
      BY DEF TableInv, NewerInv
    <3> QED
      BY <1>1, <1>2, <3>1
  <2>2. SeenInv'
    BY <1>1, <1>2 DEF TableInv, SeenInv
  <2> QED
    BY <2>1, <2>2
<1>8. RunOncePerFault' /\ RunsInv'
  BY <1>1, <1>2 DEF TableInv, RunOncePerFault, RunsInv
<1>9. CompletedForAReason'
  <2>1. /\ CompletedForAReason
        /\ \E j \in Ids : Older(i, j) /\ SameComp(i, j) /\ ReadWith(j, i)
    BY <1>2, <1>3 DEF TableInv, DropInv
  <2> QED
    BY <1>1, <1>2, <2>1, ZenonT(30) DEF CompletedForAReason, Denied
<1> QED
  BY <1>4, <1>5, <1>6, <1>7, <1>8, <1>9 DEF TableInv

(* A trigger of the batch is completed, for one of the reasons a row may   *)
(* be: UrlUnavailable, DenyTrigger and MarkCompleted.                      *)
LEMMA CompleteStep ==
    ASSUME TypeOK, TableInv, NEW i \in Ids,
           pc \in {"scmurl", "denylist", "complete"}, i \in todo,
           Complete(i), todo' = todo \ {i},
           UNCHANGED <<denylist, pc, triggers, withUrl, admitted, faults>>,
           unresolved \subseteq unresolved',
           \/ rows[i].runs > 0 \/ rows[i].done
           \/ i \in unresolved' \/ Denied(i)
    PROVE  TableInv'
<1>1. /\ Ids' = Ids /\ Len(rows') = Len(rows)
      /\ \A j \in Ids : /\ rows'[j].build = rows[j].build
                        /\ rows'[j].seen = rows[j].seen
                        /\ rows'[j].runs = rows[j].runs
                        /\ rows'[j].done = (j = i \/ rows[j].done)
      /\ \A j, k \in Ids : SameComp(j, k)' <=> SameComp(j, k)
      /\ \A j, k \in Ids : Older(j, k)' <=> Older(j, k)
      /\ \A j, k \in Ids : ReadWith(j, k)' <=> ReadWith(j, k)
      /\ \A j \in Ids : UrlOfRow(j)' = UrlOfRow(j)
  BY CompleteFacts DEF TypeOK
<1>2. /\ triggers \subseteq Ids /\ withUrl \subseteq Ids
      /\ admitted \subseteq Ids /\ todo \subseteq triggers
  BY DEF TypeOK, TableInv, OlderInv
<1>3. CompletedInOrder'
  <2> SUFFICES ASSUME NEW a \in Ids, NEW b \in Ids, Older(a, b),
                      SameComp(a, b), ReadWith(a, b), rows'[b].done
               PROVE  rows[a].done
    BY <1>1 DEF CompletedInOrder
  <2>1. CASE rows[b].done
    BY <2>1 DEF TableInv, CompletedInOrder
  <2>2. CASE b = i
    BY <1>2, <2>2 DEF TableInv, OlderInv
  <2> QED
    BY <1>1, <2>1, <2>2
<1>4. DropInv' /\ OlderInv'
  BY <1>1, <1>2 DEF TableInv, DropInv, OlderInv
<1>5. NewerInv' /\ SeenInv'
  <2>1. NewerInv'
    <3> SUFFICES ASSUME pc # "idle", NEW t \in triggers, NEW j \in Ids,
                        Older(t, j), SameComp(t, j)
                 PROVE  /\ ReadWith(j, t) => rows'[j].done /\ ~ReadWith(t, j)
                        /\ ~ReadWith(j, t) =>
                              /\ ~rows'[j].done /\ rows'[j].runs = 0
                              /\ j \notin triggers' /\ j \notin todo'
      BY <1>1, <1>2 DEF NewerInv
    <3>1. /\ ReadWith(j, t) => rows[j].done /\ ~ReadWith(t, j)
          /\ ~ReadWith(j, t) => /\ ~rows[j].done /\ rows[j].runs = 0
                                /\ j \notin triggers /\ j \notin todo
      BY DEF TableInv, NewerInv
    <3> QED
      BY <1>1, <1>2, <3>1
  <2>2. SeenInv'
    BY <1>1, <1>2 DEF TableInv, SeenInv
  <2> QED
    BY <2>1, <2>2
<1>6. FilterInv'
  <2>1. \A j \in Ids : /\ rows'[j].runs = rows[j].runs
                       /\ rows'[j].done = (j = i \/ rows[j].done)
                       /\ UrlOfRow(j)' = UrlOfRow(j)
    BY <1>1
  <2> QED
    BY <1>2, <2>1 DEF TableInv, FilterInv, Denied
<1>7. RunOncePerFault' /\ RunsInv'
  BY <1>1 DEF TableInv, RunOncePerFault, RunsInv
<1>8. CompletedForAReason'
  BY <1>1, ZenonT(30) DEF TableInv, CompletedForAReason, Denied
<1> QED
  BY <1>3, <1>4, <1>5, <1>6, <1>7, <1>8 DEF TableInv

(* The tick selects the newest pending row of each component.  A newer row *)
(* that is not pending was completed by a batch that had not read this one *)
(* yet, for otherwise this one would be completed, too.                    *)
LEMMA SelectStep ==
    ASSUME TypeOK, TableInv, SelectTriggers
    PROVE  TableInv'
<1>1. /\ UNCHANGED <<denylist, unresolved, withUrl, admitted, faults>>
      /\ pc = "idle" /\ pc' = "drop"
      /\ triggers' = Newest /\ todo' = Pending \ Newest
  BY DEF SelectTriggers
<1>2. /\ Ids' = Ids /\ Len(rows') = Len(rows) /\ Len(rows) \in Nat
      /\ \A j \in Ids :
           /\ j <= Len(rows)
           /\ rows'[j].done = rows[j].done
           /\ rows'[j].runs = rows[j].runs
           /\ rows'[j].seen = IF rows[j].done THEN rows[j].seen
                                              ELSE Len(rows)
      /\ \A i, j \in Ids : SameComp(i, j)' <=> SameComp(i, j)
      /\ \A i, j \in Ids : Older(i, j)' <=> Older(i, j)
      /\ \A j \in Ids : UrlOfRow(j)' = UrlOfRow(j)
  BY MarkSeenFacts DEF SelectTriggers, TypeOK
<1>3. /\ \A i, j \in Ids : rows[j].done => ReadWith(i, j)' <=> ReadWith(i, j)
      /\ \A i, j \in Ids : ~rows[j].done => ReadWith(i, j)'
  BY <1>2 DEF ReadWith
<1>4. \A t \in Newest : /\ t \in Ids /\ ~rows[t].done
                        /\ \A j \in Ids : SameComp(t, j) /\ ~rows[j].done
                                          => ~Older(t, j)
  BY DEF Newest, Pending
<1>5. \A i \in Pending \ Newest :
         /\ i \in Ids /\ ~rows[i].done
         /\ \E j \in Ids : Older(i, j) /\ SameComp(i, j)
  BY DEF Newest, Pending
<1>6. CompletedInOrder' /\ RunOncePerFault'
  BY <1>1, <1>2, <1>3 DEF TableInv, CompletedInOrder, RunOncePerFault
<1>7. CompletedForAReason'
  <2> SUFFICES ASSUME NEW i \in Ids, rows[i].done
               PROVE  \/ rows'[i].runs > 0
                      \/ \E j \in Ids : /\ Older(i, j)' /\ SameComp(i, j)'
                                        /\ ReadWith(j, i)'
                      \/ i \in unresolved'
                      \/ Denied(i)'
    BY <1>2 DEF CompletedForAReason
  <2> QED
    BY <1>1, <1>2, <1>3 DEF TableInv, CompletedForAReason, Denied
<1>8. DropInv'
  <2>1. /\ todo' \cap triggers' = {}
        /\ \A t \in triggers' : ~rows'[t].done
    BY <1>1, <1>2, <1>4
  <2>2. \A i \in todo' : \E j \in Ids' :
           Older(i, j)' /\ SameComp(i, j)' /\ ReadWith(j, i)'
    BY <1>1, <1>2, <1>3, <1>5
  <2>3. ASSUME NEW j \in triggers' \cup todo', NEW i \in Ids',
               Older(i, j)', SameComp(i, j)', ~rows'[i].done
        PROVE  i \in todo'
    <3>1. /\ j \in Ids /\ i \in Ids /\ ~rows[j].done
          /\ SameComp(i, j) /\ Older(i, j)
      BY <1>1, <1>2, <1>4, <1>5, <2>3
    <3>2. i \in Pending /\ i \notin Newest
      BY <1>2, <2>3, <3>1 DEF Pending, Newest
    <3> QED
      BY <1>1, <3>2
  <2> QED
    BY <2>1, <2>2, <2>3 DEF DropInv
<1>9. NewerInv'
  <2> SUFFICES ASSUME NEW t \in Newest, NEW j \in Ids,
                      Older(t, j), SameComp(t, j)
               PROVE  ReadWith(j, t)' /\ rows'[j].done /\ ~ReadWith(t, j)'
    BY <1>1, <1>2, <1>4 DEF NewerInv
  <2>1. t \in Ids /\ ~rows[t].done /\ rows[j].done
    BY <1>4
  <2>2. ~ReadWith(t, j)
    BY <2>1 DEF TableInv, CompletedInOrder
  <2> QED
    BY <1>2, <1>3, <2>1, <2>2
<1>10. OlderInv' /\ SeenInv'
  <2>1. \A i \in Ids : rows'[i].seen <= Len(rows')
    BY <1>2 DEF TableInv, SeenInv
  <2>2. \A i \in Ids : ~rows[i].done => ReadWith(i, i)'
    BY <1>3
  <2> QED
    BY <1>1, <1>2, <1>4, <1>5, <2>1, <2>2 DEF OlderInv, SeenInv
<1>11. FilterInv'
  BY <1>1, <1>2 DEF TableInv, FilterInv
<1>12. RunsInv'
  BY <1>1, <1>2 DEF TableInv, RunsInv
<1> QED
  BY <1>6, <1>7, <1>8, <1>9, <1>10, <1>11, <1>12 DEF TableInv

(* The steps of a batch that write no row and add nothing to the denylist: *)
(* moving from one phase to the next, and setting a trigger aside.         *)
LEMMA PhaseStep ==
    ASSUME TypeOK, TableInv,
           \/ BeginBatch \/ QueryDenylist \/ EmptyBatch \/ PrepareSideTag
           \/ RunEnds \/ BatchDone
           \/ \E i \in Ids : ResolveUrl(i) \/ AdmitTrigger(i) \/ MarkFails(i)
    PROVE  TableInv'
<1>1. /\ UNCHANGED <<rows, denylist, unresolved>>
      /\ Ids' = Ids
      /\ faults' \in {faults, faults + 1} /\ faults \in Nat
  BY DEF BeginBatch, QueryDenylist, EmptyBatch, PrepareSideTag, RunEnds,
         BatchDone, ResolveUrl, AdmitTrigger, MarkFails, dbVars, Ids, Fault,
         TypeOK
<1>2. /\ \A i, j \in Ids : SameComp(i, j)' <=> SameComp(i, j)
      /\ \A i, j \in Ids : Older(i, j)' <=> Older(i, j)
      /\ \A i, j \in Ids : ReadWith(i, j)' <=> ReadWith(i, j)
      /\ \A i \in Ids : UrlOfRow(i)' = UrlOfRow(i)
      /\ \A i \in Ids : rows[i].runs \in Nat
  BY <1>1, RowFacts, SameRelations
<1>3. CompletedInOrder' /\ CompletedForAReason'
  BY <1>1, <1>2 DEF TableInv, CompletedInOrder, CompletedForAReason, Denied
<1>4. RunOncePerFault'
  BY <1>1, <1>2 DEF TableInv, RunOncePerFault
<1>5. DropInv'
  BY <1>1 DEF TableInv, DropInv, BeginBatch, QueryDenylist, EmptyBatch,
              PrepareSideTag, RunEnds, BatchDone, ClearBatch, ResolveUrl,
              AdmitTrigger, MarkFails
<1>6. OlderInv'
  <2>1. CASE BeginBatch
    BY <1>1, <1>2, <2>1 DEF TableInv, TypeOK, DropInv, OlderInv, BeginBatch
  <2>2. CASE ~BeginBatch
    BY <1>1, <1>2, <2>2 DEF TableInv, TypeOK, OlderInv, QueryDenylist,
       EmptyBatch, PrepareSideTag, RunEnds, BatchDone, ClearBatch,
       ResolveUrl, AdmitTrigger, MarkFails
  <2> QED
    BY <2>1, <2>2
<1>7. triggers' \cup todo' \subseteq triggers \cup todo
  BY DEF TypeOK, BeginBatch, QueryDenylist, EmptyBatch, PrepareSideTag,
     RunEnds, BatchDone, ClearBatch, ResolveUrl, AdmitTrigger, MarkFails
<1>8. NewerInv' /\ SeenInv'
  <2>1. NewerInv'
    BY <1>1, <1>2 DEF TableInv, TypeOK, NewerInv, BeginBatch, QueryDenylist,
       EmptyBatch, PrepareSideTag, RunEnds, BatchDone, ClearBatch,
       ResolveUrl, AdmitTrigger, MarkFails
  <2>2. SeenInv'
    BY <1>1, <1>2, <1>7 DEF TableInv, TypeOK, SeenInv
  <2> QED
    BY <2>1, <2>2
<1>9. FilterInv'
  <2>1. CASE BeginBatch
    BY <1>1, <1>2, <2>1 DEF TableInv, DropInv, FilterInv, BeginBatch
  <2>2. CASE QueryDenylist
    BY <1>1, <1>2, <2>2 DEF TableInv, TypeOK, FilterInv, QueryDenylist
  <2>3. CASE EmptyBatch \/ PrepareSideTag
    BY <1>1, <1>2, <2>3 DEF TableInv, TypeOK, FilterInv, EmptyBatch,
                            PrepareSideTag, Denied
  <2>4. CASE RunEnds \/ BatchDone
    BY <1>1, <1>2, <2>4 DEF TableInv, TypeOK, FilterInv, RunEnds, BatchDone,
                            ClearBatch
  <2>5. CASE \E i \in Ids : ResolveUrl(i)
    BY <1>1, <1>2, <2>5 DEF TableInv, TypeOK, FilterInv, ResolveUrl, Oldest
  <2>6. CASE \E i \in Ids : AdmitTrigger(i)
    BY <1>1, <1>2, <2>6 DEF TableInv, TypeOK, FilterInv, AdmitTrigger,
                            Oldest, Denied
  <2>7. CASE \E i \in Ids : MarkFails(i)
    BY <1>1, <1>2, <2>7 DEF TableInv, TypeOK, FilterInv, MarkFails, Oldest
  <2> QED
    BY <2>1, <2>2, <2>3, <2>4, <2>5, <2>6, <2>7
<1>10. RunsInv'
  <2>1. CASE \E i \in Ids : MarkFails(i)
    BY <1>1, <1>2, <2>1 DEF TableInv, RunOncePerFault, RunsInv, MarkFails,
                            Fault
  <2>2. CASE ~ \E i \in Ids : MarkFails(i)
    BY <1>1, <1>2, <2>2 DEF TableInv, RunsInv, PreRun, BeginBatch,
       QueryDenylist, EmptyBatch, PrepareSideTag, RunEnds, BatchDone,
       ClearBatch, ResolveUrl, AdmitTrigger
  <2> QED
    BY <2>1, <2>2
<1> QED
  BY <1>3, <1>4, <1>5, <1>6, <1>8, <1>9, <1>10 DEF TableInv

(* Submitting the batch: its rows owe their past runs to faults, and no    *)
(* newer row that came after them has been submitted.                      *)
LEMMA RunStep ==
    ASSUME TypeOK, TableInv, StartRun
    PROVE  TableInv'
<1>1. /\ Ids' = Ids /\ Len(rows') = Len(rows)
      /\ \A j \in Ids :
           /\ rows'[j].build = rows[j].build
           /\ rows'[j].seen = rows[j].seen
           /\ rows'[j].done = rows[j].done
           /\ rows[j].runs \in Nat
           /\ rows'[j].runs = IF j \in admitted THEN rows[j].runs + 1
                                               ELSE rows[j].runs
      /\ \A j, k \in Ids : SameComp(j, k)' <=> SameComp(j, k)
      /\ \A j, k \in Ids : Older(j, k)' <=> Older(j, k)
      /\ \A j, k \in Ids : ReadWith(j, k)' <=> ReadWith(j, k)
      /\ \A j \in Ids : UrlOfRow(j)' = UrlOfRow(j)
  BY StartRunFacts DEF TypeOK
<1>2. /\ pc = "sidetag" /\ pc' = "run"
      /\ UNCHANGED <<denylist, triggers, todo, withUrl, admitted,
                     unresolved, faults>>
      /\ triggers \subseteq Ids /\ admitted \subseteq triggers
      /\ todo \subseteq Ids /\ faults \in Nat
  BY DEF StartRun, TypeOK
<1>3. CompletedInOrder' /\ CompletedForAReason'
  BY <1>1, <1>2 DEF TableInv, CompletedInOrder, CompletedForAReason, Denied
<1>4. DropInv' /\ OlderInv'
  BY <1>1, <1>2 DEF TableInv, DropInv, OlderInv
<1>5. NewerInv' /\ SeenInv'
  BY <1>1, <1>2 DEF TableInv, NewerInv, SeenInv
<1>6. FilterInv'
  BY <1>1, <1>2 DEF TableInv, FilterInv, TypeOK
<1>7. \A i \in admitted : rows[i].runs <= faults
  BY <1>2 DEF TableInv, FilterInv, RunsInv, PreRun
<1>8. RunOncePerFault' /\ RunsInv'
  BY <1>1, <1>2, <1>7 DEF TableInv, RunOncePerFault, RunsInv, PreRun
<1> QED
  BY <1>3, <1>4, <1>5, <1>6, <1>8 DEF TableInv

(* The denylist only grows once the batch has been submitted.              *)
LEMMA RecordStep ==
    ASSUME TypeOK, TableInv, NEW failed \in SUBSET admitted,
           RecordFailures(failed)
    PROVE  TableInv'
<1>1. /\ UNCHANGED <<rows, unresolved, triggers, todo, withUrl, admitted,
                     faults>>
      /\ Ids' = Ids
      /\ pc = "run" /\ pc' = "finalize"
      /\ denylist \subseteq denylist'
      /\ \A i, j \in Ids : SameComp(i, j)' <=> SameComp(i, j)
      /\ \A i, j \in Ids : Older(i, j)' <=> Older(i, j)
      /\ \A i, j \in Ids : ReadWith(i, j)' <=> ReadWith(i, j)
      /\ \A i \in Ids : UrlOfRow(i)' = UrlOfRow(i)
  BY SameRelations DEF RecordFailures, Ids
<1>2. CompletedInOrder' /\ CompletedForAReason'
  BY <1>1 DEF TableInv, CompletedInOrder, CompletedForAReason, Denied
<1>3. DropInv' /\ OlderInv' /\ NewerInv' /\ SeenInv'
  BY <1>1 DEF TableInv, TypeOK, DropInv, OlderInv, NewerInv, SeenInv
<1>4. FilterInv'
  BY <1>1 DEF TableInv, TypeOK, FilterInv
<1>5. RunOncePerFault' /\ RunsInv'
  BY <1>1 DEF TableInv, RunOncePerFault, RunsInv, PreRun
<1> QED
  BY <1>2, <1>3, <1>4, <1>5 DEF TableInv

-----------------------------------------------------------------------------
(* The invariant is inductive.                                             *)

(* The initial state has no message, no row and no batch.                  *)
LEMMA InitInv == Init => IInv
<1> SUFFICES ASSUME Init PROVE IInv
  OBVIOUS
<1>1. Ids = {} /\ rows \in Seq(Row)
  BY DEF Init, Ids
<1>2. TypeOK
  <2>1. /\ tagged \in 0 .. NumTags /\ broker \subseteq 1 .. tagged
        /\ nacked \subseteq broker /\ handling \in broker \cup {NoMessage}
        /\ stamp \in 0 .. clock /\ clock \in Nat /\ inserts \subseteq Insertion
        /\ faults \in Nat /\ manual \in Nat
    BY NumAssumption DEF Init, NoStamp
  <2>2. /\ stored \in BOOLEAN /\ paused \in BOOLEAN /\ running \in BOOLEAN
        /\ stored => handling # NoMessage
    BY DEF Init
  <2>3. /\ denylist \subseteq Urls /\ pc \in Phases
        /\ triggers \subseteq Ids /\ todo \subseteq Ids
        /\ withUrl \subseteq triggers /\ admitted \subseteq withUrl
        /\ unresolved \subseteq Ids
    BY DEF Init, Phases
  <2> QED
    BY <1>1, <2>1, <2>2, <2>3 DEF TypeOK
<1>3. BusInv
  BY <1>1 DEF Init, BusInv, NoLostTrigger, StoredInv, InsertInv, StampInv
<1>4. TableInv
  BY <1>1 DEF Init, TableInv, CompletedInOrder, DropInv, OlderInv, NewerInv,
     SeenInv, FilterInv, RunOncePerFault, RunsInv, CompletedForAReason
<1> QED
  BY <1>2, <1>3, <1>4 DEF IInv

(* A step of the batch says nothing of messages and inserts, and keeps     *)
(* every row's build and created_at.                                       *)
LEMMA BusFrame ==
    ASSUME BusInv, UNCHANGED <<tagged, broker, consumerVars, insertVars>>,
           Ids' = Ids,
           \A i \in Ids : /\ rows'[i].build = rows[i].build
                          /\ rows'[i].at = rows[i].at
    PROVE  BusInv'
<1> USE DEF consumerVars, insertVars
<1>1. NoLostTrigger' /\ StoredInv'
  BY DEF BusInv, NoLostTrigger, StoredInv
<1>2. InsertInv' /\ StampInv'
  BY DEF BusInv, InsertInv, StampInv
<1> QED
  BY <1>1, <1>2 DEF BusInv

(* The handler's INSERT outlives it, or is gone with it; one of another    *)
(* task is gone.                                                           *)
LEMMA LetGoBus ==
    ASSUME TypeOK, BusInv, UNCHANGED <<tagged, broker, clock, rows>>,
           \/ /\ ~stored' /\ stamp' = NoStamp
              /\ inserts' \subseteq inserts \cup OwnInsert
           \/ UNCHANGED consumerVars /\ inserts' \subseteq inserts
    PROVE  BusInv' /\ inserts' \subseteq Insertion
<1>1. Ids' = Ids
  BY DEF Ids
<1>2. NoLostTrigger' /\ StoredInv'
  BY <1>1 DEF BusInv, NoLostTrigger, StoredInv, consumerVars, NoStamp
<1>3. \A r \in OwnInsert :
         /\ stamp # NoStamp /\ r.build = handling /\ r.at = stamp
         /\ r \in Insertion
         /\ r.build \in 1 .. tagged /\ CompOf[r.build] \in Eligible
  <2>1. CASE stamp = NoStamp
    BY <2>1 DEF OwnInsert
  <2>2. CASE stamp # NoStamp
    <3>1. /\ handling \in 1 .. tagged /\ CompOf[handling] \in Eligible
          /\ handling \in Builds /\ stamp \in Nat
      <4>1. /\ tagged \in 0 .. NumTags /\ broker \subseteq 1 .. tagged
            /\ handling \in broker \cup {NoMessage}
            /\ stamp \in 0 .. clock /\ clock \in Nat
        BY DEF TypeOK
      <4>2. handling # NoMessage /\ CompOf[handling] \in Eligible
        BY <2>2 DEF BusInv, StoredInv
      <4> QED
        BY <4>1, <4>2, NumAssumption DEF Builds
    <3>2. OwnInsert = {[build |-> handling, at |-> stamp]}
      BY <2>2 DEF OwnInsert
    <3> QED
      BY <2>2, <3>1, <3>2 DEF Insertion
  <2> QED
    BY <2>1, <2>2
<1>4. InsertInv'
  BY <1>3 DEF BusInv, InsertInv
<1>5. StampInv'
  <2>1. stamp \in 0 .. clock /\ clock \in Nat
    BY DEF TypeOK
  <2>2. /\ \A i \in Ids : rows[i].at \in 1 .. clock /\ rows[i].at # stamp
        /\ \A r \in inserts : /\ r.at \in 1 .. clock /\ r.at # stamp
                              /\ \A i \in Ids : rows[i].at # r.at
        /\ \A r, q \in inserts : r.at = q.at => r = q
    BY DEF BusInv, StampInv
  <2>3. \A r, q \in OwnInsert : r = q
    BY DEF OwnInsert
  <2>4. /\ \A r \in OwnInsert : /\ r.at \in 1 .. clock
                                /\ \A i \in Ids : rows[i].at # r.at
        /\ \A r \in OwnInsert, q \in inserts : r.at # q.at
    BY <1>3, <2>1, <2>2 DEF NoStamp
  <2>5. CASE UNCHANGED consumerVars /\ inserts' \subseteq inserts
    BY <1>1, <2>2, <2>5 DEF StampInv, consumerVars
  <2>6. CASE stamp' = NoStamp /\ inserts' \subseteq inserts \cup OwnInsert
    <3>1. /\ \A r \in inserts' : /\ r.at \in 1 .. clock
                                 /\ \A i \in Ids : rows[i].at # r.at
          /\ \A r, q \in inserts' : r.at = q.at => r = q
      BY <2>2, <2>3, <2>4, <2>6
    <3>2. \A n \in 1 .. clock : n # NoStamp
      BY <2>1 DEF NoStamp
    <3> QED
      BY <1>1, <2>2, <2>6, <3>1, <3>2 DEF StampInv
  <2> QED
    BY <2>5, <2>6
<1>6. inserts' \subseteq Insertion
  BY <1>3 DEF TypeOK
<1> QED
  BY <1>2, <1>4, <1>5, <1>6 DEF BusInv

(* A row appears: the handler's, or one of another task.                   *)
LEMMA CommitBus ==
    ASSUME TypeOK, BusInv, CommitTrigger \/ \E r \in inserts : CommitInsert(r)
    PROVE  /\ TypeOK' /\ BusInv'
           /\ \E b \in Builds, t \in Nat :
                 /\ Commit(b, t)
                 /\ b \in 1 .. tagged \/ b \in Builds \ Tags
                 /\ CompOf[b] \in Eligible
                 /\ t \in 1 .. clock /\ \A i \in Ids : rows[i].at # t
<1>1. stamp \in 0 .. clock /\ clock \in Nat /\ inserts \subseteq Insertion
  BY DEF TypeOK
<1>2. /\ \A i \in Ids : rows[i].at \in 1 .. clock /\ rows[i].at # stamp
      /\ \A r \in inserts : /\ r.at \in 1 .. clock /\ r.at # stamp
                            /\ \A i \in Ids : rows[i].at # r.at
      /\ \A r, q \in inserts : r.at = q.at => r = q
  BY DEF BusInv, StampInv
<1>3. PICK b \in Builds, t \in 1 .. clock :
         /\ Commit(b, t)
         /\ b \in 1 .. tagged \/ b \in Builds \ Tags
         /\ CompOf[b] \in Eligible
         /\ \A i \in Ids : rows[i].at # t
         /\ t # stamp' /\ inserts' \subseteq inserts
         /\ \A r \in inserts' : r.at # t
         /\ \/ /\ stamp' = NoStamp /\ stored' = TRUE /\ b = handling
               /\ handling # NoMessage
            \/ UNCHANGED <<stamp, stored>>
         /\ stamp' \in {stamp, NoStamp}
  <2>1. CASE CommitTrigger
    <3>1. /\ handling \in 1 .. tagged /\ CompOf[handling] \in Eligible
          /\ handling \in Builds /\ handling # NoMessage
      <4>1. /\ tagged \in 0 .. NumTags /\ broker \subseteq 1 .. tagged
            /\ handling \in broker \cup {NoMessage}
        BY DEF TypeOK
      <4>2. handling # NoMessage /\ CompOf[handling] \in Eligible
        BY <2>1 DEF CommitTrigger, BusInv, StoredInv
      <4> QED
        BY <4>1, <4>2, NumAssumption DEF Builds
    <3>2. stamp \in 1 .. clock
      BY <1>1, <2>1 DEF CommitTrigger, NoStamp
    <3>3. /\ Commit(handling, stamp) /\ stamp' = NoStamp /\ stored' = TRUE
          /\ inserts' = inserts /\ stamp # stamp'
      BY <2>1 DEF CommitTrigger, insertVars
    <3> QED
      BY <1>2, <3>1, <3>2, <3>3
  <2>2. CASE \E r \in inserts : CommitInsert(r)
    <3>1. PICK r \in inserts : CommitInsert(r)
      BY <2>2
    <3>2. /\ r.build \in Builds /\ r.at \in 1 .. clock
          /\ r.build \in 1 .. tagged \/ r.build \in Builds \ Tags
          /\ CompOf[r.build] \in Eligible
      BY <1>1, <1>2 DEF Insertion, BusInv, InsertInv
    <3>3. /\ Commit(r.build, r.at) /\ inserts' = inserts \ {r}
          /\ UNCHANGED <<stamp, stored>>
      BY <3>1 DEF CommitInsert, consumerVars
    <3> QED
      BY <1>2, <3>2, <3>3
  <2> QED
    BY <2>1, <2>2
<1>4. UNCHANGED <<tagged, broker, nacked, handling, clock, denylist, paused,
                  running, pc, triggers, todo, withUrl, admitted, unresolved,
                  faults, manual>>
  BY DEF CommitTrigger, CommitInsert, busVars, consumerVars, insertVars,
         batchVars
<1>5. PICK n : n = Len(rows) + 1
  OBVIOUS
<1>6. /\ rows' \in Seq(Row) /\ Ids' = Ids \cup {n}
      /\ \A i \in Ids : rows'[i] = rows[i]
      /\ rows'[n].build = b /\ rows'[n].at = t
  <2>1. t \in Nat /\ NewRow(b, t).build = b /\ NewRow(b, t).at = t
    BY <1>1 DEF NewRow
  <2> QED
    BY <1>3, <1>5, <2>1, AppendFacts DEF TypeOK
<1>7. TypeOK'
  <2>1. /\ stamp' \in 0 .. clock' /\ clock' \in Nat
        /\ inserts' \subseteq Insertion
    BY <1>1, <1>3, <1>4 DEF NoStamp
  <2>2. stored' \in BOOLEAN /\ (stored' => handling' # NoMessage)
    <3>1. /\ stored \in BOOLEAN /\ (stored => handling # NoMessage)
          /\ handling' = handling
      BY <1>4 DEF TypeOK
    <3>2. CASE UNCHANGED stored
      BY <3>1, <3>2
    <3>3. CASE stored' = TRUE /\ handling # NoMessage
      BY <3>1, <3>3
    <3> QED
      BY <1>3, <3>2, <3>3
  <2> QED
    BY <1>4, <1>6, <2>1, <2>2 DEF TypeOK
<1>8. NoLostTrigger'
  BY <1>4, <1>6 DEF BusInv, NoLostTrigger
<1>9. StoredInv'
  BY <1>3, <1>4, <1>6 DEF BusInv, StoredInv
<1>10. InsertInv'
  BY <1>3, <1>4 DEF BusInv, InsertInv
<1>11. StampInv'
  <2>1. \A m \in 1 .. clock : m # NoStamp
    BY <1>1 DEF NoStamp
  <2>2. /\ \A i \in Ids' : rows'[i].at \in 1 .. clock
        /\ \A i \in Ids' : rows'[i].at # stamp'
    BY <1>2, <1>3, <1>6, <2>1
  <2>3. \A r \in inserts' : /\ r.at \in 1 .. clock /\ r.at # stamp'
                            /\ \A i \in Ids' : rows'[i].at # r.at
    BY <1>2, <1>3, <1>6, <2>1
  <2>4. \A r, q \in inserts' : r.at = q.at => r = q
    BY <1>2, <1>3
  <2> QED
    BY <1>4, <2>2, <2>3, <2>4 DEF StampInv
<1>12. t \in Nat
  BY <1>1
<1> QED
  BY <1>3, <1>7, <1>8, <1>9, <1>10, <1>11, <1>12 DEF BusInv

(* Rows that appear leave what is known of the table true.                 *)
LEMMA CommitInv ==
    ASSUME TypeOK, BusInv, TableInv,
           CommitTrigger \/ \E r \in inserts : CommitInsert(r)
    PROVE  (TypeOK /\ BusInv /\ TableInv)'
<1>1. PICK b \in Builds, t \in Nat : Commit(b, t)
  BY CommitBus
<1>2. UNCHANGED <<denylist, batchVars, unresolved, faults>>
  BY DEF CommitTrigger, CommitInsert
<1> QED
  BY <1>1, <1>2, CommitBus, InsertStep

(* An INSERT begins, with a created_at that no row has.                    *)
LEMMA BeginInv ==
    ASSUME TypeOK, BusInv, TableInv,
           StoreTrigger \/ \E b \in Builds : Enqueue(b)
    PROVE  (TypeOK /\ BusInv /\ TableInv)'
<1>1. /\ UNCHANGED <<tagged, broker, nacked, handling, stored, rows, denylist,
                     paused, running, pc, triggers, todo, withUrl, admitted,
                     unresolved, faults>>
      /\ clock' = clock + 1 /\ Ids' = Ids
      /\ UNCHANGED <<dbVars, batchVars>>
  BY DEF StoreTrigger, Enqueue, busVars, consumerVars, dbVars, batchVars, Ids
<1>2. PICK t : t = clock + 1
  OBVIOUS
<1>3. clock \in Nat /\ t \in Nat /\ stamp \in 0 .. clock
  BY <1>2 DEF TypeOK
<1>4. /\ \A i \in Ids : rows[i].at \in 1 .. clock /\ rows[i].at # stamp
      /\ \A r \in inserts : /\ r.at \in 1 .. clock /\ r.at # stamp
                            /\ \A i \in Ids : rows[i].at # r.at
      /\ \A r, q \in inserts : r.at = q.at => r = q
  BY DEF BusInv, StampInv
<1>5. /\ t \in 1 .. t /\ stamp # t /\ t # NoStamp
      /\ \A m \in 1 .. clock : m # t /\ m \in 1 .. t
  BY <1>2, <1>3 DEF NoStamp
<1>6. TableInv'
  BY <1>1, QuietStep DEF TypeOK
<1>7. NoLostTrigger'
  BY <1>1 DEF BusInv, NoLostTrigger
<1>8. CASE StoreTrigger
  <2>1. /\ stamp' = t /\ clock' = t /\ UNCHANGED <<inserts, manual>>
        /\ handling # NoMessage /\ ~stored /\ CompOf[handling] \in Eligible
    BY <1>2, <1>8 DEF StoreTrigger
  <2>2. TypeOK'
    BY <1>1, <1>3, <1>5, <2>1 DEF TypeOK
  <2>3. StoredInv' /\ InsertInv'
    BY <1>1, <2>1 DEF BusInv, StoredInv, InsertInv
  <2>4. StampInv'
    BY <1>1, <1>4, <1>5, <2>1 DEF StampInv
  <2> QED
    BY <1>6, <1>7, <2>2, <2>3, <2>4 DEF BusInv
<1>9. CASE \E b \in Builds : Enqueue(b)
  <2>1. PICK b \in Builds : Enqueue(b)
    BY <1>9
  <2>2. PICK r : r = [build |-> b, at |-> t]
    OBVIOUS
  <2>3. /\ r \in Insertion /\ r.build = b /\ r.at = t
        /\ b \in 1 .. tagged \/ b \in Builds \ Tags
        /\ CompOf[b] \in Eligible
        /\ inserts' = inserts \cup {r} /\ clock' = t /\ manual' = manual + 1
        /\ UNCHANGED stamp
    BY <1>2, <1>3, <2>1, <2>2 DEF Enqueue, Insertion, consumerVars
  <2>4. TypeOK'
    <3>1. stamp' \in 0 .. clock' /\ manual' \in Nat
      BY <1>2, <1>3, <2>3 DEF TypeOK
    <3> QED
      BY <1>1, <1>3, <2>3, <3>1 DEF TypeOK
  <2>5. StoredInv' /\ InsertInv'
    BY <1>1, <2>3 DEF BusInv, StoredInv, InsertInv
  <2>6. StampInv'
    <3>1. \A i \in Ids' : rows'[i].at \in 1 .. clock' /\ rows'[i].at # stamp'
      BY <1>1, <1>4, <1>5, <2>3
    <3>2. \A q \in inserts' : /\ q.at \in 1 .. clock' /\ q.at # stamp'
                              /\ \A i \in Ids' : rows'[i].at # q.at
      BY <1>1, <1>4, <1>5, <2>3
    <3>3. \A p, q \in inserts' : p.at = q.at => p = q
      BY <1>4, <1>5, <2>3
    <3> QED
      BY <3>1, <3>2, <3>3 DEF StampInv
  <2> QED
    BY <1>6, <1>7, <2>4, <2>5, <2>6 DEF BusInv
<1> QED
  BY <1>8, <1>9

(* An INSERT is abandoned, by its handler or its task, or by all of them   *)
(* in a crash; or the acknowledgement is.                                  *)
LEMMA LetGoInv ==
    ASSUME TypeOK, BusInv, TableInv,
           \/ StoreFails \/ AckLost \/ Crash
           \/ \E r \in inserts : InsertFails(r)
    PROVE  (TypeOK /\ BusInv /\ TableInv)'
<1> USE DEF busVars, consumerVars, insertVars, dbVars
<1>1. /\ UNCHANGED <<tagged, broker, clock, rows, denylist, unresolved>>
      /\ Ids' = Ids
      /\ \/ /\ ~stored' /\ stored' \in BOOLEAN /\ stamp' = NoStamp
            /\ handling' = NoMessage
            /\ inserts' \subseteq inserts \cup OwnInsert
         \/ UNCHANGED consumerVars /\ inserts' \subseteq inserts
      /\ faults \in Nat /\ faults' = faults + 1
      /\ UNCHANGED manual
      /\ nacked' \subseteq broker
      /\ \/ UNCHANGED batchVars /\ UNCHANGED paused
         \/ ClearBatch /\ paused' \in BOOLEAN
  <2>1. CASE StoreFails
    <3>1. handling \in broker
      BY <2>1 DEF StoreFails, TypeOK, BusInv, StoredInv
    <3> QED
      BY <2>1, <3>1 DEF StoreFails, Fault, TypeOK, Ids, BusInv, StoredInv
  <2>2. CASE AckLost
    BY <2>2 DEF AckLost, Fault, TypeOK, Ids, BusInv, StoredInv
  <2>3. CASE Crash
    BY <2>3 DEF Crash, Fault, TypeOK, Ids
  <2>4. CASE \E r \in inserts : InsertFails(r)
    BY <2>4 DEF InsertFails, Fault, TypeOK, Ids
  <2> QED
    BY <2>1, <2>2, <2>3, <2>4
<1>2. BusInv' /\ inserts' \subseteq Insertion
  BY <1>1, LetGoBus
<1>3. TypeOK'
  <2>1. /\ handling' \in broker' \cup {NoMessage} /\ stored' \in BOOLEAN
        /\ stored' => handling' # NoMessage
        /\ stamp' \in 0 .. clock'
    BY <1>1 DEF TypeOK, NoStamp
  <2>2. /\ running' \in BOOLEAN /\ paused' \in BOOLEAN /\ pc' \in Phases
        /\ triggers' \subseteq Ids' /\ todo' \subseteq Ids'
        /\ withUrl' \subseteq triggers' /\ admitted' \subseteq withUrl'
    BY <1>1 DEF TypeOK, batchVars, ClearBatch, Phases
  <2>3. faults' \in Nat
    BY <1>1
  <2> QED
    BY <1>1, <1>2, <2>1, <2>2, <2>3 DEF TypeOK
<1>4. TableInv'
  <2>1. CASE UNCHANGED batchVars
    <3>1. faults' \in Nat /\ faults <= faults'
      BY <1>1
    <3> QED
      BY <1>1, <2>1, <3>1, QuietStep
  <2>2. CASE ClearBatch
    BY <1>1, <2>2, AbandonStep
  <2> QED
    BY <1>1, <2>1, <2>2
<1> QED
  BY <1>2, <1>3, <1>4

(* The bus, and the messages the consumer takes and lets go.               *)
LEMMA MessageInv ==
    ASSUME TypeOK, BusInv, TableInv,
           \/ KojiTags \/ DropMessage \/ Ack
           \/ \E m \in Tags : Deliver(m)
    PROVE  (TypeOK /\ BusInv /\ TableInv)'
<1> USE DEF insertVars
<1>1. /\ UNCHANGED <<rows, denylist, paused, running, pc, triggers, todo,
                     withUrl, admitted, unresolved, faults>>
      /\ UNCHANGED <<dbVars, batchVars>>
      /\ UNCHANGED <<stamp, clock, inserts, manual>> /\ Ids' = Ids
  BY DEF KojiTags, DropMessage, Ack, Deliver, consumerVars, dbVars,
         batchVars, Ids
<1>2. TableInv'
  BY <1>1, QuietStep DEF TypeOK
<1>3. StampInv'
  BY <1>1 DEF BusInv, StampInv
<1>4. CASE KojiTags
  <2>1. /\ tagged \in 0 .. NumTags /\ NumTags \in Nat /\ tagged < NumTags
        /\ tagged' = tagged + 1 /\ broker' = broker \cup {tagged + 1}
        /\ UNCHANGED <<nacked, handling, stored>>
    BY <1>4, NumAssumption DEF KojiTags, TypeOK, consumerVars
  <2>2. /\ 1 .. tagged' = (1 .. tagged) \cup {tagged + 1}
        /\ tagged' \in 0 .. NumTags
    BY <2>1
  <2>3. TypeOK'
    BY <1>1, <2>1, <2>2 DEF TypeOK
  <2>4. NoLostTrigger' /\ StoredInv' /\ InsertInv'
    BY <1>1, <2>1, <2>2 DEF BusInv, NoLostTrigger, StoredInv, InsertInv
  <2> QED
    BY <1>2, <1>3, <2>3, <2>4 DEF BusInv
<1>5. CASE DropMessage \/ Ack
  <2>1. /\ tagged' = tagged /\ broker' = broker \ {handling}
        /\ nacked' = nacked \ {handling}
        /\ handling # NoMessage /\ handling' = NoMessage /\ stored' = FALSE
        /\ \/ CompOf[handling] \notin Eligible
           \/ \E i \in Ids : rows[i].build = handling
        /\ stamp = NoStamp
    BY <1>5 DEF DropMessage, Ack, TypeOK, BusInv, StoredInv
  <2>2. TypeOK'
    BY <1>1, <2>1 DEF TypeOK
  <2>3. NoLostTrigger' /\ StoredInv' /\ InsertInv'
    BY <1>1, <2>1 DEF BusInv, NoLostTrigger, StoredInv, InsertInv
  <2> QED
    BY <1>2, <1>3, <2>2, <2>3 DEF BusInv
<1>6. CASE \E m \in Tags : Deliver(m)
  <2>1. PICK m \in Tags : Deliver(m)
    BY <1>6
  <2>2. /\ UNCHANGED <<tagged, broker, nacked, stored>> /\ handling' = m
        /\ m \in broker /\ handling = NoMessage
    BY <2>1 DEF Deliver, busVars
  <2>3. ~stored /\ stamp = NoStamp
    BY <2>2 DEF TypeOK, BusInv, StoredInv
  <2>4. TypeOK'
    BY <1>1, <2>2, <2>3 DEF TypeOK
  <2>5. NoLostTrigger' /\ StoredInv' /\ InsertInv'
    BY <1>1, <2>2, <2>3 DEF BusInv, NoLostTrigger, StoredInv, InsertInv
  <2> QED
    BY <1>2, <1>3, <2>4, <2>5 DEF BusInv
<1> QED
  BY <1>4, <1>5, <1>6

(* process_message_batch.                                                  *)
LEMMA BatchInv ==
    ASSUME TypeOK, BusInv, TableInv, BatchStep \/ BatchFault
    PROVE  (TypeOK /\ BusInv /\ TableInv)'
<1> USE DEF consumerVars, insertVars
<1>1. CASE \/ BeginBatch \/ QueryDenylist \/ EmptyBatch \/ PrepareSideTag
           \/ RunEnds \/ BatchDone \/ SideTagTimeout \/ InitRaises
           \/ \E i \in Ids : ResolveUrl(i) \/ AdmitTrigger(i) \/ MarkFails(i)
  <2>1. /\ rows' = rows /\ Ids' = Ids
        /\ UNCHANGED <<busVars, consumerVars, insertVars>>
    BY <1>1 DEF BeginBatch, QueryDenylist, EmptyBatch,
       PrepareSideTag, RunEnds, BatchDone, SideTagTimeout, InitRaises,
       ResolveUrl, AdmitTrigger, MarkFails, dbVars, Ids
  <2>2. TypeOK'
    <3>2. CASE BeginBatch \/ QueryDenylist \/ EmptyBatch \/ PrepareSideTag
      BY <2>1, <3>2 DEF BeginBatch, QueryDenylist, EmptyBatch,
         PrepareSideTag, TypeOK, Phases, busVars, dbVars
    <3>3. CASE RunEnds \/ SideTagTimeout
      BY <2>1, <3>3 DEF RunEnds, SideTagTimeout, Fault, TypeOK, Phases,
         busVars, dbVars, batchVars
    <3>4. CASE BatchDone \/ InitRaises
      <4>1. ClearBatch /\ UNCHANGED <<denylist, paused, unresolved>>
        BY <3>4 DEF BatchDone, InitRaises, dbVars
      <4>2. running' \in BOOLEAN /\ pc' \in Phases
        BY <4>1 DEF ClearBatch, Phases
      <4>3. faults' \in Nat
        BY <3>4 DEF BatchDone, InitRaises, Fault, TypeOK
      <4> QED
        BY <2>1, <4>1, <4>2, <4>3 DEF ClearBatch, TypeOK, busVars
    <3>5. CASE \E i \in Ids : ResolveUrl(i)
      BY <2>1, <3>5 DEF ResolveUrl, Oldest, TypeOK, TableInv, OlderInv,
         busVars, dbVars
    <3>6. CASE \E i \in Ids : AdmitTrigger(i)
      <4> PICK i \in Ids : AdmitTrigger(i)
        BY <3>6
      <4>1. i \in withUrl
        BY DEF AdmitTrigger, Oldest, TypeOK, TableInv, FilterInv
      <4> QED
        BY <2>1, <4>1 DEF AdmitTrigger, TypeOK, busVars, dbVars
    <3>7. CASE \E i \in Ids : MarkFails(i)
      BY <2>1, <3>7 DEF MarkFails, Fault, TypeOK, busVars, dbVars
    <3> QED
      BY <1>1, <3>2, <3>3, <3>4, <3>5, <3>6, <3>7
  <2>3. BusInv'
    BY <2>1, BusFrame DEF busVars
  <2>4. TableInv'
    <3>1. CASE \/ BeginBatch \/ QueryDenylist \/ EmptyBatch
               \/ PrepareSideTag \/ RunEnds \/ BatchDone
               \/ \E i \in Ids : \/ ResolveUrl(i) \/ AdmitTrigger(i)
                                \/ MarkFails(i)
      BY <3>1, PhaseStep
    <3>2. CASE SideTagTimeout
      <4>1. /\ UNCHANGED <<dbVars, batchVars, unresolved>>
            /\ faults' \in Nat /\ faults <= faults'
        BY <3>2 DEF SideTagTimeout, Fault, TypeOK
      <4> QED
        BY <4>1, QuietStep
    <3>3. CASE InitRaises
      <4>1. /\ ClearBatch /\ UNCHANGED <<dbVars, unresolved>>
            /\ faults' = faults + 1
        BY <3>3 DEF InitRaises, Fault
      <4> QED
        BY <4>1, AbandonStep
    <3> QED
      BY <1>1, <3>1, <3>2, <3>3
  <2> QED
    BY <2>2, <2>3, <2>4
<1>2. CASE \E i \in Ids : \/ DropSuperseded(i) \/ UrlUnavailable(i)
                          \/ DenyTrigger(i) \/ MarkCompleted(i)
  <2> PICK i \in Ids : \/ DropSuperseded(i) \/ UrlUnavailable(i)
                       \/ DenyTrigger(i) \/ MarkCompleted(i)
    BY <1>2
  <2>1. /\ Complete(i) /\ i \in todo /\ todo' = todo \ {i}
        /\ UNCHANGED <<busVars, consumerVars, insertVars, denylist, pc,
                       triggers, withUrl, admitted, faults, paused, running>>
        /\ unresolved' \in {unresolved, unresolved \cup {i}}
    BY DEF DropSuperseded, UrlUnavailable, DenyTrigger, MarkCompleted, Oldest
  <2>2. /\ rows' \in Seq(Row) /\ Ids' = Ids
        /\ \A j \in Ids : rows'[j].build = rows[j].build /\ rows'[j].at = rows[j].at
    BY <2>1, CompleteFacts DEF TypeOK
  <2>3. TypeOK'
    BY <2>1, <2>2 DEF TypeOK, busVars
  <2>4. BusInv'
    BY <2>1, <2>2, BusFrame DEF busVars
  <2>5. TableInv'
    <3>1. CASE DropSuperseded(i)
      BY <3>1, DropStep
    <3>2. CASE UrlUnavailable(i) \/ DenyTrigger(i)
      BY <2>1, <3>2, CompleteStep DEF UrlUnavailable, DenyTrigger
    <3>3. CASE MarkCompleted(i)
      <4>1. pc = "complete" /\ unresolved' = unresolved /\ i \in triggers
        BY <2>1, <3>3 DEF MarkCompleted, TableInv, OlderInv
      <4>2. rows[i].runs > 0 \/ rows[i].done
        BY <4>1 DEF TableInv, FilterInv
      <4> QED
        BY <2>1, <4>1, <4>2, CompleteStep
    <3> QED
      BY <3>1, <3>2, <3>3
  <2> QED
    BY <2>3, <2>4, <2>5
<1>3. CASE StartRun
  <2>1. /\ rows' \in Seq(Row) /\ Ids' = Ids
        /\ \A j \in Ids : rows'[j].build = rows[j].build /\ rows'[j].at = rows[j].at
    BY <1>3, StartRunFacts DEF TypeOK
  <2>2. TypeOK'
    BY <1>3, <2>1 DEF StartRun, TypeOK, Phases, busVars
  <2>3. BusInv'
    BY <1>3, <2>1, BusFrame DEF StartRun, busVars
  <2> QED
    BY <1>3, <2>2, <2>3, RunStep
<1>4. CASE \E failed \in SUBSET admitted : RecordFailures(failed)
  <2> PICK failed \in SUBSET admitted : RecordFailures(failed)
    BY <1>4
  <2>1. rows' = rows /\ Ids' = Ids
    BY DEF RecordFailures, Ids
  <2>2. denylist' \subseteq Urls
    <3>1. \A i \in failed : ScmUrl[rows[i].build] \in Urls
      <4>1. \A i \in failed : i \in withUrl /\ i \in Ids
        BY DEF TypeOK
      <4>2. \A i \in failed : rows[i].build \in Builds
        BY <4>1, RowFacts DEF Row
      <4>3. \A i \in failed : ScmUrl[rows[i].build] # NoUrl
        BY <4>1 DEF TableInv, FilterInv, UrlOfRow
      <4> QED
        BY <4>2, <4>3, UrlAssumption
    <3> QED
      BY <3>1 DEF RecordFailures, TypeOK, UrlOfRow
  <2>3. TypeOK'
    BY <2>1, <2>2 DEF RecordFailures, TypeOK, Phases, busVars
  <2>4. BusInv'
    BY <2>1, BusFrame DEF RecordFailures, busVars
  <2> QED
    BY <2>3, <2>4, RecordStep
<1>5. CASE SelectTriggers
  <2>1. /\ rows' \in Seq(Row) /\ Ids' = Ids
        /\ \A j \in Ids : rows'[j].build = rows[j].build /\ rows'[j].at = rows[j].at
    BY <1>5, MarkSeenFacts DEF SelectTriggers, TypeOK
  <2>2. TypeOK'
    BY <1>5, <2>1 DEF SelectTriggers, TypeOK, TableInv, FilterInv, Newest,
       Pending, Phases, busVars
  <2>3. BusInv'
    BY <1>5, <2>1, BusFrame DEF SelectTriggers, busVars
  <2> QED
    BY <1>5, <2>2, <2>3, SelectStep
<1> QED
  BY <1>1, <1>2, <1>3, <1>4, <1>5 DEF BatchStep, BatchFault

(* Every step keeps the invariant.                                         *)
LEMMA NextInv == IInv /\ [Next]_vars => IInv'
<1> SUFFICES ASSUME TypeOK, BusInv, TableInv, [Next]_vars
             PROVE  (TypeOK /\ BusInv /\ TableInv)'
  BY DEF IInv
<1>1. CASE \/ KojiTags \/ DropMessage \/ Ack
           \/ \E m \in Tags : Deliver(m)
  BY <1>1, MessageInv
<1>2. CASE StoreTrigger \/ \E b \in Builds : Enqueue(b)
  BY <1>2, BeginInv
<1>3. CASE CommitTrigger \/ \E r \in inserts : CommitInsert(r)
  BY <1>3, CommitInv
<1>4. CASE \/ StoreFails \/ AckLost \/ Crash
           \/ \E r \in inserts : InsertFails(r)
  BY <1>4, LetGoInv
<1>5. CASE BatchStep \/ BatchFault
  BY <1>5, BatchInv
<1>6. CASE TogglePause \/ UNCHANGED vars
  <2>1. /\ paused' \in BOOLEAN
        /\ UNCHANGED <<busVars, consumerVars, insertVars, dbVars, batchVars,
                       unresolved, faults>>
    BY <1>6 DEF TogglePause, TypeOK, vars
  <2>2. TypeOK'
    BY <2>1 DEF TypeOK, busVars, consumerVars, insertVars, dbVars, batchVars,
                Ids
  <2>3. BusInv'
    BY <2>1, BusFrame DEF busVars, dbVars, Ids
  <2>4. TableInv'
    BY <2>1, QuietStep DEF TypeOK
  <2> QED
    BY <2>2, <2>3, <2>4
<1> QED
  BY <1>1, <1>2, <1>3, <1>4, <1>5, <1>6 DEF Next, ConsumerStep, ConsumerFault

-----------------------------------------------------------------------------
(* What follows for every run of the program.                              *)

(* The strengthened invariant holds of every reachable state.              *)
THEOREM Invariance == Spec => []IInv
<1> QED
  BY InitInv, NextInv, PTL DEF Spec

(* Type correctness of the pipeline's state.                               *)
THEOREM TypeCorrect == Spec => []TypeOK
<1>1. IInv => TypeOK
  BY DEF IInv
<1> QED
  BY <1>1, Invariance, PTL

(* No tag event of an eligible component is lost between the broker and    *)
(* the table.                                                              *)
THEOREM NoTriggerLost == Spec => []NoLostTrigger
<1>1. IInv => NoLostTrigger
  BY DEF IInv, BusInv
<1> QED
  BY <1>1, Invariance, PTL

(* Of the rows of a component that were read together, none is completed   *)
(* before an older one, across crashes.                                    *)
THEOREM InOrder == Spec => []CompletedInOrder
<1>1. IInv => CompletedInOrder
  BY DEF IInv, TableInv
<1> QED
  BY <1>1, Invariance, PTL

(* A row is submitted at most once more than faults have occurred.         *)
THEOREM BoundedRuns == Spec => []RunOncePerFault
<1>1. IInv => RunOncePerFault
  BY DEF IInv, TableInv
<1> QED
  BY <1>1, Invariance, PTL

(* No row is completed without one of the documented reasons.              *)
THEOREM CompletionJustified == Spec => []CompletedForAReason
<1>1. IInv => CompletedForAReason
  BY DEF IInv, TableInv
<1> QED
  BY <1>1, Invariance, PTL

(* Only StartRun submits rows; it submits those the batch admitted.        *)
LEMMA OnlyStartRun ==
    ASSUME IInv, [Next]_vars, NEW i \in Ids, rows'[i].runs # rows[i].runs
    PROVE  StartRun /\ i \in admitted
<1> USE DEF IInv
<1>1. CASE StartRun
  BY <1>1, StartRunFacts DEF TypeOK
<1>2. CASE \E k \in Ids : Complete(k)
  BY <1>2, CompleteFacts DEF TypeOK
<1>3. CASE CommitTrigger \/ \E r \in inserts : CommitInsert(r)
  <2>1. PICK b \in Builds, t \in Nat : Commit(b, t)
    BY <1>3, CommitBus
  <2> QED
    BY <2>1, AppendFacts DEF TypeOK
<1>4. CASE MarkSeen
  BY <1>4, MarkSeenFacts DEF TypeOK
<1>5. \/ StartRun \/ \E k \in Ids : Complete(k)
      \/ CommitTrigger \/ \E r \in inserts : CommitInsert(r)
      \/ MarkSeen \/ rows' = rows
  <2>1. CASE KojiTags \/ ConsumerStep \/ ConsumerFault \/ TogglePause \/ Crash
    BY <2>1 DEF ConsumerStep, ConsumerFault, KojiTags, Deliver, DropMessage,
       StoreTrigger, StoreFails, Ack, AckLost, TogglePause, Crash, dbVars
  <2>2. CASE BatchStep \/ BatchFault
    BY <2>2 DEF BatchStep, BatchFault, SelectTriggers, DropSuperseded,
       BeginBatch, ResolveUrl, UrlUnavailable, QueryDenylist, DenyTrigger,
       AdmitTrigger, EmptyBatch, PrepareSideTag, SideTagTimeout, InitRaises,
       RecordFailures, RunEnds, MarkCompleted, MarkFails, BatchDone, dbVars
  <2>3. CASE \/ \E b \in Builds : Enqueue(b)
             \/ \E r \in inserts : CommitInsert(r) \/ InsertFails(r)
             \/ UNCHANGED vars
    BY <2>3 DEF Enqueue, InsertFails, vars, dbVars
  <2> QED
    BY <2>1, <2>2, <2>3 DEF Next
<1> QED
  BY <1>1, <1>2, <1>3, <1>4, <1>5

(* A component is rebuilt from an older row after a newer one only when    *)
(* the batch of the newer could not have read the older.                   *)
THEOREM NeverRegresses == Spec => NoRegression
<1>1. ASSUME IInv, [Next]_vars
      PROVE  \A i \in Ids :
                rows'[i].runs # rows[i].runs =>
                   \A j \in Ids :
                      Older(i, j) /\ SameComp(i, j) /\ rows[j].runs > 0
                         => ~ReadWith(i, j)
  <2> SUFFICES ASSUME NEW i \in Ids, rows'[i].runs # rows[i].runs,
                      NEW j \in Ids, Older(i, j), SameComp(i, j),
                      rows[j].runs > 0
               PROVE  ~ReadWith(i, j)
    OBVIOUS
  <2>1. StartRun /\ i \in admitted
    BY <1>1, OnlyStartRun
  <2>2. pc = "sidetag" /\ i \in triggers
    BY <1>1, <2>1 DEF IInv, TypeOK, StartRun
  <2>3. /\ ReadWith(j, i) => ~ReadWith(i, j)
        /\ ~ReadWith(j, i) => rows[j].runs = 0
    BY <1>1, <2>2 DEF IInv, TableInv, NewerInv
  <2> QED
    BY <2>3
<1> QED
  BY <1>1, Invariance, PTL DEF NoRegression, Spec

(* No source on the denylist is submitted.                                 *)
THEOREM DenylistHolds == Spec => DenylistRespected
<1>1. ASSUME IInv, [Next]_vars
      PROVE  \A i \in Ids : rows'[i].runs # rows[i].runs =>
                UrlOfRow(i) \notin denylist
  <2> SUFFICES ASSUME NEW i \in Ids, rows'[i].runs # rows[i].runs
               PROVE  UrlOfRow(i) \notin denylist
    OBVIOUS
  <2>1. StartRun /\ i \in admitted
    BY <1>1, OnlyStartRun
  <2> QED
    BY <1>1, <2>1 DEF IInv, TableInv, FilterInv, Denied, StartRun
<1> QED
  BY <1>1, Invariance, PTL DEF DenylistRespected, Spec

-----------------------------------------------------------------------------
(* The pipeline implements its ledger.                                     *)

(* The ledger reads the table as the pipeline does.                        *)
LEMMA LedgerReads ==
    /\ Ledger!Ids = Ids
    /\ \A i, j : /\ Ledger!SameComp(i, j) <=> SameComp(i, j)
                 /\ Ledger!OlderOf(i, j) <=> Older(i, j) /\ SameComp(i, j)
                 /\ Ledger!ReadWith(i, j) <=> ReadWith(i, j)
    /\ \A i : Ledger!Url(i) = UrlOfRow(i)
BY DEF Ledger!Ids, Ledger!SameComp, Ledger!OlderOf, Ledger!ReadWith,
       Ledger!Url, Ids, SameComp, CompOfRow, UrlOfRow, Older, ReadWith

(* Completing a row that is already completed changes nothing.             *)
LEMMA CompletedTwice ==
    ASSUME rows \in Seq(Row), NEW i \in Ids, Complete(i), rows[i].done
    PROVE  rows' = rows
<1>1. Ids = 1 .. Len(rows) /\ \A j \in Ids : rows[j] \in Row
  BY DEF Ids
<1>2. [rows[i] EXCEPT !.done = TRUE] = rows[i]
  BY <1>1 DEF Row
<1>3. rows' = [rows EXCEPT ![i] = [rows[i] EXCEPT !.done = TRUE]]
  BY DEF Complete
<1>4. rows = [j \in DOMAIN rows |-> rows[j]]
  BY <1>1
<1> QED
  BY <1>2, <1>3, <1>4

(* A row is inserted.                                                      *)
LEMMA InsertRefines ==
    ASSUME IInv, CommitTrigger \/ \E r \in inserts : CommitInsert(r)
    PROVE  Ledger!Next
<1>1. PICK b \in Builds, t \in Nat :
         /\ Commit(b, t)
         /\ b \in 1 .. tagged \/ b \in Builds \ Tags
         /\ CompOf[b] \in Eligible
         /\ t \in 1 .. clock /\ \A i \in Ids : rows[i].at # t
  BY CommitBus DEF IInv
<1>2. UNCHANGED <<tagged, broker, clock, denylist, pc, admitted, unresolved>>
  BY DEF CommitTrigger, CommitInsert, busVars, insertVars, batchVars
<1>3. Ledger!Insert(b, t)
  BY <1>1, <1>2, LedgerReads DEF Ledger!Insert, Commit, NewRow
<1> QED
  BY <1>1, <1>3 DEF Ledger!Next

(* A created_at is given out.                                              *)
LEMMA BeginRefines ==
    ASSUME StoreTrigger \/ \E b \in Builds : Enqueue(b)
    PROVE  Ledger!Next
<1>1. Ledger!Begin
  BY DEF StoreTrigger, Enqueue, Ledger!Begin, busVars, dbVars, batchVars
<1> QED
  BY <1>1 DEF Ledger!Next

(* The bus and the consumer.                                               *)
LEMMA ConsumerRefines ==
    ASSUME IInv, KojiTags \/ ConsumerStep \/ ConsumerFault
    PROVE  [Ledger!Next]_(Ledger!vars)
<1> USE DEF Ledger!vars, busVars, dbVars, batchVars, insertVars
<1>1. CASE KojiTags
  <2>1. /\ tagged + 1 \in Tags \ 1 .. tagged
        /\ 1 .. (tagged + 1) = (1 .. tagged) \cup {tagged + 1}
    BY <1>1, NumAssumption DEF KojiTags, IInv, TypeOK, Tags
  <2>2. Ledger!Announce(tagged + 1)
    BY <1>1, <2>1 DEF KojiTags, Ledger!Announce
  <2> QED
    BY <2>1, <2>2 DEF Ledger!Next
<1>2. CASE (\E m \in Tags : Deliver(m)) \/ AckLost \/ StoreFails
  BY <1>2 DEF Deliver, AckLost, StoreFails
<1>3. CASE DropMessage \/ Ack
  <2>1. handling \in broker /\ handling \in Tags
    BY <1>3, NumAssumption DEF DropMessage, Ack, IInv, TypeOK, Tags
  <2>2. \/ CompOf[handling] \notin Eligible
        \/ \E i \in Ids : rows[i].build = handling
    BY <1>3 DEF DropMessage, Ack, IInv, BusInv, StoredInv
  <2>3. Ledger!Settle(handling)
    BY <1>3, <2>1, <2>2, LedgerReads DEF DropMessage, Ack, Ledger!Settle
  <2> QED
    BY <2>1, <2>3 DEF Ledger!Next
<1> QED
  BY <1>1, <1>2, <1>3, BeginRefines, InsertRefines
     DEF ConsumerStep, ConsumerFault

(* A row is retired by the batch.                                          *)
LEMMA RetireRefines ==
    ASSUME IInv, NEW i \in Ids,
           \/ DropSuperseded(i) \/ UrlUnavailable(i)
           \/ DenyTrigger(i) \/ MarkCompleted(i)
    PROVE  [Ledger!Next]_(Ledger!vars)
<1> USE DEF Ledger!vars, busVars, insertVars
<1>1. /\ Complete(i) /\ i \in todo
      /\ pc \in {"drop", "scmurl", "denylist", "complete"} /\ pc' = pc
      /\ UNCHANGED <<tagged, broker, clock, denylist>>
      /\ unresolved' = unresolved \/ unresolved' = unresolved \cup {i}
  BY DEF DropSuperseded, UrlUnavailable, DenyTrigger, MarkCompleted, Oldest
<1>2. CASE ~rows[i].done
  <2>1. Ledger!OlderRetired(i) /\ Ledger!ReadWith(i, i)
    <3>1. CASE DropSuperseded(i)
      <4> SUFFICES ASSUME NEW j \in Ids, Older(j, i), SameComp(j, i),
                          ReadWith(j, i), ~rows[j].done
                   PROVE  FALSE
        BY <1>1, LedgerReads DEF Ledger!OlderRetired, IInv, TableInv, SeenInv
      <4>1. j \in todo
        BY <1>1, <3>1 DEF DropSuperseded, IInv, TableInv, DropInv
      <4>2. ~Older(j, i)
        BY <3>1, <4>1 DEF DropSuperseded, SameComp
      <4> QED
        BY <4>2
    <3>2. CASE ~DropSuperseded(i)
      <4>1. pc \notin {"idle", "drop"}
        BY <3>2 DEF UrlUnavailable, DenyTrigger, MarkCompleted
      <4>2. \A j \in Ids : Older(j, i) /\ SameComp(j, i) /\ ReadWith(j, i)
                              => rows[j].done
        BY <1>1, <4>1 DEF IInv, TableInv, OlderInv
      <4> QED
        BY <1>1, <4>2, LedgerReads DEF Ledger!OlderRetired, IInv, TableInv,
                                       SeenInv
    <3> QED
      BY <3>1, <3>2
  <2>2. \/ /\ \/ rows[i].runs > 0
              \/ Ledger!Superseded(i)
              \/ Ledger!Url(i) \in denylist
           /\ unresolved' = unresolved
        \/ unresolved' = unresolved \cup {i}
    <3>1. CASE DropSuperseded(i)
      <4>1. \E j \in Ids : Older(i, j) /\ SameComp(i, j) /\ ReadWith(j, i)
        BY <3>1 DEF DropSuperseded, IInv, TableInv, DropInv
      <4> QED
        BY <3>1, <4>1, LedgerReads DEF DropSuperseded, Ledger!Superseded
    <3>2. CASE UrlUnavailable(i)
      BY <3>2 DEF UrlUnavailable
    <3>3. CASE DenyTrigger(i)
      BY <3>3, LedgerReads DEF DenyTrigger, Denied
    <3>4. CASE MarkCompleted(i)
      <4>1. i \in triggers /\ pc = "complete"
        BY <1>1, <3>4 DEF MarkCompleted, IInv, TableInv, OlderInv
      <4>2. rows[i].runs > 0
        BY <1>2, <4>1 DEF IInv, TableInv, FilterInv
      <4> QED
        BY <3>4, <4>2 DEF MarkCompleted
    <3> QED
      BY <3>1, <3>2, <3>3, <3>4
  <2>3. Ledger!Retire(i)
    BY <1>1, <1>2, <2>1, <2>2, LedgerReads DEF Ledger!Retire, Complete
  <2> QED
    BY <2>3, LedgerReads DEF Ledger!Next
<1>3. CASE rows[i].done
  <2>1. ~UrlUnavailable(i)
    BY <1>1, <1>3 DEF UrlUnavailable, IInv, TableInv, FilterInv
  <2>2. rows' = rows
    BY <1>1, <1>3, CompletedTwice DEF IInv, TypeOK
  <2>3. unresolved' = unresolved
    BY <2>1 DEF DropSuperseded, DenyTrigger, MarkCompleted
  <2> QED
    BY <1>1, <2>2, <2>3
<1> QED
  BY <1>2, <1>3

(* The batch is submitted.                                                 *)
LEMMA SubmitRefines ==
    ASSUME IInv, StartRun
    PROVE  Ledger!Next
<1>1. admitted \in SUBSET Ids /\ pc = "sidetag" /\ admitted \subseteq triggers
  BY DEF IInv, TypeOK, StartRun
<1>2. ASSUME NEW i \in admitted
      PROVE  /\ ~rows[i].done /\ Ledger!ReadWith(i, i)
             /\ Ledger!OlderRetired(i) /\ Ledger!Latest(i)
             /\ UrlOfRow(i) # NoUrl /\ UrlOfRow(i) \notin denylist
  <2>1. ~rows[i].done /\ UrlOfRow(i) \notin denylist
    BY <1>1 DEF IInv, TableInv, FilterInv, Denied
  <2>2. UrlOfRow(i) # NoUrl /\ ReadWith(i, i)
    BY <1>1 DEF IInv, TypeOK, TableInv, FilterInv, SeenInv
  <2>3. \A j \in Ids : Older(j, i) /\ SameComp(j, i) /\ ReadWith(j, i)
                          => rows[j].done
    BY <1>1 DEF IInv, TableInv, OlderInv
  <2>4. \A j \in Ids : Older(i, j) /\ SameComp(i, j) =>
           /\ ReadWith(j, i) => rows[j].done /\ ~ReadWith(i, j)
           /\ ~ReadWith(j, i) => rows[j].runs = 0
    BY <1>1 DEF IInv, TableInv, NewerInv
  <2>5. Ledger!OlderRetired(i)
    BY <2>3, LedgerReads DEF Ledger!OlderRetired
  <2>6. Ledger!Latest(i)
    BY <2>4, LedgerReads DEF Ledger!Latest
  <2> QED
    BY <2>1, <2>2, <2>5, <2>6, LedgerReads
<1>3. UNCHANGED <<tagged, broker, clock, denylist, unresolved, admitted>>
      /\ pc' = "run"
      /\ rows' = [i \in Ids |-> IF i \in admitted
                                THEN [rows[i] EXCEPT !.runs = @ + 1]
                                ELSE rows[i]]
  BY DEF StartRun, busVars, insertVars
<1>4. Ledger!Submit(admitted)
  BY <1>1, <1>2, <1>3, LedgerReads DEF Ledger!Submit
<1> QED
  BY <1>1, <1>4, LedgerReads DEF Ledger!Next

(* The table is read.                                                      *)
LEMMA ReadRefines ==
    ASSUME SelectTriggers
    PROVE  Ledger!Next
<1>1. /\ UNCHANGED <<tagged, broker, clock, denylist, unresolved>>
      /\ pc = "idle" /\ pc' = "drop"
      /\ rows' = [i \in Ids |-> IF i \in Pending
                                THEN [rows[i] EXCEPT !.seen = Len(rows)]
                                ELSE rows[i]]
  BY DEF SelectTriggers, MarkSeen, busVars, insertVars
<1>2. \A i \in Ids : i \in Pending <=> ~rows[i].done
  BY DEF Pending
<1>3. Ledger!Read
  BY <1>1, <1>2, LedgerReads DEF Ledger!Read
<1> QED
  BY <1>3 DEF Ledger!Next

(* process_message_batch.                                                  *)
LEMMA BatchRefines ==
    ASSUME IInv, BatchStep \/ BatchFault
    PROVE  [Ledger!Next]_(Ledger!vars)
<1> USE DEF Ledger!vars, busVars, dbVars, batchVars, insertVars
<1>1. CASE \E i \in Ids : \/ DropSuperseded(i) \/ UrlUnavailable(i)
                          \/ DenyTrigger(i) \/ MarkCompleted(i)
  BY <1>1, RetireRefines
<1>2. CASE StartRun \/ SelectTriggers
  BY <1>2, SubmitRefines, ReadRefines
<1>3. CASE \E failed \in SUBSET admitted : RecordFailures(failed)
  <2> PICK failed \in SUBSET admitted : RecordFailures(failed)
    BY <1>3
  <2>1. Ledger!Deny(failed)
    BY LedgerReads DEF RecordFailures, Ledger!Deny
  <2>2. pc = "run"
    BY DEF RecordFailures
  <2> QED
    BY <2>1, <2>2 DEF Ledger!Next
<1>4. CASE RunEnds
  <2>1. Ledger!Abandon
    BY <1>4 DEF RunEnds, Ledger!Abandon
  <2> QED
    BY <2>1 DEF Ledger!Next
<1>5. CASE \/ BeginBatch \/ QueryDenylist \/ EmptyBatch
           \/ PrepareSideTag \/ BatchDone \/ SideTagTimeout \/ InitRaises
           \/ \E i \in Ids : ResolveUrl(i) \/ AdmitTrigger(i) \/ MarkFails(i)
  BY <1>5 DEF BeginBatch, QueryDenylist, EmptyBatch,
     PrepareSideTag, BatchDone, SideTagTimeout, InitRaises, ClearBatch,
     ResolveUrl, AdmitTrigger, MarkFails
<1> QED
  BY <1>1, <1>2, <1>3, <1>4, <1>5 DEF BatchStep, BatchFault

(* Each step of the pipeline is a step of the ledger, or none.             *)
LEMMA StepRefines == IInv /\ [Next]_vars => [Ledger!Next]_(Ledger!vars)
<1> SUFFICES ASSUME IInv, [Next]_vars PROVE [Ledger!Next]_(Ledger!vars)
  OBVIOUS
<1>1. CASE KojiTags \/ ConsumerStep \/ ConsumerFault
  BY <1>1, ConsumerRefines
<1>2. CASE BatchStep \/ BatchFault
  BY <1>2, BatchRefines
<1>3. CASE (\E b \in Builds : Enqueue(b)) \/ \E r \in inserts : CommitInsert(r)
  BY <1>3, BeginRefines, InsertRefines
<1>4. CASE TogglePause \/ UNCHANGED vars \/ \E r \in inserts : InsertFails(r)
  BY <1>4 DEF TogglePause, InsertFails, vars, busVars, dbVars, batchVars,
              insertVars, Ledger!vars
<1>5. CASE Crash
  <2>1. Ledger!Abandon
    BY <1>5 DEF Crash, ClearBatch, busVars, dbVars, Ledger!Abandon
  <2> QED
    BY <2>1 DEF Ledger!Next
<1> QED
  BY <1>1, <1>2, <1>3, <1>4, <1>5 DEF Next

(* For any events, components and faults, the pipeline keeps the ledger.   *)
THEOREM LedgerRefines == Spec => ImplementsLedger
<1>1. Init => Ledger!Init
  BY DEF Init, Ledger!Init
<1> QED
  BY <1>1, StepRefines, Invariance, PTL
     DEF Spec, ImplementsLedger, Ledger!Spec

-----------------------------------------------------------------------------
(* A batch is finite, however many rows arrive while it is on.             *)

Size(S) == Cardinality(S)

(* Bounds the steps that the batch can still take.                         *)
BatchLeft ==
    CASE pc = "drop"     -> 3 * Size(triggers) + Size(todo) + 7
      [] pc = "scmurl"   -> 2 * Size(triggers) + Size(todo) + 6
      [] pc = "denylist" -> Size(triggers) + Size(todo) + 5
      [] pc = "sidetag"  -> Size(triggers) + 4
      [] pc = "run"      -> Size(triggers) + 3
      [] pc = "finalize" -> Size(triggers) + 2
      [] pc = "complete" -> Size(todo) + 1
      [] OTHER           -> 0

(* Each row that is visited leaves a loop, no loop has more rows than the  *)
(* selection, and no phase comes back.                                     *)
BatchShrinks ==
    /\ pc # "idle" /\ BatchStep => BatchLeft' < BatchLeft
    /\ pc # "idle" /\ ~BatchStep => BatchLeft' <= BatchLeft

LEMMA RowSets ==
    ASSUME TypeOK, NEW S \in SUBSET Ids
    PROVE  /\ Size(S) \in Nat
           /\ \A R \in SUBSET S : /\ Size(R) \in Nat /\ Size(R) <= Size(S)
                                  /\ R # S => Size(R) < Size(S)
<1>1. IsFiniteSet(Ids)
  <2>1. Ids = 1 .. Len(rows) /\ Len(rows) \in Int
    BY DEF TypeOK, Ids
  <2> QED
    BY <2>1, FS_Interval
<1>2. IsFiniteSet(S) /\ Size(S) \in Nat
  BY <1>1, FS_Subset, FS_CardinalityType DEF Size
<1>3. ASSUME NEW R \in SUBSET S
      PROVE  /\ Size(R) \in Nat /\ Size(R) <= Size(S)
             /\ R # S => Size(R) < Size(S)
  <2>1. /\ IsFiniteSet(R) /\ Size(R) <= Size(S)
        /\ Size(S) = Size(R) => R = S
    BY <1>2, <1>3, FS_Subset DEF Size
  <2>2. Size(R) \in Nat
    BY <2>1, FS_CardinalityType DEF Size
  <2> QED
    BY <1>2, <2>1, <2>2
<1> QED
  BY <1>2, <1>3

LEMMA BatchSizes ==
    ASSUME TypeOK
    PROVE  /\ Size(triggers) \in Nat /\ Size(todo) \in Nat
           /\ Size(withUrl) \in Nat /\ Size(withUrl) <= Size(triggers)
           /\ \A R \in SUBSET todo : /\ Size(R) \in Nat
                                     /\ R # todo => Size(R) < Size(todo)
<1>1. triggers \in SUBSET Ids /\ todo \in SUBSET Ids
      /\ withUrl \in SUBSET triggers
  BY DEF TypeOK
<1>2. /\ Size(triggers) \in Nat
      /\ Size(withUrl) \in Nat /\ Size(withUrl) <= Size(triggers)
  <2>1. \A R \in SUBSET triggers : /\ Size(R) \in Nat
                                   /\ Size(R) <= Size(triggers)
    BY <1>1, RowSets, Zenon
  <2>2. Size(triggers) \in Nat
    BY <1>1, RowSets, Zenon
  <2> QED
    BY <1>1, <2>1, <2>2, Zenon
<1>3. /\ Size(todo) \in Nat
      /\ \A R \in SUBSET todo : /\ Size(R) \in Nat
                                /\ R # todo => Size(R) < Size(todo)
  BY <1>1, RowSets, Zenon
<1> QED
  BY <1>2, <1>3

LEMMA BatchLeftNat == TypeOK => BatchLeft \in Nat
BY BatchSizes DEF BatchLeft

LEMMA ShrinkStep ==
    ASSUME IInv, BatchStep, pc # "idle"
    PROVE  BatchLeft' < BatchLeft
<1>1. /\ Size(triggers) \in Nat /\ Size(todo) \in Nat
      /\ Size(withUrl) \in Nat /\ Size(withUrl) <= Size(triggers)
      /\ \A R \in SUBSET todo : /\ Size(R) \in Nat
                                /\ R # todo => Size(R) < Size(todo)
  BY BatchSizes DEF IInv
<1> USE DEF BatchLeft
<1>2. CASE \E i \in Ids : \/ DropSuperseded(i)
                          \/ ResolveUrl(i) \/ UrlUnavailable(i)
                          \/ DenyTrigger(i) \/ AdmitTrigger(i)
                          \/ MarkCompleted(i)
  <2> PICK i \in Ids : \/ DropSuperseded(i)
                       \/ ResolveUrl(i) \/ UrlUnavailable(i)
                       \/ DenyTrigger(i) \/ AdmitTrigger(i)
                       \/ MarkCompleted(i)
    BY <1>2
  <2>1. /\ pc \in {"drop", "scmurl", "denylist", "complete"} /\ pc' = pc
        /\ triggers' = triggers
        /\ todo' \in SUBSET todo /\ todo' # todo
    BY DEF DropSuperseded, ResolveUrl, UrlUnavailable, DenyTrigger,
           AdmitTrigger, MarkCompleted, Oldest
  <2>2. Size(todo') \in Nat /\ Size(todo') < Size(todo)
    BY <1>1, <2>1, Zenon
  <2>3. Size(triggers)' = Size(triggers) /\ Size(todo)' = Size(todo')
    BY <2>1 DEF Size
  <2> QED
    BY <1>1, <2>1, <2>2, <2>3
<1>3. CASE BeginBatch \/ QueryDenylist \/ EmptyBatch \/ PrepareSideTag
  <2>1. Size(triggers)' = Size(triggers)
    BY <1>3 DEF Size, BeginBatch, QueryDenylist, EmptyBatch, PrepareSideTag
  <2>2. \/ BeginBatch /\ Size(todo)' = Size(triggers)
        \/ QueryDenylist /\ Size(todo)' = Size(withUrl)
        \/ EmptyBatch /\ Size(todo)' = Size(triggers)
        \/ PrepareSideTag
    BY <1>3 DEF Size, BeginBatch, QueryDenylist, EmptyBatch
  <2> QED
    BY <1>1, <1>3, <2>1, <2>2
       DEF BeginBatch, QueryDenylist, EmptyBatch, PrepareSideTag
<1>4. CASE StartRun \/ RunEnds
           \/ \E failed \in SUBSET admitted : RecordFailures(failed)
  <2>1. /\ Size(triggers)' = Size(triggers)
        /\ RunEnds => Size(todo)' = Size(triggers)
    BY <1>4 DEF Size, StartRun, RunEnds, RecordFailures
  <2> QED
    BY <1>1, <1>4, <2>1 DEF StartRun, RunEnds, RecordFailures
<1>5. CASE BatchDone
  BY <1>1, <1>5 DEF BatchDone, ClearBatch
<1> QED
  BY <1>2, <1>3, <1>4, <1>5 DEF BatchStep, SelectTriggers

LEMMA ShrinkFrame ==
    ASSUME IInv, Next, ~BatchStep, pc # "idle"
    PROVE  BatchLeft' <= BatchLeft
<1>0. BatchLeft \in Nat
  BY BatchLeftNat DEF IInv
<1>1. CASE \/ KojiTags \/ ConsumerStep \/ ConsumerFault \/ SideTagTimeout
           \/ (\E b \in Builds : Enqueue(b)) \/ TogglePause
           \/ \E r \in inserts : CommitInsert(r) \/ InsertFails(r)
  <2>1. UNCHANGED <<pc, triggers, todo>>
    BY <1>1 DEF KojiTags, ConsumerStep, ConsumerFault, Deliver, DropMessage,
       StoreTrigger, CommitTrigger, Ack, StoreFails, AckLost, SideTagTimeout,
       Enqueue, CommitInsert, InsertFails, TogglePause, batchVars
  <2>2. BatchLeft' = BatchLeft
    BY <2>1 DEF BatchLeft, Size
  <2> QED
    BY <1>0, <2>2
<1>2. CASE InitRaises \/ Crash
  <2>1. BatchLeft' = 0
    BY <1>2 DEF InitRaises, Crash, ClearBatch, BatchLeft
  <2> QED
    BY <1>0, <2>1
<1>3. CASE \E i \in Ids : MarkFails(i)
  <2>1. /\ pc = "complete" /\ pc' = "complete"
        /\ todo' \in SUBSET todo /\ todo' # todo
    BY <1>3 DEF MarkFails, Oldest
  <2>2. /\ Size(todo) \in Nat
        /\ \A R \in SUBSET todo : /\ Size(R) \in Nat
                                  /\ R # todo => Size(R) < Size(todo)
    BY BatchSizes DEF IInv
  <2>3. Size(todo') \in Nat /\ Size(todo') < Size(todo)
    BY <2>1, <2>2, Zenon
  <2>4. Size(todo)' = Size(todo')
    BY DEF Size
  <2> QED
    BY <2>1, <2>2, <2>3, <2>4 DEF BatchLeft
<1> QED
  BY <1>1, <1>2, <1>3 DEF Next, BatchFault

(* Whatever arrives, fails or is tried again, the steps that a batch still *)
(* has to take are bounded from its selection on, and each of them counts: *)
(* no row that arrives meanwhile keeps it going.                           *)
THEOREM BatchIsFinite ==
    Spec => [](BatchLeft \in Nat) /\ [][BatchShrinks]_vars
<1>1. IInv /\ [Next]_vars => [BatchShrinks]_vars
  BY ShrinkStep, ShrinkFrame DEF BatchShrinks
<1>2. IInv => BatchLeft \in Nat
  BY BatchLeftNat DEF IInv
<1> QED
  BY <1>1, <1>2, Invariance, PTL DEF Spec
=============================================================================
