--------------------------- MODULE RelayStoresProofs ---------------------------
(***************************************************************************)
(* Theorems about what keeps the data: the tally of a wasm connection, the *)
(* one file that owners, legacy processes and restores share, the keys its *)
(* columns are encrypted under, and what its retention drops.              *)
(***************************************************************************)
EXTENDS RelayImage, RelayStore, RelayKeyring, RelayRetention, FiniteSetTheorems, TLAPS

-----------------------------------------------------------------------------
(* The wasm image.  Outside a transaction what is missing from the file is no  *)
(* more than what the tally counts as unwritten and not undone, and the same   *)
(* number as long as no savepoint undid counted changes; inside one the same   *)
(* holds of the part before its start, and the rest covers what is pending     *)
(* (Tallied).  So the tally of a failed last write is the loss.                *)

TallyRow == [total : Nat, undone : Nat, unwritten : Nat, atFailure : Nat]

ImageRecords ==
  /\ state \in {"open", "dead", "closed"} /\ made \in 0 .. MaxChanges
  /\ tally \in TallyRow /\ tx \in [depth : 0 .. 2, start : Nat] /\ unsaved \in Nat
  /\ pending \in [Depths -> Nat] /\ understood \in BOOLEAN /\ reported \in -1 .. MaxChanges

\* The tally t counts no more than m changes.
Within(t, m) ==
  t.undone <= t.total /\ t.total <= m /\ t.unwritten + (t.total - t.undone) <= m

\* n committed changes are missing, and the tally t counts them up to mark.
Covers(t, mark, n, exact) ==
  /\ t.undone <= mark /\ n <= t.unwritten + (mark - t.undone)
  /\ exact => n = t.unwritten + (mark - t.undone)

Tallied ==
  /\ Within(tally, made)
  /\ tx.depth = 0 => Covers(tally, tally.total, unsaved, understood) /\ pending[1] = 0 /\ pending[2] = 0
  /\ tx.depth > 0 =>
       /\ tx.start <= tally.total /\ Covers(tally, tx.start, unsaved, understood)
       /\ pending[1] + pending[2] <= tally.total - tx.start
       /\ (understood => pending[1] + pending[2] = tally.total - tx.start)
       /\ (tx.depth = 1 => pending[2] = 0)

ImageInv == ImageRecords /\ Tallied /\ AnsweredIsWritten /\ LossReported

\* What a flush leaves of a tally, and what it would report.
LEMMA FlushKeeps ==
  ASSUME NEW t \in TallyRow, NEW m \in Nat, NEW n \in Nat, NEW exact \in BOOLEAN, NEW o \in Outcomes,
         Within(t, m), Covers(t, t.total, n, exact)
  PROVE  /\ AfterFlush(t, o) \in TallyRow /\ Within(AfterFlush(t, o), m)
         /\ Covers(AfterFlush(t, o), AfterFlush(t, o).total, IF o = "written" THEN 0 ELSE n, exact)
         /\ o # "written" => AfterFlush(t, o).atFailure = t.unwritten + (t.total - t.undone)
<1>1. /\ t.total \in Nat /\ t.undone \in Nat /\ t.unwritten \in Nat /\ t.atFailure \in Nat
      /\ t.undone <= t.total /\ t.total <= m /\ t.unwritten + (t.total - t.undone) <= m
      /\ n <= t.unwritten + (t.total - t.undone) /\ (exact => n = t.unwritten + (t.total - t.undone))
  BY DEF TallyRow, Within, Covers
<1>2. SinceExport(t) = t.total - t.undone /\ t.total - t.undone \in Nat
  BY <1>1 DEF SinceExport, Positive
<1>3. PICK sum \in Nat : sum = t.unwritten + (t.total - t.undone)
  BY <1>1
<1>4. Exported(t) = [total |-> 0, undone |-> 0, unwritten |-> sum, atFailure |-> t.atFailure]
  <2>1. PICK u : u = [total |-> 0, undone |-> 0, unwritten |-> sum, atFailure |-> t.atFailure]
    OBVIOUS
  <2>2. t.unwritten + SinceExport(t) = sum
    BY <1>1, <1>2, <1>3
  <2>3. [t EXCEPT !.unwritten = t.unwritten + SinceExport(t), !.undone = 0, !.total = 0] = u
    <3>1. PICK since : since = SinceExport(t)
      OBVIOUS
    <3>2. t.unwritten + since = sum
      BY <2>2, <3>1
    <3>3. [t EXCEPT !.unwritten = t.unwritten + since, !.undone = 0, !.total = 0] = u
      <4>1. PICK e : e = [t EXCEPT !.unwritten = sum, !.undone = 0, !.total = 0]
        OBVIOUS
      <4>2. e \in TallyRow
        BY <4>1 DEF TallyRow
      <4>3. e.unwritten = sum /\ e.undone = 0 /\ e.total = 0 /\ e.atFailure = t.atFailure
        BY <4>1 DEF TallyRow
      <4>4. e = u
        BY <2>1, <4>2, <4>3 DEF TallyRow
      <4> QED BY <3>2, <4>1, <4>4
    <3> QED BY <3>1, <3>3
  <2> QED BY <2>1, <2>3 DEF Exported
<1>5. CASE o = "written"
  <2>1. AfterFlush(t, o) = [total |-> 0, undone |-> 0, unwritten |-> 0, atFailure |-> 0]
    <3>1. AfterFlush(t, o) = [Exported(t) EXCEPT !.unwritten = 0, !.atFailure = 0]
      BY <1>5 DEF AfterFlush
    <3>2. PICK e : e = Exported(t)
      OBVIOUS
    <3>3. e = [total |-> 0, undone |-> 0, unwritten |-> sum, atFailure |-> t.atFailure]
      BY <1>4, <3>2
    <3>4. [e EXCEPT !.unwritten = 0, !.atFailure = 0] = [total |-> 0, undone |-> 0, unwritten |-> 0, atFailure |-> 0]
      <4>1. PICK r : r = [e EXCEPT !.unwritten = 0, !.atFailure = 0]
        OBVIOUS
      <4>2. e \in TallyRow
        BY <1>3, <1>1, <3>3 DEF TallyRow
      <4>3. r \in TallyRow
        BY <4>1, <4>2 DEF TallyRow
      <4>4. r.unwritten = 0 /\ r.undone = 0 /\ r.total = 0 /\ r.atFailure = 0
        BY <3>3, <4>1, <4>2 DEF TallyRow
      <4>5. r = [total |-> 0, undone |-> 0, unwritten |-> 0, atFailure |-> 0]
        BY <4>3, <4>4 DEF TallyRow
      <4> QED BY <4>1, <4>5
    <3> QED BY <3>1, <3>2, <3>4
  <2> QED BY <1>1, <1>5, <2>1 DEF TallyRow, Within, Covers
<1>6. CASE o = "disk"
  <2>1. AfterFlush(t, o) = [total |-> 0, undone |-> 0, unwritten |-> sum, atFailure |-> sum]
    BY <1>4, <1>6 DEF AfterFlush
  <2> QED BY <1>1, <1>3, <1>6, <2>1 DEF TallyRow, Within, Covers
<1>7. CASE o \in {"export", "dead"}
  <2>1. AfterFlush(t, o) = [total |-> t.total, undone |-> t.undone, unwritten |-> t.unwritten, atFailure |-> sum]
    BY <1>2, <1>3, <1>7 DEF AfterFlush, TallyRow
  <2>2. o # "written"
    BY <1>7
  <2> QED BY <1>1, <1>3, <2>1, <2>2 DEF TallyRow, Within, Covers
<1> QED BY <1>5, <1>6, <1>7 DEF Outcomes

\* A flush of the image that changes nothing else of the record.
LEMMA Flushed ==
  ASSUME ImageInv, NEW t \in TallyRow, NEW m \in 0 .. MaxChanges, NEW n \in Nat, NEW o \in Outcomes,
         Within(t, m), Covers(t, t.total, n, understood), Flush(t, n, o),
         made' = m, tx' = NoTx, pending' = [d \in Depths |-> 0], UNCHANGED <<understood, reported>>,
         result' = "ok" => o = "written"
  PROVE  ImageInv'
<1>1. m \in Nat /\ understood \in BOOLEAN /\ reported \in -1 .. MaxChanges
  BY ChangesBound DEF ImageInv, ImageRecords
<1>2. /\ tally' \in TallyRow /\ Within(tally', m) /\ Covers(tally', tally'.total, unsaved', understood)
      /\ unsaved' \in Nat /\ (o = "written" => unsaved' = 0) /\ state' \in {"open", "dead"}
  BY <1>1, FlushKeeps DEF Flush
<1>3. ImageRecords'
  BY <1>1, <1>2 DEF ImageRecords, NoTx, Depths
<1>4. Tallied'
  <2>1. tx'.depth = 0 /\ pending'[1] = 0 /\ pending'[2] = 0
    BY DEF NoTx, Depths
  <2> QED BY <1>2, <2>1 DEF Tallied
<1>5. AnsweredIsWritten' /\ LossReported'
  BY <1>2 DEF AnsweredIsWritten, LossReported
<1> QED BY <1>3, <1>4, <1>5 DEF ImageInv

\* The record of an open connection, opened.
LEMMA ImageOpened ==
  ASSUME ImageInv
  PROVE  /\ made \in Nat /\ made <= MaxChanges /\ tally \in TallyRow /\ unsaved \in Nat
         /\ tally.total \in Nat /\ tally.undone \in Nat /\ tally.unwritten \in Nat /\ tally.atFailure \in Nat
         /\ tx.depth \in 0 .. 2 /\ tx.start \in Nat /\ pending[1] \in Nat /\ pending[2] \in Nat
         /\ understood \in BOOLEAN /\ Within(tally, made)
BY ChangesBound DEF ImageInv, ImageRecords, TallyRow, Depths, Tallied

LEMMA StatementStep ==
  ASSUME ImageInv, NEW k \in 1 .. 2, Statement(k)
  PROVE  ImageInv'
<1>1. /\ Alive /\ tx.depth = 0 /\ made + k <= MaxChanges /\ made' = made + k
      /\ UNCHANGED <<tx, pending, understood, reported>>
  BY DEF Statement, Changes
<1>2. PICK t : t = [tally EXCEPT !.total = @ + k]
  OBVIOUS
<1>3. PICK o \in Outcomes, throws \in BOOLEAN :
        Flush(t, unsaved + k, o) /\ result' = IF throws THEN "error" ELSE Heard(o)
  BY <1>2 DEF Statement
<1>4. /\ made \in Nat /\ tally.total \in Nat /\ tally.undone \in Nat /\ tally.unwritten \in Nat
      /\ unsaved \in Nat /\ tally \in TallyRow /\ understood \in BOOLEAN
      /\ tally.undone <= tally.total /\ tally.total <= made
      /\ tally.unwritten + (tally.total - tally.undone) <= made
  BY ImageOpened DEF Within
<1>5. /\ unsaved <= tally.unwritten + (tally.total - tally.undone)
      /\ understood => unsaved = tally.unwritten + (tally.total - tally.undone)
  BY <1>1 DEF ImageInv, Tallied, Covers
<1>6. /\ t \in TallyRow /\ t.total = tally.total + k /\ t.undone = tally.undone /\ t.unwritten = tally.unwritten
  BY <1>2, <1>4 DEF TallyRow
<1>7. Within(t, made + k) /\ Covers(t, t.total, unsaved + k, understood)
  BY <1>4, <1>5, <1>6 DEF Within, Covers
<1>8. made + k \in 0 .. MaxChanges /\ unsaved + k \in Nat
  BY <1>1, <1>4, ChangesBound
<1>9. result' = "ok" => o = "written"
  BY <1>1, <1>3 DEF Heard
<1>10. /\ tally' \in TallyRow /\ Within(tally', made') /\ Covers(tally', tally'.total, unsaved', understood)
       /\ unsaved' \in Nat /\ (o = "written" => unsaved' = 0) /\ state' \in {"open", "dead"}
  BY <1>1, <1>3, <1>4, <1>6, <1>7, <1>8, FlushKeeps DEF Flush
<1>11. ImageRecords'
  BY <1>1, <1>8, <1>10 DEF ImageInv, ImageRecords
<1>12. Tallied'
  <2>1. pending[1] = 0 /\ pending[2] = 0 /\ tx'.depth = 0
    BY <1>1 DEF ImageInv, Tallied
  <2> QED BY <1>1, <1>10, <2>1 DEF Tallied
<1>13. AnsweredIsWritten' /\ LossReported'
  BY <1>9, <1>10 DEF AnsweredIsWritten, LossReported
<1> QED BY <1>11, <1>12, <1>13 DEF ImageInv

LEMMA StatementInTxStep ==
  ASSUME ImageInv, NEW k \in 1 .. 2, StatementInTx(k)
  PROVE  ImageInv'
<1>1. /\ Alive /\ tx.depth \in {1, 2} /\ made + k <= MaxChanges /\ made' = made + k
      /\ pending' = [pending EXCEPT ![tx.depth] = @ + k]
      /\ UNCHANGED <<state, tx, unsaved, understood, reported>>
  BY ImageOpened DEF StatementInTx, Changes
<1>2. tally' = [tally EXCEPT !.total = @ + k]
  BY DEF StatementInTx
<1>3. /\ made \in Nat /\ tally.total \in Nat /\ tally.undone \in Nat /\ tally.unwritten \in Nat
      /\ unsaved \in Nat /\ tally \in TallyRow /\ understood \in BOOLEAN /\ tx.start \in Nat
      /\ tally.undone <= tally.total /\ tally.total <= made
      /\ tally.unwritten + (tally.total - tally.undone) <= made
      /\ pending[1] \in Nat /\ pending[2] \in Nat
  BY ImageOpened DEF Within
<1>4. /\ tally' \in TallyRow /\ tally'.total = tally.total + k /\ tally'.undone = tally.undone
      /\ tally'.unwritten = tally.unwritten
  BY <1>2, <1>3 DEF TallyRow
<1>5. /\ tx.start <= tally.total /\ Covers(tally, tx.start, unsaved, understood)
      /\ pending[1] + pending[2] <= tally.total - tx.start
      /\ (understood => pending[1] + pending[2] = tally.total - tx.start)
      /\ (tx.depth = 1 => pending[2] = 0)
  BY <1>1 DEF ImageInv, Tallied
<1>6. /\ pending' \in [Depths -> Nat] /\ pending'[1] + pending'[2] = pending[1] + pending[2] + k
      /\ (tx.depth = 1 => pending'[2] = pending[2])
  <2>1. pending \in [Depths -> Nat] /\ 1 \in Depths /\ 2 \in Depths
    BY DEF ImageInv, ImageRecords, Depths
  <2>2. CASE tx.depth = 1
    <3>1. pending' = [pending EXCEPT ![1] = pending[1] + k] /\ pending[1] + k \in Nat
      BY <1>1, <1>3, <2>2
    <3> QED BY <1>3, <2>1, <2>2, <3>1
  <2>3. CASE tx.depth = 2
    <3>1. pending' = [pending EXCEPT ![2] = pending[2] + k] /\ pending[2] + k \in Nat
      BY <1>1, <1>3, <2>3
    <3> QED BY <1>3, <2>1, <2>3, <3>1
  <2> QED BY <1>1, <2>2, <2>3
<1>7. made + k \in 0 .. MaxChanges
  BY <1>1, <1>3, ChangesBound
<1>8. ImageRecords'
  BY <1>1, <1>4, <1>6, <1>7 DEF ImageInv, ImageRecords
<1>9. Within(tally', made') /\ Covers(tally', tx.start, unsaved, understood)
  BY <1>1, <1>3, <1>4, <1>5 DEF Within, Covers
<1>10. Tallied'
  <2>1. /\ tx.start <= tally'.total /\ pending'[1] + pending'[2] <= tally'.total - tx.start
        /\ (understood => pending'[1] + pending'[2] = tally'.total - tx.start)
        /\ (tx.depth = 1 => pending'[2] = 0)
    BY <1>3, <1>4, <1>5, <1>6
  <2> QED BY <1>1, <1>9, <2>1 DEF Tallied
<1>11. AnsweredIsWritten' /\ LossReported'
  BY <1>1 DEF AnsweredIsWritten, LossReported, Alive
<1> QED BY <1>8, <1>10, <1>11 DEF ImageInv

LEMMA SavepointSteps ==
  ASSUME ImageInv, BeginTx \/ ReleaseSavepoint \/ RollbackSavepoint
  PROVE  ImageInv'
<1>0. /\ made \in Nat /\ tally.total \in Nat /\ tally.undone \in Nat /\ tally.unwritten \in Nat
      /\ unsaved \in Nat /\ tally \in TallyRow /\ understood \in BOOLEAN /\ tx.start \in Nat
      /\ tally.undone <= tally.total /\ pending[1] \in Nat /\ pending[2] \in Nat
      /\ pending \in [Depths -> Nat] /\ 1 \in Depths /\ 2 \in Depths /\ tx \in [depth : 0 .. 2, start : Nat]
  BY ImageOpened DEF Within, ImageInv, ImageRecords, Depths
<1>1. CASE BeginTx
  <2>1. /\ Alive /\ UNCHANGED <<state, tally, unsaved, pending, understood, made, result, reported>>
        /\ tx' \in [depth : 0 .. 2, start : Nat] /\ tx'.depth > 0
    <3>1. CASE tx.depth = 0
      <4>1. tx' = [depth |-> 1, start |-> tally.total] /\ 1 \in 0 .. 2
        BY <1>1, <3>1 DEF BeginTx
      <4> QED BY <1>0, <1>1, <4>1 DEF BeginTx
    <3>2. CASE tx.depth # 0
      <4>1. tx' = [tx EXCEPT !.depth = 2] /\ 2 \in 0 .. 2
        BY <1>1, <3>2 DEF BeginTx
      <4> QED BY <1>0, <1>1, <4>1 DEF BeginTx
    <3> QED BY <3>1, <3>2
  <2>2. Tallied'
    <3>1. CASE tx.depth = 0
      <4>1. tx' = [depth |-> 1, start |-> tally.total]
        BY <1>1, <3>1 DEF BeginTx
      <4>2. Within(tally, made) /\ Covers(tally, tally.total, unsaved, understood) /\ pending[1] = 0 /\ pending[2] = 0
        BY <3>1 DEF ImageInv, Tallied
      <4>3. tx'.depth = 1 /\ tx'.start = tally.total
        BY <4>1
      <4> QED BY <1>0, <2>1, <4>2, <4>3 DEF Tallied
    <3>2. CASE tx.depth # 0
      <4>1. tx.depth = 1
        BY <1>0, <1>1, <3>2 DEF BeginTx
      <4>2. tx'.depth = 2 /\ tx'.start = tx.start
        BY <1>0, <1>1, <3>2 DEF BeginTx
      <4> QED BY <2>1, <4>1, <4>2 DEF ImageInv, Tallied
    <3> QED BY <3>1, <3>2
  <2>3. ImageRecords'
    BY <2>1 DEF ImageInv, ImageRecords
  <2>4. AnsweredIsWritten' /\ LossReported'
    BY <1>0, <2>1 DEF AnsweredIsWritten, LossReported, Alive
  <2> QED BY <2>2, <2>3, <2>4 DEF ImageInv
<1>2. CASE ReleaseSavepoint \/ RollbackSavepoint
  <2>1. /\ Alive /\ tx.depth = 2 /\ tx' = [tx EXCEPT !.depth = 1] /\ UNCHANGED <<state, tally, unsaved, made, reported>>
    BY <1>2 DEF ReleaseSavepoint, RollbackSavepoint
  <2>2. tx' \in [depth : 0 .. 2, start : Nat] /\ tx'.depth = 1 /\ tx'.start = tx.start
    BY <1>0, <2>1
  <2>3. /\ Within(tally, made) /\ tx.start <= tally.total /\ Covers(tally, tx.start, unsaved, understood)
        /\ pending[1] + pending[2] <= tally.total - tx.start
        /\ (understood => pending[1] + pending[2] = tally.total - tx.start)
    BY <2>1 DEF ImageInv, Tallied
  <2>4. /\ pending' \in [Depths -> Nat] /\ pending'[2] = 0 /\ understood' \in BOOLEAN
        /\ pending'[1] <= pending[1] + pending[2]
        /\ understood' => understood /\ pending'[1] = pending[1] + pending[2]
    <3>1. CASE ReleaseSavepoint
      <4>1. /\ pending' = [pending EXCEPT ![1] = pending[1] + pending[2], ![2] = 0]
            /\ pending[1] + pending[2] \in Nat /\ understood' = understood
        BY <1>0, <3>1 DEF ReleaseSavepoint
      <4>2. pending' \in [Depths -> Nat] /\ pending'[1] = pending[1] + pending[2] /\ pending'[2] = 0
        BY <1>0, <4>1
      <4> QED BY <1>0, <4>1, <4>2
    <3>2. CASE RollbackSavepoint
      <4>1. /\ pending' = [pending EXCEPT ![2] = 0] /\ understood' = (understood /\ pending[2] = 0)
        BY <3>2 DEF RollbackSavepoint
      <4>2. pending' \in [Depths -> Nat] /\ pending'[1] = pending[1] /\ pending'[2] = 0
        BY <1>0, <4>1
      <4>3. pending[1] <= pending[1] + pending[2] /\ (pending[2] = 0 => pending[1] = pending[1] + pending[2])
        BY <1>0
      <4>4. pending'[1] <= pending[1] + pending[2]
        BY <4>2, <4>3
      <4>5. understood' \in BOOLEAN /\ (understood' => understood /\ pending[2] = 0)
        BY <4>1
      <4>6. understood' => understood /\ pending'[1] = pending[1] + pending[2]
        BY <4>2, <4>3, <4>5
      <4> QED BY <4>2, <4>4, <4>5, <4>6
    <3> QED BY <1>2, <3>1, <3>2
  <2>5. Covers(tally, tx.start, unsaved, understood')
    BY <2>3, <2>4 DEF Covers
  <2>6. Tallied'
    <3>1. /\ pending'[1] + pending'[2] <= tally.total - tx.start
          /\ (understood' => pending'[1] + pending'[2] = tally.total - tx.start)
      <4>1. pending'[1] \in Nat /\ pending'[2] = 0
        BY <1>0, <2>4
      <4> QED BY <1>0, <2>3, <2>4, <4>1
    <3> QED BY <2>1, <2>2, <2>3, <2>4, <2>5, <3>1 DEF Tallied
  <2>7. ImageRecords'
    BY <2>1, <2>2, <2>4 DEF ImageInv, ImageRecords
  <2>8. AnsweredIsWritten' /\ LossReported'
    BY <2>1, <2>2 DEF AnsweredIsWritten, LossReported, Alive
  <2> QED BY <2>6, <2>7, <2>8 DEF ImageInv
<1> QED BY <1>1, <1>2

LEMMA CommitStep ==
  ASSUME ImageInv, Commit
  PROVE  ImageInv'
<1>1. /\ Alive /\ tx.depth = 1 /\ tx' = NoTx /\ pending' = [d \in Depths |-> 0]
      /\ UNCHANGED <<understood, made, reported>>
  BY DEF Commit
<1>2. PICK o \in Outcomes : Flush(tally, unsaved + pending[1], o) /\ result' = Heard(o)
  BY DEF Commit
<1>3. /\ made \in Nat /\ tally.total \in Nat /\ tally.undone \in Nat /\ tally.unwritten \in Nat
      /\ unsaved \in Nat /\ tally \in TallyRow /\ tx.start \in Nat
      /\ pending[1] \in Nat /\ pending[2] \in Nat /\ made <= MaxChanges
  BY ImageOpened
<1>4. /\ Within(tally, made) /\ tx.start <= tally.total /\ Covers(tally, tx.start, unsaved, understood)
      /\ pending[1] + pending[2] <= tally.total - tx.start
      /\ (understood => pending[1] + pending[2] = tally.total - tx.start)
      /\ pending[2] = 0
  BY <1>1 DEF ImageInv, Tallied
<1>5. Covers(tally, tally.total, unsaved + pending[1], understood)
  BY <1>3, <1>4 DEF Covers
<1>6. made \in 0 .. MaxChanges /\ unsaved + pending[1] \in Nat /\ (result' = "ok" => o = "written")
  BY <1>2, <1>3, ChangesBound DEF Heard
<1> QED BY <1>1, <1>2, <1>3, <1>4, <1>5, <1>6, Flushed

LEMMA RollbackStep ==
  ASSUME ImageInv, Rollback
  PROVE  ImageInv'
<1>1. /\ Alive /\ tx.depth = 1 /\ tx' = NoTx /\ pending' = [d \in Depths |-> 0] /\ result' = "error"
      /\ UNCHANGED <<understood, made, reported>>
  BY DEF Rollback
<1>2. PICK t : t = Undone(tally)
  OBVIOUS
<1>3. PICK o \in Outcomes : Flush(t, unsaved, o)
  BY <1>2 DEF Rollback
<1>4. /\ made \in Nat /\ tally.total \in Nat /\ tally.undone \in Nat /\ tally.unwritten \in Nat
      /\ unsaved \in Nat /\ tally \in TallyRow /\ tx.start \in Nat /\ made <= MaxChanges
      /\ tally.undone <= tally.total /\ tally.total <= made
      /\ tally.unwritten + (tally.total - tally.undone) <= made
  BY ImageOpened DEF Within
<1>5. /\ tx.start <= tally.total /\ tally.undone <= tx.start
      /\ unsaved <= tally.unwritten + (tx.start - tally.undone)
      /\ (understood => unsaved = tally.unwritten + (tx.start - tally.undone))
  BY <1>1 DEF ImageInv, Tallied, Covers
<1>6. /\ t \in TallyRow /\ t.total = tally.total /\ t.unwritten = tally.unwritten
      /\ t.undone = tally.undone + (tally.total - tx.start)
  <2>1. tally.undone + (tally.total - tx.start) \in Nat
    BY <1>4, <1>5
  <2> QED BY <1>2, <1>4, <2>1 DEF Undone, TallyRow
<1>7. Within(t, made) /\ Covers(t, t.total, unsaved, understood)
  BY <1>4, <1>5, <1>6 DEF Within, Covers
<1>8. made \in 0 .. MaxChanges /\ result' # "ok"
  BY <1>1, <1>4, ChangesBound
<1> QED BY <1>1, <1>3, <1>4, <1>6, <1>7, <1>8, Flushed

LEMMA SerializeStep ==
  ASSUME ImageInv, Serialize
  PROVE  ImageInv'
<1>1. /\ Alive /\ tx.depth = 0 /\ tally' = Exported(tally)
      /\ UNCHANGED <<state, tx, unsaved, pending, understood, made, result, reported>>
  BY DEF Serialize
<1>2. /\ made \in Nat /\ tally.total \in Nat /\ tally.undone \in Nat /\ tally.unwritten \in Nat
      /\ unsaved \in Nat /\ tally \in TallyRow /\ tally.atFailure \in Nat
      /\ tally.undone <= tally.total /\ tally.total <= made
      /\ tally.unwritten + (tally.total - tally.undone) <= made
  BY ImageOpened DEF Within
<1>3. /\ unsaved <= tally.unwritten + (tally.total - tally.undone)
      /\ (understood => unsaved = tally.unwritten + (tally.total - tally.undone))
      /\ pending[1] = 0 /\ pending[2] = 0
  BY <1>1 DEF ImageInv, Tallied, Covers
<1>4. PICK sum \in Nat : sum = tally.unwritten + (tally.total - tally.undone)
  BY <1>2
<1>5. SinceExport(tally) = tally.total - tally.undone
  BY <1>2 DEF SinceExport, Positive
<1>6. tally' = [total |-> 0, undone |-> 0, unwritten |-> sum, atFailure |-> tally.atFailure]
  BY <1>1, <1>2, <1>4, <1>5 DEF Exported, TallyRow
<1>7. tally' \in TallyRow /\ Within(tally', made) /\ Covers(tally', tally'.total, unsaved, understood)
  BY <1>2, <1>3, <1>4, <1>6 DEF TallyRow, Within, Covers
<1>8. ImageRecords'
  BY <1>1, <1>7 DEF ImageInv, ImageRecords
<1>9. Tallied'
  BY <1>1, <1>3, <1>7 DEF Tallied
<1>10. AnsweredIsWritten' /\ LossReported'
  BY <1>1 DEF ImageInv, AnsweredIsWritten, LossReported
<1> QED BY <1>8, <1>9, <1>10 DEF ImageInv

LEMMA ImageCloseStep ==
  ASSUME ImageInv, CloseImage
  PROVE  ImageInv'
<1>1. /\ tx.depth = 0 /\ state' = "closed" /\ UNCHANGED <<tx, pending, understood, made>>
  BY DEF CloseImage
<1>2. PICK o \in Outcomes : /\ tally' = AfterFlush(tally, o)
                            /\ unsaved' = IF o = "written" THEN 0 ELSE unsaved
                            /\ reported' = IF o = "written" THEN 0 ELSE tally'.atFailure
  BY DEF CloseImage
<1>3. /\ made \in Nat /\ tally.total \in Nat /\ tally.undone \in Nat /\ tally.unwritten \in Nat
      /\ unsaved \in Nat /\ tally \in TallyRow /\ Within(tally, made) /\ understood \in BOOLEAN /\ made <= MaxChanges
  BY ImageOpened
<1>4. Covers(tally, tally.total, unsaved, understood) /\ pending[1] = 0 /\ pending[2] = 0
  BY <1>1 DEF ImageInv, Tallied
<1>5. /\ tally' \in TallyRow /\ Within(tally', made) /\ Covers(tally', tally'.total, unsaved', understood)
      /\ o # "written" => tally'.atFailure = tally.unwritten + (tally.total - tally.undone)
  BY <1>2, <1>3, <1>4, FlushKeeps
<1>6. unsaved' \in Nat /\ reported' \in 0 .. MaxChanges
  BY <1>2, <1>3, <1>5, ChangesBound DEF Within
<1>7. ImageRecords'
  BY <1>1, <1>5, <1>6 DEF ImageInv, ImageRecords
<1>8. Tallied'
  BY <1>1, <1>4, <1>5 DEF Tallied
<1>9. AnsweredIsWritten'
  BY <1>1 DEF AnsweredIsWritten
<1>10. LossReported'
  <2>1. CASE o = "written"
    BY <1>2, <2>1 DEF LossReported
  <2>2. CASE o # "written"
    <3>1. reported' = tally.unwritten + (tally.total - tally.undone) /\ unsaved' = unsaved
      BY <1>2, <1>5, <2>2
    <3> QED BY <1>1, <1>3, <1>4, <3>1 DEF LossReported, Covers
  <2> QED BY <2>1, <2>2
<1> QED BY <1>7, <1>8, <1>9, <1>10 DEF ImageInv

LEMMA ImageStarts == ImageInit => ImageInv
<1> SUFFICES ASSUME ImageInit PROVE ImageInv
  OBVIOUS
<1>1. /\ state = "open" /\ tally = NoTally /\ tx = NoTx /\ unsaved = 0
      /\ pending = [d \in Depths |-> 0] /\ understood = TRUE /\ made = 0
      /\ result = "ok" /\ reported = -1
  BY DEF ImageInit
<1>2. tally.total = 0 /\ tally.undone = 0 /\ tally.unwritten = 0 /\ tally \in TallyRow
  BY <1>1 DEF NoTally, TallyRow
<1>3. tx.depth = 0 /\ tx \in [depth : 0 .. 2, start : Nat] /\ pending[1] = 0 /\ pending[2] = 0
  BY <1>1 DEF NoTx, Depths
<1>4. ImageRecords
  BY <1>1, <1>2, <1>3, ChangesBound DEF ImageRecords
<1>5. Tallied
  BY <1>1, <1>2, <1>3 DEF Tallied, Within, Covers
<1> QED BY <1>1, <1>4, <1>5 DEF ImageInv, AnsweredIsWritten, LossReported

LEMMA ImageKept == ImageInv /\ [ImageNext]_imageVars => ImageInv'
<1> SUFFICES ASSUME ImageInv, [ImageNext]_imageVars PROVE ImageInv'
  OBVIOUS
<1>1. ASSUME NEW k \in 1 .. 2, Statement(k) \/ StatementInTx(k) PROVE ImageInv'
  BY <1>1, StatementStep, StatementInTxStep
<1>2. ASSUME BeginTx \/ ReleaseSavepoint \/ RollbackSavepoint PROVE ImageInv'
  BY <1>2, SavepointSteps
<1>3. ASSUME Commit \/ Rollback \/ Serialize \/ CloseImage PROVE ImageInv'
  BY <1>3, CommitStep, RollbackStep, SerializeStep, ImageCloseStep
<1>4. ASSUME UNCHANGED imageVars PROVE ImageInv'
  BY <1>4 DEF imageVars, ImageInv, ImageRecords, Tallied, AnsweredIsWritten, LossReported
<1> QED BY <1>1, <1>2, <1>3, <1>4 DEF ImageNext

LEMMA HonestyFollows == ImageInv => ImageHonest
<1> SUFFICES ASSUME ImageInv PROVE ImageHonest
  OBVIOUS
<1>1. /\ made \in Nat /\ made <= MaxChanges /\ unsaved \in Nat
      /\ tally.total \in Nat /\ tally.undone \in Nat /\ tally.unwritten \in Nat
      /\ tx.depth \in 0 .. 2 /\ tx.start \in Nat /\ pending[1] \in Nat /\ pending[2] \in Nat
      /\ tally.undone <= tally.total /\ tally.total <= made
      /\ tally.unwritten + (tally.total - tally.undone) <= made
  BY ImageOpened DEF Within
<1>2. unsaved \in 0 .. MaxChanges /\ pending[1] \in 0 .. MaxChanges /\ pending[2] \in 0 .. MaxChanges
  <2>1. CASE tx.depth = 0
    BY <1>1, <2>1, ChangesBound DEF ImageInv, Tallied, Covers
  <2>2. CASE tx.depth > 0
    <3>1. /\ tx.start <= tally.total /\ tally.undone <= tx.start
          /\ unsaved <= tally.unwritten + (tx.start - tally.undone)
          /\ pending[1] + pending[2] <= tally.total - tx.start
      BY <2>2 DEF ImageInv, Tallied, Covers
    <3> QED BY <1>1, <3>1, ChangesBound
  <2> QED BY <1>1, <2>1, <2>2
<1>3. pending \in [Depths -> 0 .. MaxChanges]
  BY <1>2 DEF ImageInv, ImageRecords, Depths
<1>4. tally.total \in 0 .. MaxChanges /\ tally.undone \in 0 .. tally.total /\ tally.unwritten \in 0 .. MaxChanges
  BY <1>1, ChangesBound
<1>5. ImageTypeOK
  BY <1>1, <1>2, <1>3, <1>4 DEF ImageTypeOK, ImageInv, ImageRecords
<1> QED BY <1>5 DEF ImageHonest, ImageInv

\* What a wasm connection answered is on disk, and what close() says was lost is the loss, through
\* failed write-backs, backups, rollbacks and savepoints (sqlite-compat.ts).
THEOREM ImageIsHonest == ImageSpec => []ImageHonest
<1>1. ImageInit => ImageInv
  BY ImageStarts
<1>2. ImageInv /\ [ImageNext]_imageVars => ImageInv'
  BY ImageKept
<1>3. ImageInv => ImageHonest
  BY HonestyFollows
<1> QED BY <1>1, <1>2, <1>3, PTL DEF ImageSpec


-----------------------------------------------------------------------------
(* The database file.  The lock of a place is on the file at its name or on one *)
(* removed from it, and at most one process holds the former (NamedAlone).  The *)
(* writes an owner reported done are in the file, and in the image of whoever  *)
(* holds the lock by its name (Knows): anyone else is stopped before its       *)
(* rename.  As long as no two restores overlap, the file of such an owner is   *)
(* stamped as its own, and a restore that took no lock replaces a file that is *)
(* not (Fits).                                                                 *)

StorePcs == {"down", "owner", "persisting", "legacy", "native"} \cup Opening \cup Restoring
Owning == {"owner", "persisting"}

ConnRow ==
  [pc : StorePcs, role : {"server", "restore"}, first : BOOLEAN, at : Places,
   fd : {"none", "named", "orphan"}, held : BOOLEAN, refs : 0 .. 1, target : Places,
   image : SUBSET (1 .. MaxWrites), seen : BOOLEAN, lost : BOOLEAN, tries : Nat,
   saved : SUBSET (1 .. MaxWrites), astray : BOOLEAN]

Shaped(c) ==
  /\ c.pc = "down" => c = Down
  /\ c.held <=> c.refs = 1 \/ c.pc = "locked"
  /\ c.pc \in Opening \ {"entered"} => c.refs = 0
  /\ c.pc \in {"opened", "locked"} => c.fd # "none"
  /\ c.held => c.fd # "none"
  /\ c.pc = "persisting" => c.refs = 1 /\ c.at = c.target
  /\ c.pc \in Restoring => c.role = "restore"
  /\ c.pc = "native" => c.refs = 0

UsedRow == [writes : 0 .. MaxWrites, faults : Nat, restores : Nat, deleted : BOOLEAN, overlap : BOOLEAN]

StoreTables ==
  /\ files \in [Places -> [kind : Kinds, rows : SUBSET (1 .. MaxWrites), twin : BOOLEAN]]
  /\ lockFile \in [Places -> BOOLEAN] /\ acked \in [Places -> SUBSET (1 .. MaxWrites)]
  /\ path \in Places /\ declared \in {"wasm", "native", "none"} /\ env \in [Procs -> {"native", "wasm"}]
  /\ used \in UsedRow

StoreRecords == StoreTables /\ conn \in [Procs -> ConnRow] /\ \A p \in Procs : Shaped(conn[p])

Descriptors ==
  \A p \in Procs : /\ conn[p].fd = "named" => lockFile[conn[p].at]
                   /\ ~ used.deleted => conn[p].fd # "orphan"

\* The connection c holds the lock of the file at its name.
Named(c) == c.held /\ c.fd = "named"

NamedAlone ==
  \A p, q \in Procs : Named(conn[p]) /\ Named(conn[q]) /\ conn[p].at = conn[q].at => p = q

AckedKept ==
  \A w \in Places : /\ acked[w] \subseteq files[w].rows
                    /\ files[w].kind # "wasm" => acked[w] = {}

Holds(c) == Intact(c) /\ c.at = c.target

\* What the connection c carries of the writes done at its target.
Knows(c, done) ==
  Holds(c) =>
    /\ c.pc \in Owning => done \subseteq c.image
    /\ c.pc \in {"r_stage", "r_swap"} /\ ~ c.astray => done \subseteq c.saved

\* The connection c suits a target of this kind.
Fits(c, kind) ==
  /\ c.pc \in Restoring /\ c.refs = 0 => kind \notin {"absent", "wasm"}
  /\ c.pc \in Owning /\ Holds(c) => kind = "wasm"
  /\ c.pc = "native" => kind \notin {"absent", "wasm"}

KnownByHolder == \A p \in Procs : Knows(conn[p], acked[conn[p].target])

OneRestore == \A p, q \in Procs : conn[p].role = "restore" /\ conn[q].role = "restore" => p = q

Apart ==
  ~ used.overlap => OneRestore /\ \A p \in Procs : Fits(conn[p], files[conn[p].target].kind)

StoreInv == StoreRecords /\ Descriptors /\ NamedAlone /\ AckedKept /\ KnownByHolder /\ Apart

\* The connection d of another process after a step: it knows less of its file.
Alike(d, c) ==
  /\ d \in ConnRow /\ Shaped(d)
  /\ d.pc = c.pc /\ d.role = c.role /\ d.at = c.at /\ d.fd = c.fd /\ d.held = c.held
  /\ d.refs = c.refs /\ d.target = c.target /\ d.image = c.image /\ d.saved = c.saved
  /\ d.astray = c.astray

\* Knows and Fits look at what Alike keeps.
LEMMA AlikeKeeps ==
  ASSUME NEW c, NEW d, Alike(d, c), NEW done, NEW kind
  PROVE  /\ Knows(c, done) => Knows(d, done)
         /\ Fits(c, kind) => Fits(d, kind)
         /\ Named(d) <=> Named(c)
BY DEF Alike, Knows, Fits, Named, Holds, Intact

\* What a step of process p has to show when its connection becomes c.
LEMMA Stepped ==
  ASSUME StoreInv, NEW p \in Procs, NEW c \in ConnRow, Shaped(c), StoreTables', AckedKept',
         conn' \in [Procs -> ConnRow], conn'[p] = c,
         \A q \in Procs \ {p} : Alike(conn'[q], conn[q]),
         used'.deleted = used.deleted, used.overlap => used'.overlap,
         \A w \in Places : lockFile[w] => lockFile'[w],
         c.fd = "named" => lockFile'[c.at], ~ used.deleted => c.fd # "orphan",
         Named(c) => \/ Named(conn[p]) /\ c.at = conn[p].at
                     \/ \A q \in Procs \ {p} : ~ (Named(conn[q]) /\ conn[q].at = c.at),
         Knows(c, acked'[c.target]),
         \A q \in Procs \ {p} : Knows(conn[q], acked'[conn[q].target]),
         ~ used'.overlap /\ c.role = "restore" =>
             conn[p].role = "restore" \/ \A q \in Procs \ {p} : conn[q].role # "restore",
         ~ used'.overlap => Fits(c, files'[c.target].kind),
         ~ used'.overlap => \A q \in Procs \ {p} : Fits(conn[q], files'[conn[q].target].kind)
  PROVE  StoreInv'
<1>1. StoreRecords /\ Descriptors /\ NamedAlone /\ Apart
  BY DEF StoreInv
<1>2. StoreRecords'
  <2>1. \A q \in Procs : Shaped(conn'[q])
    BY DEF Alike
  <2> QED BY <2>1 DEF StoreRecords
<1>3. Descriptors'
  <2>1. \A q \in Procs \ {p} : /\ conn'[q].fd = conn[q].fd /\ conn'[q].at = conn[q].at
                               /\ conn[q].at \in Places
    BY <1>1 DEF Alike, StoreRecords, ConnRow
  <2> QED BY <1>1, <2>1 DEF Descriptors
<1>4. NamedAlone'
  <2>1. \A q \in Procs \ {p} : (Named(conn'[q]) <=> Named(conn[q])) /\ conn'[q].at = conn[q].at
    BY AlikeKeeps DEF Alike
  <2> SUFFICES ASSUME NEW q \in Procs, NEW r \in Procs, q # r,
                      Named(conn'[q]), Named(conn'[r]), conn'[q].at = conn'[r].at
               PROVE  FALSE
    BY DEF NamedAlone
  <2> QED BY <1>1, <2>1 DEF NamedAlone
<1>5. KnownByHolder'
  <2>1. \A q \in Procs \ {p} : Knows(conn'[q], acked'[conn'[q].target])
    <3> SUFFICES ASSUME NEW q \in Procs \ {p} PROVE Knows(conn'[q], acked'[conn'[q].target])
      OBVIOUS
    <3>1. Alike(conn'[q], conn[q]) /\ conn'[q].target = conn[q].target
      BY DEF Alike
    <3> QED BY <3>1, AlikeKeeps
  <2> QED BY <2>1 DEF KnownByHolder
<1>6. Apart'
  <2> SUFFICES ASSUME ~ used'.overlap
               PROVE  OneRestore' /\ \A q \in Procs : Fits(conn'[q], files'[conn'[q].target].kind)
    BY DEF Apart
  <2>1. OneRestore
    BY <1>1 DEF Apart
  <2>2. \A q \in Procs \ {p} : Fits(conn'[q], files'[conn'[q].target].kind) /\ conn'[q].role = conn[q].role
    <3> SUFFICES ASSUME NEW q \in Procs \ {p}
                 PROVE  Fits(conn'[q], files'[conn'[q].target].kind) /\ conn'[q].role = conn[q].role
      OBVIOUS
    <3>1. Alike(conn'[q], conn[q]) /\ conn'[q].target = conn[q].target /\ conn'[q].role = conn[q].role
      BY DEF Alike
    <3> QED BY <3>1, AlikeKeeps
  <2> QED BY <2>1, <2>2 DEF OneRestore
<1> QED BY <1>2, <1>3, <1>4, <1>5, <1>6 DEF StoreInv

\* A file that keeps its kind, appears, or changes between kinds without an owner.
Mild(old, new) == new = old \/ old = "absent" \/ {old, new} \cap {"absent", "wasm"} = {}

LEMMA MildFits ==
  ASSUME NEW c, NEW old, NEW new, Mild(old, new), Fits(c, old)
  PROVE  Fits(c, new)
BY DEF Mild, Fits, Owning, Restoring

\* What holds of every connection.
LEMMA ConnFacts ==
  ASSUME StoreInv, NEW p \in Procs
  PROVE  /\ conn[p] \in ConnRow /\ Shaped(conn[p]) /\ Knows(conn[p], acked[conn[p].target])
         /\ ~ used.overlap => Fits(conn[p], files[conn[p].target].kind)
         /\ conn[p].at \in Places /\ conn[p].target \in Places
         /\ conn[p].fd = "named" => lockFile[conn[p].at]
         /\ ~ used.deleted => conn[p].fd # "orphan"
<1>1. conn[p] \in ConnRow /\ Shaped(conn[p])
  BY DEF StoreInv, StoreRecords
<1>2. conn[p].at \in Places /\ conn[p].target \in Places
  BY <1>1 DEF ConnRow
<1> QED BY <1>1, <1>2 DEF StoreInv, KnownByHolder, Apart, Descriptors

\* A step that changes one connection, and no file in a way another one minds.
LEMMA OneStep ==
  ASSUME StoreInv, NEW p \in Procs, NEW c \in ConnRow, Shaped(c), StoreTables', AckedKept',
         conn' = [conn EXCEPT ![p] = c], acked' = acked,
         \A w \in Places : Mild(files[w].kind, files'[w].kind),
         used'.deleted = used.deleted, used.overlap => used'.overlap,
         \A w \in Places : lockFile[w] => lockFile'[w],
         c.fd = "named" => lockFile'[c.at], ~ used.deleted => c.fd # "orphan",
         Named(c) => \/ Named(conn[p]) /\ c.at = conn[p].at
                     \/ \A q \in Procs \ {p} : ~ (Named(conn[q]) /\ conn[q].at = c.at),
         Knows(c, acked[c.target]),
         ~ used'.overlap /\ c.role = "restore" =>
             conn[p].role = "restore" \/ \A q \in Procs \ {p} : conn[q].role # "restore",
         ~ used'.overlap => Fits(c, files'[c.target].kind)
  PROVE  StoreInv'
<1>1. conn \in [Procs -> ConnRow]
  BY DEF StoreInv, StoreRecords
<1>2. conn' \in [Procs -> ConnRow] /\ conn'[p] = c /\ \A q \in Procs \ {p} : conn'[q] = conn[q]
  BY <1>1
<1>3. \A q \in Procs \ {p} : Alike(conn'[q], conn[q])
  BY <1>2, ConnFacts DEF Alike
<1>4. \A q \in Procs \ {p} : Knows(conn[q], acked'[conn[q].target])
  BY ConnFacts
<1>5. ~ used'.overlap => \A q \in Procs \ {p} : Fits(conn[q], files'[conn[q].target].kind)
  <2> SUFFICES ASSUME ~ used'.overlap, NEW q \in Procs \ {p}
               PROVE  Fits(conn[q], files'[conn[q].target].kind)
    OBVIOUS
  <2>1. conn[q].target \in Places /\ Fits(conn[q], files[conn[q].target].kind)
    BY ConnFacts
  <2> QED BY <2>1, MildFits
<1> QED BY <1>2, <1>3, <1>4, <1>5, Stepped

LEMMA MildSame == \A k : Mild(k, k)
BY DEF Mild

\* A connection that ends leaves nothing behind.
LEMMA DownIsWell == Down \in ConnRow /\ Shaped(Down)
<1>1. Home \in Places
  BY StoreBounds DEF Home
<1>2. {} \in SUBSET (1 .. MaxWrites) /\ 0 \in 0 .. 1 /\ "down" \in StorePcs
  BY DEF StorePcs
<1>3. Down \in ConnRow
  BY <1>1, <1>2 DEF Down, ConnRow
<1> QED BY <1>3 DEF Shaped, Down, Opening, Restoring

LEMMA Ends ==
  ASSUME StoreInv, NEW p \in Procs, StoreTables', AckedKept', conn' = [conn EXCEPT ![p] = Down],
         acked' = acked, \A w \in Places : Mild(files[w].kind, files'[w].kind),
         used'.deleted = used.deleted, used'.overlap = used.overlap,
         \A w \in Places : lockFile[w] => lockFile'[w]
  PROVE  StoreInv'
<1>1. /\ Down.fd = "none" /\ ~ Down.held /\ Down.pc = "down" /\ Down.role = "server" /\ Down.refs = 0
  BY DEF Down
<1>2. ~ Named(Down) /\ Knows(Down, acked[Down.target]) /\ Fits(Down, files'[Down.target].kind)
  BY <1>1 DEF Named, Knows, Holds, Intact, Fits, Owning, Restoring
<1> QED BY <1>1, <1>2, DownIsWell, OneStep

\* A change of the locks that removes none orphans nobody.
LEMMA NoOrphans ==
  ASSUME NEW f \in [Procs -> ConnRow], NEW there, \A q \in Procs : f[q].fd = "named" => there[f[q].at]
  PROVE  Orphans(f, there) = f
BY DEF Orphans

LEMMA LeaveEnds ==
  ASSUME StoreInv, NEW p \in Procs, Leave(p)
  PROVE  lockFile' = lockFile /\ conn' = [conn EXCEPT ![p] = Down]
<1>1. lockFile' = lockFile /\ conn' = Orphans([conn EXCEPT ![p] = Down], lockFile)
  BY DEF Leave, LeftBehind, Closed
<1>2. PICK f : f = [conn EXCEPT ![p] = Down]
  OBVIOUS
<1>3. f \in [Procs -> ConnRow]
  BY <1>2, DownIsWell DEF StoreInv, StoreRecords
<1>4. \A q \in Procs : f[q].fd = "named" => lockFile[f[q].at]
  <2>1. Down.fd = "none" /\ conn \in [Procs -> ConnRow]
    BY DEF Down, StoreInv, StoreRecords
  <2>2. \A q \in Procs : conn[q].fd = "named" => lockFile[conn[q].at]
    BY ConnFacts
  <2> QED BY <1>2, <2>1, <2>2
<1> QED BY <1>1, <1>2, <1>3, <1>4, NoOrphans

\* What a bound was spent on.
LEMMA Spent ==
  ASSUME StoreInv
  PROVE  /\ used' = [used EXCEPT !.faults = @ + 1] =>
              used' \in UsedRow /\ used'.deleted = used.deleted /\ used'.overlap = used.overlap
         /\ used' = [used EXCEPT !.writes = @ + 1] /\ used.writes < MaxWrites =>
              /\ used' \in UsedRow /\ used'.deleted = used.deleted /\ used'.overlap = used.overlap
              /\ used.writes + 1 \in 1 .. MaxWrites
         /\ used' = [used EXCEPT !.restores = @ + 1] =>
              used' \in UsedRow /\ used'.deleted = used.deleted /\ used'.overlap = used.overlap
<1>1. used \in UsedRow /\ used.writes \in 0 .. MaxWrites /\ used.faults \in Nat /\ used.restores \in Nat
  BY DEF StoreInv, StoreRecords, StoreTables, UsedRow
<1>2. /\ used.faults + 1 \in Nat /\ used.restores + 1 \in Nat
      /\ used.writes < MaxWrites => used.writes + 1 \in 0 .. MaxWrites /\ used.writes + 1 \in 1 .. MaxWrites
  BY <1>1, StoreBounds
<1> QED BY <1>1, <1>2 DEF UsedRow

\* A step that leaves the files and the locks as they are.
LEMMA Quiet ==
  ASSUME StoreInv, UNCHANGED <<declared, env, files, lockFile, acked>>,
         path' \in Places, used' \in UsedRow
  PROVE  /\ StoreTables' /\ AckedKept' /\ \A w \in Places : Mild(files[w].kind, files'[w].kind)
         /\ \A w \in Places : lockFile[w] => lockFile'[w]
<1>1. StoreTables /\ AckedKept
  BY DEF StoreInv, StoreRecords
<1> QED BY <1>1, MildSame DEF StoreTables, AckedKept

\* What a connection that owns nothing and restores nothing has to show: nothing.
LEMMA Idle ==
  ASSUME NEW c, c.pc \notin Owning \cup Restoring \cup {"native"}
  PROVE  \A x : Knows(c, x) /\ Fits(c, x)
BY DEF Knows, Fits, Restoring

\* A killed process.
LEMMA CrashStep ==
  ASSUME StoreInv, NEW p \in Procs, Crash(p)
  PROVE  StoreInv'
<1>1. /\ UNCHANGED <<declared, env, path, files, lockFile, acked>>
      /\ used' = [used EXCEPT !.faults = @ + 1]
      /\ conn' = [conn EXCEPT ![p] = Down] /\ path \in Places
  BY DEF Crash, StoreInv, StoreRecords, StoreTables
<1>2. path' \in Places /\ used' \in UsedRow /\ used'.deleted = used.deleted /\ used'.overlap = used.overlap
  BY <1>1, Spent
<1> QED BY <1>1, <1>2, Quiet, Ends

\* The legacy open after its await.
LEMMA LoadLegacyStep ==
  ASSUME StoreInv, NEW p \in Procs, LoadLegacy(p)
  PROVE  StoreInv'
<1>1. /\ UNCHANGED <<declared, env, path, files, lockFile, acked, used>> /\ conn[p].pc = "loading_legacy"
      /\ path' \in Places /\ used' \in UsedRow /\ used'.deleted = used.deleted /\ used'.overlap = used.overlap
      /\ path \in Places /\ files[path].rows \in SUBSET (1 .. MaxWrites)
  BY DEF LoadLegacy, StoreInv, StoreRecords, StoreTables
<1>2. PICK d : d = conn[p]
  OBVIOUS
<1>4. d \in ConnRow /\ Shaped(d) /\ (d.fd = "named" => lockFile[d.at]) /\ (~ used.deleted => d.fd # "orphan")
  BY <1>2, ConnFacts
<1>5. \/ conn' = [conn EXCEPT ![p] = [d EXCEPT !.pc = "loading", !.first = FALSE]]
      \/ conn' = [conn EXCEPT ![p] = Down]
      \/ conn' = [conn EXCEPT ![p] = [d EXCEPT !.pc = "legacy", !.target = path, !.image = files[path].rows]]
  <2>1. PICK r : r = CASE files[path].kind = "wasm" -> [d EXCEPT !.pc = "loading", !.first = FALSE]
                       [] Refuses(files[path].kind, "wasm") -> Down
                       [] OTHER -> [d EXCEPT !.pc = "legacy", !.target = path, !.image = files[path].rows]
    OBVIOUS
  <2>2. conn' = [conn EXCEPT ![p] = r]
    BY <1>2, <2>1 DEF LoadLegacy
  <2>3. files[path].kind = "wasm" => ~ Refuses(files[path].kind, "wasm")
    BY DEF Refuses
  <2>4. CASE files[path].kind = "wasm"
    BY <2>1, <2>2, <2>3, <2>4
  <2>5. CASE files[path].kind # "wasm" /\ Refuses(files[path].kind, "wasm")
    BY <2>1, <2>2, <2>5
  <2>6. CASE files[path].kind # "wasm" /\ ~ Refuses(files[path].kind, "wasm")
    BY <2>1, <2>2, <2>6
  <2> QED BY <2>4, <2>5, <2>6
<1>6. CASE conn' = [conn EXCEPT ![p] = [d EXCEPT !.pc = "loading", !.first = FALSE]]
  <2>1. PICK c : c = [d EXCEPT !.pc = "loading", !.first = FALSE]
    OBVIOUS
  <2>2. /\ c \in ConnRow /\ c.pc = "loading" /\ c.role = d.role /\ c.at = d.at /\ c.fd = d.fd
        /\ c.held = d.held /\ c.refs = d.refs
    BY <1>4, <2>1 DEF ConnRow, StorePcs, Opening
  <2>3. Shaped(c) /\ c.pc \notin Owning \cup Restoring \cup {"native"}
    BY <1>1, <1>2, <1>4, <2>2 DEF Shaped, Restoring, Owning, Opening
  <2>4. Named(c) => Named(d)
    BY <2>2 DEF Named
  <2> QED BY <1>1, <1>2, <1>4, <1>6, <2>1, <2>2, <2>3, <2>4, Idle, Quiet, OneStep
<1>7. CASE conn' = [conn EXCEPT ![p] = Down]
  BY <1>1, <1>7, Quiet, Ends
<1>8. CASE conn' = [conn EXCEPT ![p] = [d EXCEPT !.pc = "legacy", !.target = path, !.image = files[path].rows]]
  <2>1. PICK c : c = [d EXCEPT !.pc = "legacy", !.target = path, !.image = files[path].rows]
    OBVIOUS
  <2>2. /\ c \in ConnRow /\ c.pc = "legacy" /\ c.role = d.role /\ c.at = d.at /\ c.fd = d.fd
        /\ c.held = d.held /\ c.refs = d.refs
    BY <1>1, <1>4, <2>1 DEF ConnRow, StorePcs
  <2>3. Shaped(c) /\ c.pc \notin Owning \cup Restoring \cup {"native"}
    BY <1>1, <1>2, <1>4, <2>2 DEF Shaped, Restoring, Owning, Opening
  <2>4. Named(c) => Named(d)
    BY <2>2 DEF Named
  <2> QED BY <1>1, <1>2, <1>4, <1>8, <2>1, <2>2, <2>3, <2>4, Idle, Quiet, OneStep
<1> QED BY <1>5, <1>6, <1>7, <1>8

\* A step of one connection that keeps its role and its lock.
LEMMA Carries ==
  ASSUME StoreInv, NEW p \in Procs, NEW c \in ConnRow, Shaped(c), conn' = [conn EXCEPT ![p] = c],
         c.role = conn[p].role, c.at = conn[p].at, c.fd = conn[p].fd, c.held = conn[p].held,
         UNCHANGED <<declared, env, path, files, lockFile, acked>>, used' \in UsedRow,
         used'.deleted = used.deleted, used'.overlap = used.overlap,
         Knows(c, acked[c.target]), ~ used.overlap => Fits(c, files[c.target].kind)
  PROVE  StoreInv'
<1>1. path' \in Places
  BY DEF StoreInv, StoreRecords, StoreTables
<1>2. Named(c) => Named(conn[p]) /\ c.at = conn[p].at
  BY DEF Named
<1>3. c.fd = "named" => lockFile'[c.at]
  BY ConnFacts
<1>4. ~ used.deleted => c.fd # "orphan"
  BY ConnFacts
<1> QED BY <1>1, <1>2, <1>3, <1>4, Quiet, OneStep

\* An acquire that starts over holds nothing.
LEMMA Retries ==
  ASSUME StoreInv, NEW p \in Procs, conn' = [conn EXCEPT ![p] = TryAgain(conn[p])],
         UNCHANGED <<declared, env, path, files, lockFile, acked, used>>
  PROVE  StoreInv'
<1>1. path' \in Places /\ used' \in UsedRow /\ used'.deleted = used.deleted /\ used'.overlap = used.overlap
  BY DEF StoreInv, StoreRecords, StoreTables
<1>2. PICK d : d = conn[p]
  OBVIOUS
<1>3. d \in ConnRow
  BY <1>2, ConnFacts
<1>4. CASE TryAgain(d) = Down
  BY <1>1, <1>2, <1>4, Quiet, Ends
<1>5. CASE TryAgain(d) # Down
  <2>1. PICK e : e = [d EXCEPT !.fd = "none", !.held = FALSE, !.refs = 0]
    OBVIOUS
  <2>2. e \in ConnRow /\ e.role = d.role /\ e.fd = "none" /\ ~ e.held /\ e.refs = 0
    <3>1. 0 \in 0 .. 1 /\ "none" \in {"none", "named", "orphan"} /\ FALSE \in BOOLEAN
      OBVIOUS
    <3>2. e \in ConnRow
      BY <1>3, <2>1, <3>1 DEF ConnRow
    <3> QED BY <1>3, <2>1, <3>2 DEF ConnRow
  <2>3. PICK c : c = [e EXCEPT !.pc = "loading", !.tries = @ + 1]
    OBVIOUS
  <2>4. c \in ConnRow /\ c.role = d.role /\ c.fd = "none" /\ ~ c.held /\ c.refs = 0 /\ c.pc = "loading"
    <3>1. e.tries + 1 \in Nat /\ "loading" \in StorePcs
      BY <2>2 DEF ConnRow, StorePcs, Opening
    <3>2. c \in ConnRow
      BY <2>2, <2>3, <3>1 DEF ConnRow
    <3> QED BY <2>2, <2>3, <3>2 DEF ConnRow
  <2>5. TryAgain(d) = c
    BY <1>5, <2>1, <2>3 DEF TryAgain, Dropped
  <2>6. Shaped(c) /\ c.pc \notin Owning \cup Restoring \cup {"native"} /\ ~ Named(c)
    BY <2>4 DEF Shaped, Opening, Restoring, Owning, Named
  <2> QED BY <1>1, <1>2, <2>4, <2>5, <2>6, Idle, Quiet, OneStep
<1> QED BY <1>4, <1>5

\* The database materialized and the lock file opened.
LEMMA OpenLockStep ==
  ASSUME StoreInv, NEW p \in Procs, OpenLock(p)
  PROVE  StoreInv'
<1>1. StoreTables /\ AckedKept /\ path \in Places
  BY DEF StoreInv, StoreRecords, StoreTables
<1>2. UNCHANGED <<declared, env, path, acked, used>> /\ conn[p].pc = "loading"
  BY DEF OpenLock
<1>3. PICK d : d = conn[p]
  OBVIOUS
<1>4. d \in ConnRow /\ Shaped(d)
  BY <1>3, ConnFacts
<1>5. CASE conn' = [conn EXCEPT ![p] = Down] /\ UNCHANGED <<files, lockFile>>
  BY <1>1, <1>2, <1>5, Quiet, Ends DEF StoreTables
<1>6. CASE /\ files' = IF files[path].kind # "absent" THEN files
                       ELSE [files EXCEPT ![path] = [Absent EXCEPT !.kind = "wasm"]]
           /\ lockFile' = [lockFile EXCEPT ![path] = TRUE]
           /\ conn' = [conn EXCEPT ![p].pc = "opened", ![p].at = path, ![p].fd = "named"]
  <2>1. PICK c : c = [d EXCEPT !.pc = "opened", !.at = path, !.fd = "named"]
    OBVIOUS
  <2>2. conn' = [conn EXCEPT ![p] = c]
    BY <1>3, <1>6, <2>1 DEF StoreInv, StoreRecords
  <2>3. /\ c \in ConnRow /\ c.pc = "opened" /\ c.role = d.role /\ c.at = path /\ c.fd = "named"
        /\ c.held = d.held /\ c.refs = d.refs
    BY <1>1, <1>4, <2>1 DEF ConnRow, StorePcs, Opening
  <2>4. Shaped(c) /\ c.pc \notin Owning \cup Restoring \cup {"native"} /\ ~ Named(c)
    BY <1>2, <1>3, <1>4, <2>3 DEF Shaped, Opening, Restoring, Owning, Named
  <2>5. PICK f : f = [Absent EXCEPT !.kind = "wasm"]
    OBVIOUS
  <2>6. f \in [kind : Kinds, rows : SUBSET (1 .. MaxWrites), twin : BOOLEAN] /\ f.kind = "wasm"
    BY <2>5 DEF Absent, Kinds
  <2>7. StoreTables'
    BY <1>1, <1>2, <1>6, <2>5, <2>6 DEF StoreTables
  <2>8. \A w \in Places : files'[w] = files[w] \/ files[w].kind = "absent"
    BY <1>1, <1>6 DEF StoreTables
  <2>9. AckedKept'
    BY <1>1, <1>2, <2>8 DEF AckedKept
  <2>10. \A w \in Places : Mild(files[w].kind, files'[w].kind)
    BY <2>8 DEF Mild
  <2>11. lockFile'[path] /\ \A w \in Places : lockFile[w] => lockFile'[w]
    BY <1>1, <1>6 DEF StoreTables
  <2> QED BY <1>2, <1>3, <2>2, <2>3, <2>4, <2>7, <2>9, <2>10, <2>11, Idle, OneStep
<1> QED BY <1>5, <1>6 DEF OpenLock

\* The kernel's lock, taken or refused.
LEMMA FlockStep ==
  ASSUME StoreInv, NEW p \in Procs, Flock(p)
  PROVE  StoreInv'
<1>1. UNCHANGED <<declared, env, path, files, lockFile, acked, used>> /\ conn[p].pc = "opened"
  BY DEF Flock
<1>2. /\ path' \in Places /\ used' \in UsedRow /\ used'.deleted = used.deleted
      /\ used'.overlap = used.overlap
  BY <1>1 DEF StoreInv, StoreRecords, StoreTables
<1>3. PICK d : d = conn[p]
  OBVIOUS
<1>4. /\ d \in ConnRow /\ Shaped(d) /\ (d.fd = "named" => lockFile[d.at])
      /\ (~ used.deleted => d.fd # "orphan")
  BY <1>3, ConnFacts
<1>5. CASE LockFree(p)
  <2>1. PICK c : c = [d EXCEPT !.pc = "locked", !.held = TRUE]
    OBVIOUS
  <2>2. conn' = [conn EXCEPT ![p] = c]
    BY <1>3, <1>5, <2>1 DEF Flock
  <2>3. /\ c \in ConnRow /\ c.pc = "locked" /\ c.role = d.role /\ c.at = d.at /\ c.fd = d.fd
        /\ c.held /\ c.refs = d.refs
    BY <1>4, <2>1 DEF ConnRow, StorePcs, Opening
  <2>4. Shaped(c) /\ c.pc \notin Owning \cup Restoring \cup {"native"}
    BY <1>1, <1>3, <1>4, <2>3 DEF Shaped, Opening, Restoring, Owning
  <2>5. Named(c) => \A q \in Procs \ {p} : ~ (Named(conn[q]) /\ conn[q].at = c.at)
    BY <1>3, <1>5, <2>3 DEF Named, LockFree
  <2> QED BY <1>1, <1>2, <1>3, <1>4, <2>2, <2>3, <2>4, <2>5, Idle, Quiet, OneStep
<1>6. CASE ~ LockFree(p)
  <2>1. conn' = [conn EXCEPT ![p] = TryAgain(conn[p])]
    BY <1>6 DEF Flock
  <2> QED BY <1>1, <2>1, Retries
<1> QED BY <1>5, <1>6

\* A change of the files that keeps what they hold and, where it counts, their kind.
LEMMA FilesChange ==
  ASSUME StoreInv, NEW f \in [Places -> [kind : Kinds, rows : SUBSET (1 .. MaxWrites), twin : BOOLEAN]],
         files' = f, UNCHANGED <<declared, env, acked>>, lockFile' \in [Places -> BOOLEAN],
         path' \in Places, used' \in UsedRow,
         \A w \in Places : \/ f[w].kind = files[w].kind /\ files[w].rows \subseteq f[w].rows
                           \/ /\ files[w].kind # "wasm" /\ f[w].kind # "absent"
                              /\ files[w].kind # "absent" => f[w].kind # "wasm"
  PROVE  StoreTables' /\ AckedKept' /\ \A w \in Places : Mild(files[w].kind, files'[w].kind)
<1>1. StoreTables /\ AckedKept
  BY DEF StoreInv, StoreRecords
<1>2. StoreTables'
  BY <1>1 DEF StoreTables
<1>3. AckedKept'
  <2> SUFFICES ASSUME NEW w \in Places
               PROVE  acked[w] \subseteq f[w].rows /\ (f[w].kind # "wasm" => acked[w] = {})
    BY DEF AckedKept
  <2>1. acked[w] \subseteq files[w].rows /\ (files[w].kind # "wasm" => acked[w] = {})
    BY <1>1 DEF AckedKept
  <2> QED BY <2>1
<1>4. \A w \in Places : Mild(files[w].kind, files'[w].kind)
  BY DEF Mild
<1> QED BY <1>2, <1>3, <1>4

\* The lock confirmed under it, or given up.
LEMMA RederiveStep ==
  ASSUME StoreInv, NEW p \in Procs, Rederive(p)
  PROVE  StoreInv'
<1>1. UNCHANGED <<declared, env, path, lockFile, acked, used>> /\ conn[p].pc = "locked"
  BY DEF Rederive
<1>2. /\ path' \in Places /\ used' \in UsedRow /\ used'.deleted = used.deleted
      /\ used'.overlap = used.overlap /\ path \in Places /\ lockFile' \in [Places -> BOOLEAN]
      /\ files \in [Places -> [kind : Kinds, rows : SUBSET (1 .. MaxWrites), twin : BOOLEAN]]
  BY <1>1 DEF StoreInv, StoreRecords, StoreTables
<1>3. PICK d : d = conn[p]
  OBVIOUS
<1>4. /\ d \in ConnRow /\ Shaped(d) /\ (d.fd = "named" => lockFile[d.at])
      /\ (~ used.deleted => d.fd # "orphan")
  BY <1>3, ConnFacts
<1>5. CASE path = conn[p].at /\ files[path].kind # "absent"
  <2>1. PICK pc : pc = IF d.role = "server" THEN "entered" ELSE "r_backup"
    OBVIOUS
  <2>2. PICK c : c = [d EXCEPT !.refs = 1, !.tries = 0, !.first = FALSE, !.pc = pc]
    OBVIOUS
  <2>3. conn' = [conn EXCEPT ![p] = c] /\ files' = [files EXCEPT ![path].twin = FALSE]
    <3>1. conn' = [conn EXCEPT ![p].refs = 1, ![p].tries = 0, ![p].first = FALSE, ![p].pc = pc]
      BY <1>3, <1>5, <2>1 DEF Rederive
    <3> QED BY <1>3, <1>5, <2>2, <3>1 DEF Rederive, StoreInv, StoreRecords
  <2>4. /\ c \in ConnRow /\ c.pc = pc /\ c.role = d.role /\ c.at = d.at /\ c.fd = d.fd
        /\ c.held = d.held /\ c.refs = 1
    <3>1. pc \in StorePcs /\ 1 \in 0 .. 1
      BY <2>1 DEF StorePcs, Opening, Restoring
    <3>2. c \in ConnRow
      BY <1>4, <2>2, <3>1 DEF ConnRow
    <3> QED BY <1>4, <2>2, <3>2 DEF ConnRow
  <2>5. Shaped(c)
    BY <1>1, <1>3, <1>4, <2>1, <2>4 DEF Shaped, Opening, Restoring, ConnRow
  <2>6. \A x : Knows(c, x) /\ Fits(c, x)
    BY <2>1, <2>4 DEF Knows, Fits, Restoring, Owning
  <2>7. Named(c) => Named(d) /\ c.at = d.at
    BY <2>4 DEF Named
  <2>8. /\ files' \in [Places -> [kind : Kinds, rows : SUBSET (1 .. MaxWrites), twin : BOOLEAN]]
        /\ \A w \in Places : files'[w].kind = files[w].kind /\ files'[w].rows = files[w].rows
    BY <1>2, <2>3
  <2>9. StoreTables' /\ AckedKept' /\ \A w \in Places : Mild(files[w].kind, files'[w].kind)
    <3>1. PICK f : f = files'
      OBVIOUS
    <3>2. /\ f \in [Places -> [kind : Kinds, rows : SUBSET (1 .. MaxWrites), twin : BOOLEAN]]
          /\ \A w \in Places : f[w].kind = files[w].kind /\ files[w].rows \subseteq f[w].rows
      BY <2>8, <3>1
    <3>3. UNCHANGED <<declared, env, acked>>
      BY <1>1
    <3> QED BY <1>2, <3>1, <3>2, <3>3, FilesChange
  <2> QED BY <1>1, <1>2, <1>3, <1>4, <2>3, <2>4, <2>5, <2>6, <2>7, <2>9, OneStep
<1>6. CASE ~ (path = conn[p].at /\ files[path].kind # "absent")
  <2>1. conn' = [conn EXCEPT ![p] = TryAgain(conn[p])] /\ files' = files
    BY <1>6 DEF Rederive
  <2> QED BY <1>1, <2>1, Retries
<1> QED BY <1>5, <1>6

\* The owner's open, or the legacy one, under the lock.
LEMMA OpenOwnedStep ==
  ASSUME StoreInv, NEW p \in Procs, OpenOwned(p)
  PROVE  StoreInv'
<1>1. UNCHANGED <<declared, env, path, files, acked, used>> /\ conn[p].pc = "entered"
  BY DEF OpenOwned
<1>2. /\ path' \in Places /\ used' \in UsedRow /\ used'.deleted = used.deleted
      /\ used'.overlap = used.overlap /\ path \in Places
      /\ files[path].rows \in SUBSET (1 .. MaxWrites) /\ acked[path] \subseteq files[path].rows
  BY <1>1 DEF StoreInv, StoreRecords, StoreTables, AckedKept
<1>3. PICK d : d = conn[p]
  OBVIOUS
<1>4. /\ d \in ConnRow /\ Shaped(d) /\ d.refs \in 0 .. 1
  BY <1>3, ConnFacts DEF ConnRow
<1>5. CASE /\ files[path].kind = "wasm" /\ UNCHANGED lockFile
           /\ conn' = [conn EXCEPT ![p].pc = "owner", ![p].target = path,
                                   ![p].image = files[path].rows, ![p].seen = TRUE]
  <2>1. PICK c : c = [d EXCEPT !.pc = "owner", !.target = path, !.image = files[path].rows, !.seen = TRUE]
    OBVIOUS
  <2>2. conn' = [conn EXCEPT ![p] = c]
    BY <1>3, <1>5, <2>1 DEF StoreInv, StoreRecords
  <2>3. /\ c \in ConnRow /\ c.pc = "owner" /\ c.role = d.role /\ c.at = d.at /\ c.fd = d.fd
        /\ c.held = d.held /\ c.refs = d.refs /\ c.target = path /\ c.image = files[path].rows
    <3>1. "owner" \in StorePcs
      BY DEF StorePcs
    <3>2. c \in ConnRow
      BY <1>2, <1>4, <2>1, <3>1 DEF ConnRow
    <3> QED BY <1>4, <2>1, <3>2 DEF ConnRow
  <2>4. Shaped(c)
    BY <1>1, <1>3, <1>4, <2>3 DEF Shaped, Opening, Restoring
  <2>5. Knows(c, acked[c.target]) /\ Fits(c, files[c.target].kind)
    BY <1>2, <1>5, <2>3 DEF Knows, Fits, Restoring
  <2> QED BY <1>1, <1>2, <1>3, <1>5, <2>2, <2>3, <2>4, <2>5, Carries
<1>6. CASE /\ UNCHANGED lockFile
           /\ conn' = [conn EXCEPT ![p] = [Released(conn[p]) EXCEPT !.pc = "legacy",
                          !.target = path, !.at = Home, !.image = files[path].rows]]
  <2>1. PICK e : e = [d EXCEPT !.fd = "none", !.held = FALSE, !.refs = 0]
    OBVIOUS
  <2>2. Released(d) = e
    BY <1>4, <2>1 DEF Released, Dropped
  <2>3. e \in ConnRow /\ e.role = d.role /\ e.fd = "none" /\ ~ e.held /\ e.refs = 0
    <3>1. 0 \in 0 .. 1 /\ "none" \in {"none", "named", "orphan"} /\ FALSE \in BOOLEAN
      OBVIOUS
    <3>2. e \in ConnRow
      BY <1>4, <2>1, <3>1 DEF ConnRow
    <3> QED BY <1>4, <2>1, <3>2 DEF ConnRow
  <2>4. PICK c : c = [e EXCEPT !.pc = "legacy", !.target = path, !.at = Home, !.image = files[path].rows]
    OBVIOUS
  <2>5. c \in ConnRow /\ c.role = d.role /\ c.fd = "none" /\ ~ c.held /\ c.refs = 0 /\ c.pc = "legacy"
    <3>1. "legacy" \in StorePcs /\ Home \in Places
      BY StoreBounds DEF StorePcs, Home
    <3>2. c \in ConnRow
      BY <1>2, <2>3, <2>4, <3>1 DEF ConnRow
    <3> QED BY <2>3, <2>4, <3>2 DEF ConnRow
  <2>6. Shaped(c) /\ c.pc \notin Owning \cup Restoring \cup {"native"} /\ ~ Named(c)
    BY <2>5 DEF Shaped, Opening, Restoring, Owning, Named
  <2>7. conn' = [conn EXCEPT ![p] = c]
    BY <1>3, <1>6, <2>2, <2>4
  <2> QED BY <1>1, <1>2, <1>3, <1>6, <2>5, <2>6, <2>7, Idle, Quiet, OneStep
<1>7. CASE Leave(p)
  <2>1. lockFile' = lockFile /\ conn' = [conn EXCEPT ![p] = Down]
    BY <1>7, LeaveEnds
  <2> QED BY <1>1, <1>2, <2>1, Quiet, Ends
<1>8. \/ Leave(p)
      \/ /\ UNCHANGED lockFile
         /\ conn' = [conn EXCEPT ![p] = [Released(conn[p]) EXCEPT !.pc = "legacy",
                          !.target = path, !.at = Home, !.image = files[path].rows]]
      \/ /\ files[path].kind = "wasm" /\ UNCHANGED lockFile
         /\ conn' = [conn EXCEPT ![p].pc = "owner", ![p].target = path,
                                 ![p].image = files[path].rows, ![p].seen = TRUE]
  <2>1. CASE files[path].kind = "wasm" /\ ~ SideFiles(path) /\ ~ files[path].twin
    BY <2>1 DEF OpenOwned
  <2>2. CASE ~ (files[path].kind = "wasm" /\ ~ SideFiles(path) /\ ~ files[path].twin)
    BY <2>2 DEF OpenOwned
  <2> QED BY <2>1, <2>2
<1> QED BY <1>5, <1>6, <1>7, <1>8

\* A statement of the owner.
LEMMA OwnerWriteStep ==
  ASSUME StoreInv, NEW p \in Procs, OwnerWrite(p)
  PROVE  StoreInv'
<1>1. /\ UNCHANGED <<declared, env, path, files, lockFile, acked>> /\ conn[p].pc = "owner"
      /\ used.writes < MaxWrites /\ used' = [used EXCEPT !.writes = @ + 1]
  BY DEF OwnerWrite
<1>2. /\ used' \in UsedRow /\ used'.deleted = used.deleted /\ used'.overlap = used.overlap
      /\ used.writes + 1 \in 1 .. MaxWrites
  BY <1>1, Spent
<1>3. PICK d : d = conn[p]
  OBVIOUS
<1>4. /\ d \in ConnRow /\ Shaped(d) /\ d.refs \in 0 .. 1 /\ Knows(d, acked[d.target])
      /\ ~ used.overlap => Fits(d, files[d.target].kind)
  BY <1>3, ConnFacts DEF ConnRow
<1>5. PICK pc : pc = IF MayPersist(d) THEN "persisting" ELSE "owner"
  OBVIOUS
<1>6. PICK image : image = d.image \union {used.writes + 1}
  OBVIOUS
<1>7. PICK c : c = [d EXCEPT !.image = image, !.pc = pc]
  OBVIOUS
<1>8. conn' = [conn EXCEPT ![p] = c]
  <2>1. conn' = [conn EXCEPT ![p].image = @ \union {used.writes + 1}, ![p].pc = pc]
    BY <1>3, <1>5 DEF OwnerWrite
  <2> QED BY <1>3, <1>6, <1>7, <2>1 DEF StoreInv, StoreRecords
<1>9. /\ c \in ConnRow /\ c.pc = pc /\ c.role = d.role /\ c.at = d.at /\ c.fd = d.fd
      /\ c.held = d.held /\ c.refs = d.refs /\ c.target = d.target /\ c.image = image
  <2>1. pc \in StorePcs
    BY <1>5 DEF StorePcs
  <2>2. image \in SUBSET (1 .. MaxWrites)
    <3>1. d.image \in SUBSET (1 .. MaxWrites)
      BY <1>4 DEF ConnRow
    <3> QED BY <1>2, <1>6, <3>1
  <2>3. c \in ConnRow
    BY <1>4, <1>7, <2>1, <2>2 DEF ConnRow
  <2> QED BY <1>4, <1>7, <2>3 DEF ConnRow
<1>10. Shaped(c)
  <2>1. pc = "persisting" => d.refs = 1 /\ d.at = d.target
    BY <1>4, <1>5 DEF MayPersist
  <2>2. pc \in Owning
    BY <1>5 DEF Owning
  <2> QED BY <1>1, <1>3, <1>4, <1>9, <2>1, <2>2 DEF Shaped, Opening, Restoring, Owning
<1>11. Knows(c, acked[c.target])
  <2>1. Holds(c) => acked[c.target] \subseteq c.image
    BY <1>1, <1>3, <1>4, <1>6, <1>9 DEF Knows, Holds, Intact, Owning
  <2> QED BY <1>5, <1>9, <2>1 DEF Knows
<1>12. ~ used.overlap => Fits(c, files[c.target].kind)
  <2>1. pc \in Owning /\ "owner" \in Owning
    BY <1>5 DEF Owning
  <2> QED BY <1>1, <1>3, <1>4, <1>9, <2>1 DEF Fits, Holds, Intact, Restoring, Owning
<1> QED BY <1>1, <1>2, <1>3, <1>8, <1>9, <1>10, <1>11, <1>12, Carries

\* The rename refused.
LEMMA RenameFailsStep ==
  ASSUME StoreInv, NEW p \in Procs, RenameFails(p)
  PROVE  StoreInv'
<1>1. UNCHANGED <<declared, env, path, files, lockFile, acked, used>> /\ conn[p].pc = "persisting"
  BY DEF RenameFails
<1>2. used' \in UsedRow /\ used'.deleted = used.deleted /\ used'.overlap = used.overlap
  BY <1>1 DEF StoreInv, StoreRecords, StoreTables
<1>3. PICK d : d = conn[p]
  OBVIOUS
<1>4. /\ d \in ConnRow /\ Shaped(d) /\ Knows(d, acked[d.target])
      /\ ~ used.overlap => Fits(d, files[d.target].kind)
  BY <1>3, ConnFacts
<1>5. PICK c : c = [d EXCEPT !.pc = "owner"]
  OBVIOUS
<1>6. conn' = [conn EXCEPT ![p] = c]
  BY <1>3, <1>5 DEF RenameFails
<1>7. /\ c \in ConnRow /\ c.pc = "owner" /\ c.role = d.role /\ c.at = d.at /\ c.fd = d.fd
      /\ c.held = d.held /\ c.refs = d.refs /\ c.target = d.target /\ c.image = d.image
  BY <1>4, <1>5 DEF ConnRow, StorePcs
<1>8. Shaped(c)
  BY <1>1, <1>3, <1>4, <1>7 DEF Shaped, Opening, Restoring
<1>9. Knows(c, acked[c.target])
  BY <1>1, <1>3, <1>4, <1>7 DEF Knows, Holds, Intact, Owning
<1>10. ~ used.overlap => Fits(c, files[c.target].kind)
  BY <1>1, <1>3, <1>4, <1>7 DEF Fits, Holds, Intact, Restoring, Owning
<1> QED BY <1>1, <1>2, <1>3, <1>6, <1>7, <1>8, <1>9, <1>10, Carries

\* A restore planned: with another one under way, the two overlap.
LEMMA RestorePlanStep ==
  ASSUME StoreInv, NEW p \in Procs, RestorePlan(p)
  PROVE  StoreInv'
<1>1. /\ UNCHANGED <<declared, env, path, files, lockFile, acked>> /\ files[path].kind # "absent"
      /\ used' = [used EXCEPT !.restores = @ + 1,
                              !.overlap = @ \/ \E q \in Procs : conn[q].role = "restore"]
  BY DEF RestorePlan
<1>2. path \in Places /\ path' \in Places /\ used \in UsedRow /\ used.restores \in Nat /\ used.overlap \in BOOLEAN
  BY <1>1 DEF StoreInv, StoreRecords, StoreTables, UsedRow
<1>3. /\ used' \in UsedRow /\ used'.deleted = used.deleted
      /\ used'.overlap = (used.overlap \/ \E q \in Procs : conn[q].role = "restore")
  <2>1. PICK o \in BOOLEAN : o = (used.overlap \/ \E q \in Procs : conn[q].role = "restore")
    OBVIOUS
  <2>2. used' = [used EXCEPT !.restores = used.restores + 1, !.overlap = o] /\ used.restores + 1 \in Nat
    BY <1>1, <1>2, <2>1 DEF UsedRow
  <2> QED BY <1>2, <2>1, <2>2 DEF UsedRow
<1>4. PICK pc : pc = IF NeedsLock(files[path].kind) THEN "loading" ELSE "r_backup"
  OBVIOUS
<1>5. PICK c : c = [Down EXCEPT !.role = "restore", !.target = path, !.pc = pc]
  OBVIOUS
<1>6. conn' = [conn EXCEPT ![p] = c]
  BY <1>4, <1>5 DEF RestorePlan
<1>7. /\ c \in ConnRow /\ c.pc = pc /\ c.role = "restore" /\ c.fd = "none" /\ ~ c.held
      /\ c.refs = 0 /\ c.target = path
  <2>1. pc \in StorePcs
    BY <1>4 DEF StorePcs, Opening, Restoring
  <2>2. Down \in ConnRow /\ Down.fd = "none" /\ ~ Down.held /\ Down.refs = 0
    BY DownIsWell DEF Down
  <2>3. c \in ConnRow
    BY <1>2, <1>5, <2>1, <2>2 DEF ConnRow
  <2> QED BY <1>5, <2>2, <2>3 DEF ConnRow
<1>8. Shaped(c) /\ ~ Named(c)
  BY <1>4, <1>7 DEF Shaped, Opening, Restoring, Named
<1>9. Knows(c, acked[c.target]) /\ Fits(c, files[c.target].kind)
  BY <1>1, <1>4, <1>7 DEF Knows, Fits, NeedsLock, Owning, Restoring
<1>10. ~ used'.overlap => \A q \in Procs \ {p} : conn[q].role # "restore"
  BY <1>3
<1>11. used.overlap => used'.overlap
  BY <1>3
<1> QED BY <1>1, <1>2, <1>3, <1>6, <1>7, <1>8, <1>9, <1>10, <1>11, Quiet, OneStep

\* The safety backup: of the file that will be replaced, unless the path leads elsewhere.
LEMMA SafetyBackupStep ==
  ASSUME StoreInv, NEW p \in Procs, SafetyBackup(p)
  PROVE  StoreInv'
<1>1. UNCHANGED <<declared, env, path, files, lockFile, acked, used>> /\ conn[p].pc = "r_backup"
  BY DEF SafetyBackup
<1>2. /\ used' \in UsedRow /\ used'.deleted = used.deleted /\ used'.overlap = used.overlap
      /\ path \in Places /\ files[path].rows \in SUBSET (1 .. MaxWrites)
      /\ acked[path] \subseteq files[path].rows
  BY <1>1 DEF StoreInv, StoreRecords, StoreTables, AckedKept
<1>3. PICK d : d = conn[p]
  OBVIOUS
<1>4. /\ d \in ConnRow /\ Shaped(d) /\ d.refs \in 0 .. 1 /\ Knows(d, acked[d.target])
      /\ ~ used.overlap => Fits(d, files[d.target].kind)
  BY <1>3, ConnFacts DEF ConnRow
<1>5. PICK astray : astray = (path # d.target)
  OBVIOUS
<1>6. PICK c : c = [d EXCEPT !.saved = files[path].rows, !.astray = astray, !.pc = "r_stage"]
  OBVIOUS
<1>7. conn' = [conn EXCEPT ![p] = c]
  <2>1. PICK taken : taken = [d EXCEPT !.refs = @ + 1]
    OBVIOUS
  <2>2. d.refs > 0 => Released(taken) = d
    <3> SUFFICES ASSUME d.refs = 1 PROVE Released(taken) = d
      BY <1>4
    <3>1. taken.refs = 2 /\ Released(taken) = [taken EXCEPT !.refs = taken.refs - 1]
      BY <1>4, <2>1 DEF Released, ConnRow
    <3>2. PICK e : e = [taken EXCEPT !.refs = 1]
      OBVIOUS
    <3>3. e = d
      BY <1>4, <2>1, <3>2 DEF ConnRow
    <3> QED BY <3>1, <3>2, <3>3
  <2>3. PICK mine : mine = (d.refs > 0 /\ d.at = path)
    OBVIOUS
  <2>4. conn' = [conn EXCEPT ![p] = [(IF mine THEN Released(taken) ELSE d) EXCEPT
                    !.saved = files[path].rows, !.astray = astray, !.pc = "r_stage"]]
    BY <1>3, <1>5, <2>1, <2>3 DEF SafetyBackup
  <2>5. (IF mine THEN Released(taken) ELSE d) = d
    BY <2>2, <2>3
  <2> QED BY <1>6, <2>4, <2>5
<1>8. /\ c \in ConnRow /\ c.pc = "r_stage" /\ c.role = d.role /\ c.at = d.at /\ c.fd = d.fd
      /\ c.held = d.held /\ c.refs = d.refs /\ c.target = d.target
      /\ c.saved = files[path].rows /\ c.astray = (path # d.target)
  <2>1. "r_stage" \in StorePcs /\ astray \in BOOLEAN
    BY <1>5 DEF StorePcs, Restoring
  <2>2. c \in ConnRow
    BY <1>2, <1>4, <1>6, <2>1 DEF ConnRow
  <2> QED BY <1>4, <1>5, <1>6, <2>2 DEF ConnRow
<1>9. Shaped(c)
  BY <1>1, <1>3, <1>4, <1>8 DEF Shaped, Opening, Restoring
<1>10. Knows(c, acked[c.target])
  BY <1>2, <1>8 DEF Knows, Owning
<1>11. ~ used.overlap => Fits(c, files[c.target].kind)
  BY <1>1, <1>3, <1>4, <1>8 DEF Fits, Restoring, Owning
<1> QED BY <1>1, <1>2, <1>3, <1>7, <1>8, <1>9, <1>10, <1>11, Carries

\* The archive's copy staged.
LEMMA RestoreStageStep ==
  ASSUME StoreInv, NEW p \in Procs, RestoreStage(p)
  PROVE  StoreInv'
<1>1. UNCHANGED <<declared, env, path, files, lockFile, acked, used>> /\ conn[p].pc = "r_stage"
  BY DEF RestoreStage
<1>2. used' \in UsedRow /\ used'.deleted = used.deleted /\ used'.overlap = used.overlap
  BY <1>1 DEF StoreInv, StoreRecords, StoreTables
<1>3. PICK d : d = conn[p]
  OBVIOUS
<1>4. /\ d \in ConnRow /\ Shaped(d) /\ Knows(d, acked[d.target])
      /\ ~ used.overlap => Fits(d, files[d.target].kind)
  BY <1>3, ConnFacts
<1>5. PICK c : c = [d EXCEPT !.pc = "r_swap"]
  OBVIOUS
<1>6. conn' = [conn EXCEPT ![p] = c]
  BY <1>3, <1>5 DEF RestoreStage
<1>7. /\ c \in ConnRow /\ c.pc = "r_swap" /\ c.role = d.role /\ c.at = d.at /\ c.fd = d.fd
      /\ c.held = d.held /\ c.refs = d.refs /\ c.target = d.target
      /\ c.saved = d.saved /\ c.astray = d.astray
  BY <1>4, <1>5 DEF ConnRow, StorePcs, Restoring
<1>8. Shaped(c)
  BY <1>1, <1>3, <1>4, <1>7 DEF Shaped, Opening, Restoring
<1>9. Knows(c, acked[c.target])
  BY <1>1, <1>3, <1>4, <1>7 DEF Knows, Holds, Intact, Owning
<1>10. ~ used.overlap => Fits(c, files[c.target].kind)
  BY <1>1, <1>3, <1>4, <1>7 DEF Fits, Restoring, Owning
<1> QED BY <1>1, <1>2, <1>3, <1>6, <1>7, <1>8, <1>9, <1>10, Carries

\* A refused or failed restore.
LEMMA RestoreAbortsStep ==
  ASSUME StoreInv, NEW p \in Procs, RestoreAborts(p)
  PROVE  StoreInv'
<1>1. UNCHANGED <<declared, env, path, files, acked, used>> /\ Leave(p)
  BY DEF RestoreAborts
<1>2. /\ path' \in Places /\ used' \in UsedRow /\ used'.deleted = used.deleted
      /\ used'.overlap = used.overlap
  BY <1>1 DEF StoreInv, StoreRecords, StoreTables
<1>3. lockFile' = lockFile /\ conn' = [conn EXCEPT ![p] = Down]
  BY <1>1, LeaveEnds
<1> QED BY <1>1, <1>2, <1>3, Quiet, Ends

\* The tables of a step that changes one file.
LEMMA FileChanges ==
  ASSUME StoreInv, NEW w \in Places, NEW kind \in Kinds, NEW content \in SUBSET (1 .. MaxWrites),
         NEW twin \in BOOLEAN, files' = [files EXCEPT ![w] = [kind |-> kind, rows |-> content, twin |-> twin]],
         UNCHANGED <<declared, env, path, lockFile, acked>>, used' \in UsedRow,
         \/ kind = files[w].kind /\ files[w].rows \subseteq content
         \/ /\ files[w].kind # "wasm" /\ kind # "absent"
            /\ files[w].kind # "absent" => kind # "wasm"
  PROVE  /\ StoreTables' /\ AckedKept' /\ \A x \in Places : Mild(files[x].kind, files'[x].kind)
         /\ \A x \in Places : lockFile[x] => lockFile'[x]
<1>1. StoreTables /\ path \in Places /\ lockFile \in [Places -> BOOLEAN]
  BY DEF StoreInv, StoreRecords, StoreTables
<1>2. PICK f : f = files'
  OBVIOUS
<1>3. f \in [Places -> [kind : Kinds, rows : SUBSET (1 .. MaxWrites), twin : BOOLEAN]]
  BY <1>1, <1>2 DEF StoreTables
<1>4. \A x \in Places : x # w => f[x] = files[x]
  BY <1>1, <1>2 DEF StoreTables
<1>5. f[w].kind = kind /\ f[w].rows = content
  BY <1>1, <1>2 DEF StoreTables
<1>6. UNCHANGED <<declared, env, acked>> /\ lockFile' \in [Places -> BOOLEAN] /\ path' \in Places
  BY <1>1
<1>7. \A x \in Places : \/ f[x].kind = files[x].kind /\ files[x].rows \subseteq f[x].rows
                        \/ /\ files[x].kind # "wasm" /\ f[x].kind # "absent"
                           /\ files[x].kind # "absent" => f[x].kind # "wasm"
  BY <1>4, <1>5
<1> QED BY <1>2, <1>3, <1>6, <1>7, FilesChange

\* What is there of a file.
LEMMA FileFacts ==
  ASSUME StoreInv, NEW w \in Places
  PROVE  /\ files[w].kind \in Kinds /\ files[w].rows \in SUBSET (1 .. MaxWrites) /\ files[w].twin \in BOOLEAN
         /\ files[w] = [kind |-> files[w].kind, rows |-> files[w].rows, twin |-> files[w].twin]
<1>1. files[w] \in [kind : Kinds, rows : SUBSET (1 .. MaxWrites), twin : BOOLEAN]
  BY DEF StoreInv, StoreRecords, StoreTables
<1> QED BY <1>1

LEMMA NewFields ==
  ASSUME NEW f \in [kind : Kinds, rows : SUBSET (1 .. MaxWrites), twin : BOOLEAN], NEW kind \in Kinds,
         NEW content \in SUBSET (1 .. MaxWrites)
  PROVE  /\ [f EXCEPT !.kind = kind] = [kind |-> kind, rows |-> f.rows, twin |-> f.twin]
         /\ [f EXCEPT !.rows = content] = [kind |-> f.kind, rows |-> content, twin |-> f.twin]
<1>1. PICK d : d = [f EXCEPT !.kind = kind]
  OBVIOUS
<1>2. PICK e : e = [f EXCEPT !.rows = content]
  OBVIOUS
<1>3. /\ d \in [kind : Kinds, rows : SUBSET (1 .. MaxWrites), twin : BOOLEAN]
      /\ d.kind = kind /\ d.rows = f.rows /\ d.twin = f.twin
  BY <1>1
<1>4. /\ e \in [kind : Kinds, rows : SUBSET (1 .. MaxWrites), twin : BOOLEAN]
      /\ e.kind = f.kind /\ e.rows = content /\ e.twin = f.twin
  BY <1>2
<1>5. d = [kind |-> kind, rows |-> f.rows, twin |-> f.twin]
  BY <1>3
<1>6. e = [kind |-> f.kind, rows |-> content, twin |-> f.twin]
  BY <1>4
<1> QED BY <1>1, <1>2, <1>5, <1>6

LEMMA FileRow ==
  ASSUME StoreInv, NEW w \in Places
  PROVE  files[w] \in [kind : Kinds, rows : SUBSET (1 .. MaxWrites), twin : BOOLEAN]
BY DEF StoreInv, StoreRecords, StoreTables

\* The close of a connection.
LEMMA CloseStep ==
  ASSUME StoreInv, NEW p \in Procs, Close(p)
  PROVE  StoreInv'
<1>1. /\ UNCHANGED <<declared, env, path, acked, used>> /\ Leave(p)
      /\ files' = IF conn[p].pc = "native"
                  THEN [files EXCEPT ![conn[p].target].kind = IF @ = "legacy" THEN "native" ELSE @]
                  ELSE files
  BY DEF Close
<1>2. lockFile' = lockFile /\ conn' = [conn EXCEPT ![p] = Down]
  BY <1>1, LeaveEnds
<1>3. /\ path' \in Places /\ used' \in UsedRow /\ used'.deleted = used.deleted
      /\ used'.overlap = used.overlap
  BY <1>1 DEF StoreInv, StoreRecords, StoreTables
<1>4. CASE conn[p].pc = "native"
  <2>1. PICK w \in Places : w = conn[p].target
    BY ConnFacts
  <2>2. PICK kind \in Kinds : kind = IF files[w].kind = "legacy" THEN "native" ELSE files[w].kind
    BY FileFacts DEF Kinds
  <2>3. files' = [files EXCEPT ![w] = [kind |-> kind, rows |-> files[w].rows, twin |-> files[w].twin]]
    <3>1. files' = [files EXCEPT ![w] = [@ EXCEPT !.kind = kind]]
      BY <1>1, <1>4, <2>1, <2>2
    <3>2. [files[w] EXCEPT !.kind = kind] = [kind |-> kind, rows |-> files[w].rows, twin |-> files[w].twin]
      BY FileRow, FileFacts, NewFields
    <3> QED BY <3>1, <3>2
  <2>4. \/ kind = files[w].kind /\ files[w].rows \subseteq files[w].rows
        \/ /\ files[w].kind # "wasm" /\ kind # "absent"
           /\ files[w].kind # "absent" => kind # "wasm"
    BY <2>2
  <2>5. files[w].rows \in SUBSET (1 .. MaxWrites) /\ files[w].twin \in BOOLEAN
    BY FileFacts
  <2>6. /\ StoreTables' /\ AckedKept' /\ \A x \in Places : Mild(files[x].kind, files'[x].kind)
        /\ \A x \in Places : lockFile[x] => lockFile'[x]
    <3>1. UNCHANGED <<declared, env, path, lockFile, acked>>
      BY <1>1, <1>2
    <3> QED BY <1>3, <2>3, <2>4, <2>5, <3>1, FileChanges
  <2> QED BY <1>1, <1>2, <1>3, <2>6, Ends
<1>5. CASE conn[p].pc # "native"
  <2>1. files' = files
    BY <1>1, <1>5
  <2> QED BY <1>1, <1>2, <1>3, <2>1, Quiet, Ends
<1> QED BY <1>4, <1>5

\* A step that changes no connection, or only the image of one without a file of its own.
LEMMA NoOwn ==
  ASSUME StoreInv, NEW p \in Procs, NEW c \in ConnRow, Shaped(c), conn' = [conn EXCEPT ![p] = c],
         c.role = conn[p].role, c.at = conn[p].at, c.fd = conn[p].fd, c.held = conn[p].held,
         c.target = conn[p].target, StoreTables', AckedKept', acked' = acked, lockFile' = lockFile,
         \A w \in Places : Mild(files[w].kind, files'[w].kind),
         used'.deleted = used.deleted, used'.overlap = used.overlap,
         Knows(c, acked[c.target]), ~ used.overlap => Fits(c, files[c.target].kind)
  PROVE  StoreInv'
<1>1. Named(c) => Named(conn[p]) /\ c.at = conn[p].at
  BY DEF Named
<1>2. (c.fd = "named" => lockFile'[c.at]) /\ (~ used.deleted => c.fd # "orphan")
  BY ConnFacts
<1>3. ~ used'.overlap => Fits(c, files'[c.target].kind)
  BY ConnFacts, MildFits
<1> QED BY <1>1, <1>2, <1>3, OneStep

LEMMA NobodyMoves ==
  ASSUME StoreInv, UNCHANGED <<conn, acked, lockFile>>, StoreTables', AckedKept',
         \A w \in Places : Mild(files[w].kind, files'[w].kind),
         used'.deleted = used.deleted, used'.overlap = used.overlap
  PROVE  StoreInv'
<1>1. CASE Procs = {}
  BY <1>1 DEF StoreInv, StoreRecords, Descriptors, NamedAlone, KnownByHolder, Apart, OneRestore
<1>2. CASE Procs # {}
  <2>1. PICK p \in Procs : TRUE
    BY <1>2
  <2>2. PICK c : c = conn[p]
    OBVIOUS
  <2>3. conn' = [conn EXCEPT ![p] = c]
    BY <2>2 DEF StoreInv, StoreRecords
  <2>4. /\ c \in ConnRow /\ Shaped(c) /\ Knows(c, acked[c.target])
        /\ ~ used.overlap => Fits(c, files[c.target].kind)
    BY <2>2, ConnFacts
  <2> QED BY <2>2, <2>3, <2>4, NoOwn
<1> QED BY <1>1, <1>2

\* A legacy write-back.
LEMMA LegacyWriteStep ==
  ASSUME StoreInv, NEW p \in Procs, LegacyWrite(p)
  PROVE  StoreInv'
<1>1. /\ UNCHANGED <<declared, env, path, lockFile, acked>> /\ conn[p].pc = "legacy"
      /\ used.writes < MaxWrites /\ used' = [used EXCEPT !.writes = @ + 1]
  BY DEF LegacyWrite
<1>2. /\ used' \in UsedRow /\ used'.deleted = used.deleted /\ used'.overlap = used.overlap
      /\ used.writes + 1 \in 1 .. MaxWrites
  BY <1>1, Spent
<1>3. PICK d : d = conn[p]
  OBVIOUS
<1>4. d \in ConnRow /\ Shaped(d) /\ d.target \in Places /\ d.image \in SUBSET (1 .. MaxWrites)
  BY <1>3, ConnFacts DEF ConnRow
<1>5. PICK image \in SUBSET (1 .. MaxWrites) : image = d.image \union {used.writes + 1}
  BY <1>2, <1>4
<1>6. PICK c : c = [d EXCEPT !.image = image]
  OBVIOUS
<1>7. conn' = [conn EXCEPT ![p] = c]
  BY <1>3, <1>5, <1>6 DEF LegacyWrite
<1>8. /\ c \in ConnRow /\ c.pc = "legacy" /\ c.role = d.role /\ c.at = d.at /\ c.fd = d.fd
      /\ c.held = d.held /\ c.refs = d.refs /\ c.target = d.target
  BY <1>1, <1>3, <1>4, <1>6 DEF ConnRow
<1>9. Shaped(c) /\ c.pc \notin Owning \cup Restoring \cup {"native"}
  BY <1>1, <1>3, <1>4, <1>8 DEF Shaped, Opening, Restoring, Owning
<1>10. StoreTables' /\ AckedKept' /\ \A w \in Places : Mild(files[w].kind, files'[w].kind)
  <2>1. CASE files[d.target].kind = "wasm"
    <3>1. files' = files /\ path' \in Places
      BY <1>1, <1>3, <2>1 DEF LegacyWrite, StoreInv, StoreRecords, StoreTables
    <3> QED BY <1>1, <1>2, <3>1, Quiet
  <2>2. CASE files[d.target].kind # "wasm"
    <3>1. files' = [files EXCEPT ![d.target] = [kind |-> "legacy", rows |-> image, twin |-> FALSE]]
      BY <1>3, <1>5, <2>2 DEF LegacyWrite
    <3>2. "legacy" \in Kinds /\ FALSE \in BOOLEAN
      BY DEF Kinds
    <3> QED BY <1>1, <1>2, <1>4, <2>2, <3>1, <3>2, FileChanges
  <2> QED BY <2>1, <2>2
<1> QED BY <1>1, <1>2, <1>3, <1>7, <1>8, <1>9, <1>10, Idle, NoOwn

\* A native write.
LEMMA NativeWriteStep ==
  ASSUME StoreInv, NEW p \in Procs, NativeWrite(p)
  PROVE  StoreInv'
<1>1. /\ UNCHANGED <<declared, env, path, lockFile, acked, conn>>
      /\ used.writes < MaxWrites /\ used' = [used EXCEPT !.writes = @ + 1]
  BY DEF NativeWrite
<1>2. /\ used' \in UsedRow /\ used'.deleted = used.deleted /\ used'.overlap = used.overlap
      /\ used.writes + 1 \in 1 .. MaxWrites
  BY <1>1, Spent
<1>3. PICK w \in Places : w = conn[p].target
  BY ConnFacts
<1>4. PICK content \in SUBSET (1 .. MaxWrites) : content = files[w].rows \union {used.writes + 1}
  BY <1>2, FileFacts
<1>5. files' = [files EXCEPT ![w] = [kind |-> files[w].kind, rows |-> content, twin |-> files[w].twin]]
  <2>1. files' = [files EXCEPT ![w] = [@ EXCEPT !.rows = content]]
    BY <1>3, <1>4 DEF NativeWrite
  <2>2. [files[w] EXCEPT !.rows = content] = [kind |-> files[w].kind, rows |-> content, twin |-> files[w].twin]
    BY FileRow, FileFacts, NewFields
  <2> QED BY <2>1, <2>2
<1>6. files[w].kind \in Kinds /\ files[w].twin \in BOOLEAN /\ files[w].rows \subseteq content
  BY <1>4, FileFacts
<1>7. StoreTables' /\ AckedKept' /\ \A x \in Places : Mild(files[x].kind, files'[x].kind)
  BY <1>1, <1>2, <1>5, <1>6, FileChanges
<1> QED BY <1>1, <1>2, <1>7, NobodyMoves

\* Killed while a new database had two names.
LEMMA CrashMaterializingStep ==
  ASSUME StoreInv, NEW p \in Procs, CrashMaterializing(p)
  PROVE  StoreInv'
<1>1. /\ UNCHANGED <<declared, env, path, lockFile, acked>> /\ conn' = [conn EXCEPT ![p] = Down]
      /\ files[path].kind = "absent" /\ used' = [used EXCEPT !.faults = @ + 1]
      /\ files' = [files EXCEPT ![path] = [kind |-> "wasm", rows |-> {}, twin |-> TRUE]]
  BY DEF CrashMaterializing
<1>2. /\ used' \in UsedRow /\ used'.deleted = used.deleted /\ used'.overlap = used.overlap
      /\ path \in Places /\ "wasm" \in Kinds /\ {} \in SUBSET (1 .. MaxWrites) /\ TRUE \in BOOLEAN
  BY <1>1, Spent DEF StoreInv, StoreRecords, StoreTables, Kinds
<1>3. StoreTables' /\ AckedKept' /\ \A x \in Places : Mild(files[x].kind, files'[x].kind)
  BY <1>1, <1>2, FileChanges
<1> QED BY <1>1, <1>2, <1>3, Ends

\* A restore where there was no database.
LEMMA RestoreFreshStep ==
  ASSUME StoreInv, NEW p \in Procs, RestoreFresh(p)
  PROVE  StoreInv'
<1>1. /\ UNCHANGED <<declared, env, path, lockFile, acked, conn>>
      /\ files[path].kind = "absent" /\ used' = [used EXCEPT !.restores = @ + 1]
  BY DEF RestoreFresh
<1>2. PICK kind \in Kinds \ {"absent"} : files' = [files EXCEPT ![path] = [Absent EXCEPT !.kind = kind]]
  BY DEF RestoreFresh
<1>3. /\ used' \in UsedRow /\ used'.deleted = used.deleted /\ used'.overlap = used.overlap
      /\ path \in Places /\ {} \in SUBSET (1 .. MaxWrites) /\ FALSE \in BOOLEAN
  BY <1>1, Spent DEF StoreInv, StoreRecords, StoreTables
<1>4. [Absent EXCEPT !.kind = kind] = [kind |-> kind, rows |-> {}, twin |-> FALSE]
  <2>1. /\ Absent \in [kind : Kinds, rows : SUBSET (1 .. MaxWrites), twin : BOOLEAN]
        /\ Absent.rows = {} /\ Absent.twin = FALSE
    BY DEF Absent, Kinds
  <2> QED BY <1>3, <2>1, NewFields
<1>5. StoreTables' /\ AckedKept' /\ \A x \in Places : Mild(files[x].kind, files'[x].kind)
  BY <1>1, <1>2, <1>3, <1>4, FileChanges
<1> QED BY <1>1, <1>3, <1>5, NobodyMoves

\* The configured path moves.
LEMMA PathMovesStep ==
  ASSUME StoreInv, PathMoves
  PROVE  StoreInv'
<1>1. /\ UNCHANGED <<declared, env, files, lockFile, acked, conn>> /\ path' \in Places
      /\ used' = [used EXCEPT !.faults = @ + 1]
  BY DEF PathMoves
<1>2. used' \in UsedRow /\ used'.deleted = used.deleted /\ used'.overlap = used.overlap
  BY <1>1, Spent
<1> QED BY <1>1, <1>2, Quiet, NobodyMoves

\* The driver decides how a file is opened.
LEMMA OpenModes ==
  ASSUME StoreInv, NEW p \in Procs, NEW kind \in Kinds
  PROVE  /\ OpenMode(p, kind) \in {"owner", "native", "legacy", "refused"}
         /\ OpenMode(p, kind) = "native" => kind # "wasm"
<1>1. DriverOf(p) \in {"native", "wasm"}
  BY DEF DriverOf, StoreInv, StoreRecords, StoreTables
<1>2. CASE kind = "wasm"
  <2>1. OpenMode(p, kind) = "owner"
    BY <1>2 DEF OpenMode
  <2> QED BY <2>1
<1>3. CASE kind # "wasm" /\ Refuses(kind, DriverOf(p))
  <2>1. DriverOf(p) = "wasm" /\ kind = "native"
    BY <1>3 DEF Refuses
  <2>2. OpenMode(p, kind) = "refused"
    BY <1>3, <2>1 DEF OpenMode
  <2> QED BY <2>2
<1>4. CASE kind # "wasm" /\ ~ Refuses(kind, DriverOf(p))
  <2>1. CASE DriverOf(p) = "native"
    <3>1. OpenMode(p, kind) = "native"
      BY <1>4, <2>1 DEF OpenMode
    <3> QED BY <1>4, <3>1
  <2>2. CASE DriverOf(p) = "wasm" /\ kind = "legacy"
    <3>1. OpenMode(p, kind) = "legacy"
      BY <1>4, <2>2 DEF OpenMode
    <3> QED BY <3>1
  <2>3. CASE DriverOf(p) = "wasm" /\ kind = "absent"
    <3>1. OpenMode(p, kind) = IF declared = "wasm" THEN "owner" ELSE "legacy"
      BY <1>4, <2>3 DEF OpenMode
    <3> QED BY <3>1
  <2>4. kind \in {"legacy", "absent"} \/ DriverOf(p) = "native"
    BY <1>1, <1>4 DEF Refuses, Kinds
  <2> QED BY <1>1, <2>1, <2>2, <2>3, <2>4
<1> QED BY <1>2, <1>3, <1>4

\* An open, up to its first await.
LEMMA BeginStep ==
  ASSUME StoreInv, NEW p \in Procs, Begin(p)
  PROVE  StoreInv'
<1>1. PICK mode : mode = OpenMode(p, files[path].kind)
  OBVIOUS
<1>2. UNCHANGED <<declared, env, path, lockFile, acked, used>> /\ mode # "refused" /\ conn[p].pc = "down"
  BY <1>1 DEF Begin
<1>3. /\ path \in Places /\ path' \in Places /\ used' \in UsedRow /\ used'.deleted = used.deleted
      /\ used'.overlap = used.overlap
  BY <1>2 DEF StoreInv, StoreRecords, StoreTables
<1>4. mode \in {"owner", "native", "legacy"} /\ (mode = "native" => files[path].kind # "wasm")
  BY <1>1, <1>2, <1>3, FileFacts, OpenModes
<1>5. PICK pc : pc = CASE mode = "native" -> "native"
                       [] mode = "legacy" -> "loading_legacy"
                       [] mode = "owner" -> "loading"
  OBVIOUS
<1>6. \/ mode = "native" /\ pc = "native"
      \/ mode # "native" /\ pc \in {"loading_legacy", "loading"}
  <2>1. CASE mode = "native"
    BY <1>5, <2>1
  <2>2. CASE mode = "legacy"
    BY <1>5, <2>2
  <2>3. CASE mode = "owner"
    BY <1>5, <2>3
  <2> QED BY <1>4, <2>1, <2>2, <2>3
<1>7. PICK first \in BOOLEAN : first = (mode = "owner" /\ files[path].kind = "absent")
  OBVIOUS
<1>8. PICK c : c = [Down EXCEPT !.pc = pc, !.target = path, !.first = first]
  OBVIOUS
<1>9. conn' = [conn EXCEPT ![p] = c]
  BY <1>1, <1>5, <1>7, <1>8 DEF Begin
<1>10. /\ c \in ConnRow /\ c.pc = pc /\ c.role = "server" /\ c.fd = "none" /\ ~ c.held
       /\ c.refs = 0 /\ c.target = path
  <2>1. pc \in StorePcs
    BY <1>6 DEF StorePcs, Opening
  <2>2. Down \in ConnRow /\ Down.fd = "none" /\ ~ Down.held /\ Down.refs = 0 /\ Down.role = "server"
    BY DownIsWell DEF Down
  <2>3. c \in ConnRow
    BY <1>3, <1>8, <2>1, <2>2 DEF ConnRow
  <2> QED BY <1>8, <2>2, <2>3 DEF ConnRow
<1>11. Shaped(c) /\ ~ Named(c)
  BY <1>6, <1>10 DEF Shaped, Opening, Restoring, Named
<1>12. Knows(c, acked[c.target])
  BY <1>10 DEF Knows, Holds, Intact
<1>13. CASE mode = "native"
  <2>1. PICK kind \in {"native", files[path].kind} \ {"absent"} : files' = [files EXCEPT ![path].kind = kind]
    BY <1>1, <1>13 DEF Begin
  <2>2. kind \in Kinds /\ kind # "absent" /\ kind # "wasm"
    BY <1>3, <1>4, <1>13, <2>1, FileFacts DEF Kinds
  <2>3. files' = [files EXCEPT ![path] = [kind |-> kind, rows |-> files[path].rows, twin |-> files[path].twin]]
    <3>1. files' = [files EXCEPT ![path] = [@ EXCEPT !.kind = kind]]
      BY <2>1
    <3>2. [files[path] EXCEPT !.kind = kind] = [kind |-> kind, rows |-> files[path].rows, twin |-> files[path].twin]
      BY <1>3, <2>2, FileRow, FileFacts, NewFields
    <3> QED BY <3>1, <3>2
  <2>4. files[path].rows \in SUBSET (1 .. MaxWrites) /\ files[path].twin \in BOOLEAN
    BY <1>3, FileFacts
  <2>5. StoreTables' /\ AckedKept' /\ \A x \in Places : Mild(files[x].kind, files'[x].kind)
    <3>1. UNCHANGED <<declared, env, path, lockFile, acked>>
      BY <1>2
    <3> QED BY <1>3, <1>4, <1>13, <2>2, <2>3, <2>4, <3>1, FileChanges
  <2>6. Fits(c, files'[c.target].kind)
    <3>1. files'[path].kind = kind
      BY <1>3, <2>3 DEF StoreInv, StoreRecords, StoreTables
    <3> QED BY <1>6, <1>10, <1>13, <2>2, <3>1 DEF Fits, Owning, Restoring
  <2> QED BY <1>2, <1>3, <1>9, <1>10, <1>11, <1>12, <2>5, <2>6, OneStep
<1>14. CASE mode # "native"
  <2>1. files' = files
    BY <1>1, <1>14 DEF Begin
  <2>2. c.pc \notin Owning \cup Restoring \cup {"native"}
    BY <1>6, <1>10, <1>14 DEF Owning, Restoring
  <2> QED BY <1>2, <1>3, <1>9, <1>10, <1>11, <2>1, <2>2, Idle, Quiet, OneStep
<1> QED BY <1>13, <1>14

\* Who read a file that was replaced no longer knows it, and keeps everything else.
LEMMA Forgets ==
  ASSUME NEW c \in ConnRow, Shaped(c)
  PROVE  Alike([c EXCEPT !.seen = FALSE], c)
<1>1. PICK d : d = [c EXCEPT !.seen = FALSE]
  OBVIOUS
<1>2. /\ d \in ConnRow /\ d.pc = c.pc /\ d.role = c.role /\ d.at = c.at /\ d.fd = c.fd
      /\ d.held = c.held /\ d.refs = c.refs /\ d.target = c.target /\ d.image = c.image
      /\ d.saved = c.saved /\ d.astray = c.astray
  <2>1. d \in ConnRow
    BY <1>1 DEF ConnRow
  <2> QED BY <1>1, <2>1 DEF ConnRow
<1>3. c.pc = "down" => d = Down
  <2> SUFFICES ASSUME c = Down PROVE d = c
    BY DEF Shaped
  <2>1. c.seen = FALSE
    BY DEF Down
  <2> QED BY <1>1, <2>1 DEF ConnRow
<1>4. Shaped(d)
  BY <1>2, <1>3 DEF Shaped
<1> QED BY <1>1, <1>2, <1>4 DEF Alike

LEMMA SameAlike ==
  ASSUME StoreInv, NEW q \in Procs
  PROVE  Alike(conn[q], conn[q])
BY ConnFacts DEF Alike

\* The connections after a file was replaced.
LEMMA UnknownAlike ==
  ASSUME StoreInv, NEW p \in Procs, NEW c \in ConnRow, NEW w
  PROVE  LET u == Unknown([conn EXCEPT ![p] = c], w, p)
         IN u \in [Procs -> ConnRow] /\ u[p] = c /\ \A q \in Procs \ {p} : Alike(u[q], conn[q])
<1>1. PICK f : f = [conn EXCEPT ![p] = c]
  OBVIOUS
<1>2. f[p] = c /\ \A q \in Procs \ {p} : f[q] = conn[q]
  BY <1>1 DEF StoreInv, StoreRecords
<1>3. PICK u : u = Unknown(f, w, p)
  OBVIOUS
<1>4. u = [q \in Procs |-> IF q # p /\ f[q].target = w THEN [f[q] EXCEPT !.seen = FALSE] ELSE f[q]]
  BY <1>3 DEF Unknown
<1>5. ASSUME NEW q \in Procs \ {p} PROVE Alike(u[q], conn[q])
  <2>1. Alike([conn[q] EXCEPT !.seen = FALSE], conn[q]) /\ Alike(conn[q], conn[q])
    BY ConnFacts, Forgets, SameAlike
  <2>2. u[q] = conn[q] \/ u[q] = [conn[q] EXCEPT !.seen = FALSE]
    BY <1>2, <1>4
  <2> QED BY <2>1, <2>2
<1>6. u[p] = c
  BY <1>2, <1>4
<1>7. u \in [Procs -> ConnRow]
  <2>1. \A q \in Procs : u[q] \in ConnRow
    BY <1>5, <1>6 DEF Alike
  <2> QED BY <1>4, <2>1
<1> QED BY <1>1, <1>3, <1>5, <1>6, <1>7

\* Who holds the lock by its name keeps every other process out of the place.
LEMMA HolderAlone ==
  ASSUME StoreInv, NEW p \in Procs, Holds(conn[p])
  PROVE  \A q \in Procs \ {p} : conn[q].target = conn[p].target => ~ Holds(conn[q])
<1>1. \A q \in Procs : Holds(conn[q]) => Named(conn[q]) /\ conn[q].at = conn[q].target
  <2> SUFFICES ASSUME NEW q \in Procs, Holds(conn[q])
               PROVE  Named(conn[q]) /\ conn[q].at = conn[q].target
    OBVIOUS
  <2>1. conn[q].refs \in 0 .. 1 /\ Shaped(conn[q])
    BY ConnFacts DEF ConnRow
  <2> QED BY <2>1 DEF Holds, Intact, Named, Shaped
<1> QED BY <1>1 DEF StoreInv, NamedAlone

\* The last check of the lock and the rename.
LEMMA RenameStep ==
  ASSUME StoreInv, NEW p \in Procs, Rename(p)
  PROVE  StoreInv'
<1>1. UNCHANGED <<declared, env, path, lockFile, used>> /\ conn[p].pc = "persisting"
  BY DEF Rename
<1>2. /\ path' \in Places /\ used' \in UsedRow /\ used'.deleted = used.deleted
      /\ used'.overlap = used.overlap /\ StoreTables /\ AckedKept
  BY <1>1 DEF StoreInv, StoreRecords, StoreTables
<1>3. PICK d : d = conn[p]
  OBVIOUS
<1>4. /\ d \in ConnRow /\ Shaped(d) /\ d.refs \in 0 .. 1 /\ Knows(d, acked[d.target])
      /\ d.target \in Places /\ d.image \in SUBSET (1 .. MaxWrites)
      /\ ~ used.overlap => Fits(d, files[d.target].kind)
  BY <1>3, ConnFacts DEF ConnRow
<1>5. d.refs = 1 /\ d.at = d.target /\ d.held
  BY <1>1, <1>3, <1>4 DEF Shaped
<1>6. CASE Intact(d)
  <2>1. Holds(d)
    BY <1>5, <1>6 DEF Holds
  <2>2. PICK c : c = [d EXCEPT !.pc = "owner", !.seen = TRUE]
    OBVIOUS
  <2>3. /\ files' = [files EXCEPT ![d.target] = [kind |-> "wasm", rows |-> d.image, twin |-> FALSE]]
        /\ acked' = [acked EXCEPT ![d.target] = @ \union d.image]
        /\ conn' = Unknown([conn EXCEPT ![p] = c], d.target, p)
    <3>1. [conn EXCEPT ![p].pc = "owner", ![p].seen = TRUE] = [conn EXCEPT ![p] = c]
      BY <1>3, <2>2 DEF StoreInv, StoreRecords
    <3> QED BY <1>3, <1>6, <3>1 DEF Rename
  <2>4. /\ c \in ConnRow /\ c.pc = "owner" /\ c.role = d.role /\ c.at = d.at /\ c.fd = d.fd
        /\ c.held = d.held /\ c.refs = d.refs /\ c.target = d.target /\ c.image = d.image
    <3>1. "owner" \in StorePcs
      BY DEF StorePcs
    <3>2. c \in ConnRow
      BY <1>4, <2>2, <3>1 DEF ConnRow
    <3> QED BY <1>4, <2>2, <3>2 DEF ConnRow
  <2>5. Shaped(c)
    BY <1>1, <1>3, <1>4, <2>4 DEF Shaped, Opening, Restoring
  <2>6. conn' \in [Procs -> ConnRow] /\ conn'[p] = c /\ \A q \in Procs \ {p} : Alike(conn'[q], conn[q])
    BY <2>3, <2>4, UnknownAlike
  <2>7. acked[d.target] \subseteq d.image
    BY <1>1, <1>3, <1>4, <2>1 DEF Knows, Owning
  <2>8. /\ acked'[d.target] = d.image
        /\ \A w \in Places : w # d.target => acked'[w] = acked[w] /\ files'[w] = files[w]
        /\ files'[d.target].kind = "wasm" /\ files'[d.target].rows = d.image
    BY <1>2, <1>4, <2>3, <2>7 DEF StoreTables
  <2>9. StoreTables'
    <3>1. "wasm" \in Kinds
      BY DEF Kinds
    <3>2. acked' \in [Places -> SUBSET (1 .. MaxWrites)]
      BY <1>2, <1>4, <2>3, <2>8 DEF StoreTables
    <3>3. files' \in [Places -> [kind : Kinds, rows : SUBSET (1 .. MaxWrites), twin : BOOLEAN]]
      BY <1>2, <1>4, <2>3, <3>1 DEF StoreTables
    <3> QED BY <1>1, <1>2, <3>2, <3>3 DEF StoreTables
  <2>10. AckedKept'
    BY <1>2, <2>8 DEF AckedKept
  <2>11. \A q \in Procs \ {p} : Knows(conn[q], acked'[conn[q].target])
    <3> SUFFICES ASSUME NEW q \in Procs \ {p} PROVE Knows(conn[q], acked'[conn[q].target])
      OBVIOUS
    <3>1. CASE conn[q].target = d.target
      <4>1. ~ Holds(conn[q])
        BY <1>3, <2>1, <3>1, HolderAlone
      <4> QED BY <4>1 DEF Knows
    <3>2. CASE conn[q].target # d.target
      BY <2>8, <3>2, ConnFacts
    <3> QED BY <3>1, <3>2
  <2>12. Knows(c, acked'[c.target])
    BY <2>4, <2>8 DEF Knows
  <2>13. ~ used'.overlap => \A w \in Places : files'[w].kind = files[w].kind
    <3>1. ~ used.overlap => files[d.target].kind = "wasm"
      BY <1>1, <1>3, <1>4, <2>1 DEF Fits, Owning
    <3> QED BY <1>2, <2>8, <3>1
  <2>14. ~ used'.overlap => Fits(c, files'[c.target].kind)
    BY <2>4, <2>8 DEF Fits, Restoring
  <2>15. ~ used'.overlap => \A q \in Procs \ {p} : Fits(conn[q], files'[conn[q].target].kind)
    BY <1>2, <2>13, ConnFacts
  <2>16. (c.fd = "named" => lockFile'[c.at]) /\ (~ used.deleted => c.fd # "orphan")
    BY <1>1, <1>3, <2>4, ConnFacts
  <2>17. Named(c) => Named(conn[p]) /\ c.at = conn[p].at
    BY <1>3, <2>4 DEF Named
  <2>18. c.role = conn[p].role /\ \A w \in Places : lockFile[w] => lockFile'[w]
    BY <1>1, <1>3, <2>4
  <2> QED BY <1>2, <2>4, <2>5, <2>6, <2>9, <2>10, <2>11, <2>12, <2>14, <2>15, <2>16, <2>17, <2>18, Stepped
<1>7. CASE ~ Intact(d)
  <2>1. PICK e : e = [d EXCEPT !.fd = "none", !.held = FALSE, !.refs = 0]
    OBVIOUS
  <2>2. e \in ConnRow /\ e.role = d.role /\ e.fd = "none" /\ ~ e.held /\ e.refs = 0
    <3>1. 0 \in 0 .. 1 /\ "none" \in {"none", "named", "orphan"} /\ FALSE \in BOOLEAN
      OBVIOUS
    <3>2. e \in ConnRow
      BY <1>4, <2>1, <3>1 DEF ConnRow
    <3> QED BY <1>4, <2>1, <3>2 DEF ConnRow
  <2>3. PICK c : c = [e EXCEPT !.pc = "owner", !.lost = TRUE]
    OBVIOUS
  <2>4. c \in ConnRow /\ c.role = d.role /\ c.fd = "none" /\ ~ c.held /\ c.refs = 0 /\ c.pc = "owner"
    <3>1. "owner" \in StorePcs /\ TRUE \in BOOLEAN
      BY DEF StorePcs
    <3>2. c \in ConnRow
      BY <2>2, <2>3, <3>1 DEF ConnRow
    <3> QED BY <2>2, <2>3, <3>2 DEF ConnRow
  <2>5. conn' = [conn EXCEPT ![p] = c] /\ UNCHANGED <<files, acked>>
    BY <1>3, <1>7, <2>1, <2>3 DEF Rename, Dropped
  <2>6. Shaped(c) /\ ~ Named(c)
    BY <2>4 DEF Shaped, Opening, Restoring, Named
  <2>7. \A x : Knows(c, x) /\ Fits(c, x)
    BY <2>4 DEF Knows, Fits, Holds, Intact, Restoring
  <2> QED BY <1>1, <1>2, <1>3, <2>4, <2>5, <2>6, <2>7, Quiet, OneStep
<1> QED BY <1>6, <1>7

\* The swap: nobody else owns or natively opens what it replaces, unless restores overlap.
LEMMA RestoreSwapStep ==
  ASSUME StoreInv, NEW p \in Procs, RestoreSwap(p)
  PROVE  StoreInv'
<1>1. UNCHANGED <<declared, env, path, used>> /\ conn[p].pc = "r_swap" /\ lockFile' = lockFile
  BY DEF RestoreSwap, LeftBehind
<1>2. /\ path' \in Places /\ used' \in UsedRow /\ used'.deleted = used.deleted
      /\ used'.overlap = used.overlap /\ StoreTables /\ AckedKept
  BY <1>1 DEF StoreInv, StoreRecords, StoreTables
<1>3. PICK d : d = conn[p]
  OBVIOUS
<1>4. /\ d \in ConnRow /\ Shaped(d) /\ d.refs \in 0 .. 1 /\ d.target \in Places
      /\ ~ used.overlap => Fits(d, files[d.target].kind)
  BY <1>3, ConnFacts DEF ConnRow
<1>5. PICK w \in Places : w = d.target
  BY <1>4
<1>6. PICK kind \in Kinds \ {"absent"} :
        /\ files' = [files EXCEPT ![w] = [Absent EXCEPT !.kind = kind]]
        /\ acked' = [acked EXCEPT ![w] = {}]
        /\ conn' = Orphans(Unknown([conn EXCEPT ![p] = Down], w, p), lockFile)
  BY <1>1, <1>3, <1>5 DEF RestoreSwap, Closed
<1>7. PICK u : u = Unknown([conn EXCEPT ![p] = Down], w, p)
  OBVIOUS
<1>8. u \in [Procs -> ConnRow] /\ u[p] = Down /\ \A q \in Procs \ {p} : Alike(u[q], conn[q])
  BY <1>7, DownIsWell, UnknownAlike
<1>9. conn' = u
  <2>1. \A q \in Procs : u[q].fd = "named" => lockFile[u[q].at]
    <3>1. Down.fd = "none"
      BY DEF Down
    <3> QED BY <1>8, <3>1, ConnFacts DEF Alike
  <2> QED BY <1>6, <1>7, <1>8, <2>1, NoOrphans
<1>10. [Absent EXCEPT !.kind = kind] = [kind |-> kind, rows |-> {}, twin |-> FALSE]
  <2>1. /\ Absent \in [kind : Kinds, rows : SUBSET (1 .. MaxWrites), twin : BOOLEAN]
        /\ Absent.rows = {} /\ Absent.twin = FALSE /\ {} \in SUBSET (1 .. MaxWrites)
    BY DEF Absent, Kinds
  <2> QED BY <2>1, NewFields
<1>11. /\ \A x \in Places : x # w => files'[x] = files[x] /\ acked'[x] = acked[x]
       /\ acked'[w] = {} /\ files'[w].kind = kind /\ files'[w].rows = {}
  BY <1>2, <1>6, <1>10 DEF StoreTables
<1>12. StoreTables'
  <2>1. files' \in [Places -> [kind : Kinds, rows : SUBSET (1 .. MaxWrites), twin : BOOLEAN]]
    BY <1>2, <1>6, <1>10 DEF StoreTables
  <2>2. acked' \in [Places -> SUBSET (1 .. MaxWrites)]
    BY <1>2, <1>6 DEF StoreTables
  <2> QED BY <1>1, <1>2, <2>1, <2>2 DEF StoreTables
<1>13. AckedKept'
  BY <1>2, <1>11 DEF AckedKept
<1>14. /\ Down.fd = "none" /\ ~ Down.held /\ Down.pc = "down" /\ Down.role = "server" /\ Down.refs = 0
  BY DEF Down
<1>15. ~ Named(Down) /\ Knows(Down, acked'[Down.target]) /\ Fits(Down, files'[Down.target].kind)
  BY <1>14 DEF Named, Knows, Holds, Intact, Fits, Owning, Restoring
<1>16. \A q \in Procs \ {p} : Knows(conn[q], acked'[conn[q].target])
  <2> SUFFICES ASSUME NEW q \in Procs \ {p} PROVE Knows(conn[q], acked'[conn[q].target])
    OBVIOUS
  <2>1. acked'[conn[q].target] = {} \/ acked'[conn[q].target] = acked[conn[q].target]
    BY <1>11, ConnFacts
  <2>2. Knows(conn[q], acked[conn[q].target])
    BY ConnFacts
  <2> QED BY <2>1, <2>2 DEF Knows
<1>17. ~ used'.overlap => \A q \in Procs \ {p} : Fits(conn[q], files'[conn[q].target].kind)
  <2> SUFFICES ASSUME ~ used.overlap, NEW q \in Procs \ {p}
               PROVE  Fits(conn[q], files'[conn[q].target].kind)
    BY <1>2
  <2>1. Fits(conn[q], files[conn[q].target].kind) /\ conn[q].target \in Places
    BY ConnFacts
  <2>2. CASE conn[q].target # w
    BY <1>11, <2>1, <2>2
  <2>3. CASE conn[q].target = w
    <3>1. conn[q].pc \notin Restoring
      <4>1. d.role = "restore" /\ OneRestore
        BY <1>1, <1>3, <1>4 DEF Shaped, Restoring, StoreInv, Apart
      <4>2. conn[q].pc \in Restoring => conn[q].role = "restore"
        BY ConnFacts DEF Shaped
      <4> QED BY <1>3, <4>1, <4>2 DEF OneRestore
    <3>2. conn[q].pc # "native"
      BY <1>3, <1>5, <2>3 DEF RestoreSwap, SwapAllowed, SideFiles
    <3>3. ~ (conn[q].pc \in Owning /\ Holds(conn[q]))
      <4>1. CASE d.refs = 0
        <5>1. files[w].kind # "wasm"
          BY <1>1, <1>3, <1>4, <1>5, <4>1 DEF Fits, Restoring
        <5> QED BY <2>1, <2>3, <5>1 DEF Fits
      <4>2. CASE d.refs = 1
        <5>1. d.held
          BY <1>4, <4>2 DEF Shaped
        <5>2. Holds(d)
          BY <1>3, <5>1 DEF RestoreSwap, SwapAllowed, Holds
        <5> QED BY <1>3, <1>5, <2>3, <5>2, HolderAlone
      <4> QED BY <1>4, <4>1, <4>2
    <3> QED BY <3>1, <3>2, <3>3 DEF Fits
  <2> QED BY <2>2, <2>3
<1>18. \A x \in Places : lockFile[x] => lockFile'[x]
  BY <1>1
<1> QED BY <1>2, <1>8, <1>9, <1>12, <1>13, <1>14, <1>15, <1>16, <1>17, <1>18, DownIsWell, Stepped

\* The lock file removed by hand: whoever had it open holds a file without a name.
LEMMA LockRemovedStep ==
  ASSUME StoreInv, NEW w \in Places, LockRemoved(w)
  PROVE  StoreInv'
<1>1. /\ UNCHANGED <<declared, env, path, files, acked>> /\ lockFile' = [lockFile EXCEPT ![w] = FALSE]
      /\ conn' = Orphans(conn, lockFile')
      /\ used' = [used EXCEPT !.faults = @ + 1, !.deleted = TRUE]
  BY DEF LockRemoved
<1>2. StoreTables /\ AckedKept /\ NamedAlone /\ used \in UsedRow /\ lockFile \in [Places -> BOOLEAN]
  BY DEF StoreInv, StoreRecords, StoreTables
<1>3. used' \in UsedRow /\ used'.deleted /\ used'.overlap = used.overlap
  <2>1. used.faults + 1 \in Nat
    BY <1>2 DEF UsedRow
  <2> QED BY <1>1, <1>2, <2>1 DEF UsedRow
<1>4. StoreTables' /\ AckedKept'
  BY <1>1, <1>2, <1>3 DEF StoreTables, AckedKept
<1>5. \A q \in Procs : conn'[q] = IF conn[q].fd = "named" /\ ~ lockFile'[conn[q].at]
                                  THEN [conn[q] EXCEPT !.fd = "orphan"] ELSE conn[q]
  BY <1>1 DEF Orphans
<1>6. ASSUME NEW q \in Procs
      PROVE  /\ conn'[q] \in ConnRow /\ Shaped(conn'[q])
             /\ conn'[q].fd = "named" => lockFile'[conn'[q].at]
             /\ Named(conn'[q]) => Named(conn[q]) /\ conn'[q].at = conn[q].at
             /\ conn'[q].role = conn[q].role /\ conn'[q].target = conn[q].target
             /\ \A x : (Knows(conn[q], x) => Knows(conn'[q], x)) /\ (Fits(conn[q], x) => Fits(conn'[q], x))
  <2>1. PICK d : d = conn[q]
    OBVIOUS
  <2>2. d \in ConnRow /\ Shaped(d)
    BY <2>1, ConnFacts
  <2>3. CASE d.fd = "named" /\ ~ lockFile'[d.at]
    <3>1. PICK c : c = [d EXCEPT !.fd = "orphan"]
      OBVIOUS
    <3>2. /\ c \in ConnRow /\ c.pc = d.pc /\ c.role = d.role /\ c.at = d.at /\ c.fd = "orphan"
          /\ c.held = d.held /\ c.refs = d.refs /\ c.target = d.target
      <4>1. c \in ConnRow
        BY <2>2, <3>1 DEF ConnRow
      <4> QED BY <2>2, <3>1, <4>1 DEF ConnRow
    <3>3. d.pc # "down"
      BY <2>2, <2>3 DEF Shaped, Down
    <3>4. Shaped(c) /\ ~ Named(c)
      BY <2>2, <3>2, <3>3 DEF Shaped, Named
    <3>5. \A x : Knows(c, x) /\ (Fits(d, x) => Fits(c, x))
      BY <3>2 DEF Knows, Fits, Holds, Intact
    <3>6. conn'[q] = c
      BY <1>5, <2>1, <2>3, <3>1
    <3> QED BY <2>1, <3>2, <3>4, <3>5, <3>6
  <2>4. CASE ~ (d.fd = "named" /\ ~ lockFile'[d.at])
    <3>1. conn'[q] = d
      BY <1>5, <2>1, <2>4
    <3> QED BY <2>1, <2>2, <2>4, <3>1
  <2> QED BY <2>3, <2>4
<1>7. conn' \in [Procs -> ConnRow]
  <2>1. conn' = [q \in Procs |-> conn'[q]]
    BY <1>1 DEF Orphans
  <2> QED BY <1>6, <2>1
<1>8. StoreRecords' /\ Descriptors'
  BY <1>3, <1>4, <1>6, <1>7 DEF StoreRecords, Descriptors
<1>9. NamedAlone'
  BY <1>2, <1>6 DEF NamedAlone
<1>10. KnownByHolder'
  <2> SUFFICES ASSUME NEW q \in Procs PROVE Knows(conn'[q], acked'[conn'[q].target])
    BY DEF KnownByHolder
  <2>1. Knows(conn[q], acked[conn[q].target]) /\ acked' = acked /\ conn'[q].target = conn[q].target
    BY <1>1, <1>6, ConnFacts
  <2> QED BY <1>6, <2>1
<1>11. Apart'
  <2> SUFFICES ASSUME ~ used.overlap
               PROVE  OneRestore' /\ \A q \in Procs : Fits(conn'[q], files'[conn'[q].target].kind)
    BY <1>3 DEF Apart
  <2>1. OneRestore /\ \A q \in Procs : Fits(conn[q], files[conn[q].target].kind)
    BY DEF StoreInv, Apart
  <2>2. OneRestore'
    BY <1>6, <2>1 DEF OneRestore
  <2>3. ASSUME NEW q \in Procs PROVE Fits(conn'[q], files'[conn'[q].target].kind)
    <3>1. Fits(conn[q], files'[conn'[q].target].kind)
      BY <1>1, <1>6, <2>1
    <3> QED BY <1>6, <3>1
  <2> QED BY <2>2, <2>3
<1> QED BY <1>4, <1>8, <1>9, <1>10, <1>11 DEF StoreInv

LEMMA StoreInitInv == StoreInit => StoreInv
<1> SUFFICES ASSUME StoreInit PROVE StoreInv
  OBVIOUS
<1>1. /\ declared \in {"wasm", "native", "none"} /\ env \in [Procs -> {"native", "wasm"}]
      /\ path = Home /\ files \in [Places -> {[Absent EXCEPT !.kind = k] : k \in Kinds}]
      /\ lockFile = [w \in Places |-> FALSE] /\ conn = [p \in Procs |-> Down]
      /\ acked = [w \in Places |-> {}]
      /\ used = [writes |-> 0, faults |-> 0, restores |-> 0, deleted |-> FALSE, overlap |-> FALSE]
  BY DEF StoreInit
<1>2. Home \in Places /\ 0 \in 0 .. MaxWrites /\ {} \in SUBSET (1 .. MaxWrites)
  BY StoreBounds DEF Home
<1>3. \A k \in Kinds : [Absent EXCEPT !.kind = k] \in [kind : Kinds, rows : SUBSET (1 .. MaxWrites), twin : BOOLEAN]
  BY DEF Absent, Kinds
<1>4. files \in [Places -> [kind : Kinds, rows : SUBSET (1 .. MaxWrites), twin : BOOLEAN]]
  BY <1>1, <1>3
<1>5. used \in UsedRow
  BY <1>1, <1>2 DEF UsedRow
<1>6. StoreTables
  BY <1>1, <1>2, <1>4, <1>5 DEF StoreTables
<1>7. /\ Down.fd = "none" /\ ~ Down.held /\ Down.pc = "down" /\ Down.role = "server" /\ Down.refs = 0
  BY DEF Down
<1>8. StoreRecords
  BY <1>1, <1>6, DownIsWell DEF StoreRecords
<1>9. Descriptors /\ NamedAlone /\ OneRestore
  BY <1>1, <1>7 DEF Descriptors, NamedAlone, Named, OneRestore
<1>10. AckedKept
  BY <1>1 DEF AckedKept
<1>11. \A x : Knows(Down, x) /\ Fits(Down, x)
  BY <1>7 DEF Knows, Fits, Holds, Intact, Owning, Restoring
<1>12. KnownByHolder /\ Apart
  BY <1>1, <1>9, <1>11 DEF KnownByHolder, Apart
<1> QED BY <1>8, <1>9, <1>10, <1>12 DEF StoreInv

LEMMA StoreInvStep == StoreInv /\ [StoreNext]_storeVars => StoreInv'
<1> SUFFICES ASSUME StoreInv, [StoreNext]_storeVars PROVE StoreInv'
  OBVIOUS
<1>1. CASE UNCHANGED storeVars
  BY <1>1 DEF storeVars, StoreInv, StoreRecords, StoreTables, Descriptors, NamedAlone, AckedKept,
     KnownByHolder, Apart, OneRestore
<1>2. ASSUME NEW p \in Procs, OpenStep(p) PROVE StoreInv'
  BY <1>2, LoadLegacyStep, OpenLockStep, FlockStep, RederiveStep, OpenOwnedStep DEF OpenStep
<1>3. ASSUME NEW p \in Procs, Begin(p) \/ OwnerWrite(p) \/ Rename(p) \/ RenameFails(p) PROVE StoreInv'
  BY <1>3, BeginStep, OwnerWriteStep, RenameStep, RenameFailsStep
<1>4. ASSUME NEW p \in Procs, LegacyWrite(p) \/ NativeWrite(p) \/ Close(p) PROVE StoreInv'
  BY <1>4, LegacyWriteStep, NativeWriteStep, CloseStep
<1>5. ASSUME NEW p \in Procs, \/ RestorePlan(p) \/ SafetyBackup(p) \/ RestoreStage(p)
                              \/ RestoreSwap(p) \/ RestoreFresh(p) \/ RestoreAborts(p)
      PROVE  StoreInv'
  BY <1>5, RestorePlanStep, SafetyBackupStep, RestoreStageStep, RestoreSwapStep, RestoreFreshStep,
     RestoreAbortsStep
<1>6. ASSUME NEW p \in Procs, Crash(p) \/ CrashMaterializing(p) PROVE StoreInv'
  BY <1>6, CrashStep, CrashMaterializingStep
<1>7. ASSUME NEW w \in Places, LockRemoved(w) PROVE StoreInv'
  BY <1>7, LockRemovedStep
<1>8. CASE PathMoves
  BY <1>8, PathMovesStep
<1> QED BY <1>1, <1>2, <1>3, <1>4, <1>5, <1>6, <1>7, <1>8 DEF StoreNext

\* Two owners of a place would both hold the lock of the file at its name.
LEMMA StoreInvOneOwner == StoreInv => OneOwner
<1> SUFFICES ASSUME StoreInv, ~ used.deleted, NEW w \in Places PROVE Cardinality(Owners(w)) <= 1
  BY DEF OneOwner
<1>1. \A p \in Owners(w) : p \in Procs /\ Named(conn[p]) /\ conn[p].at = w
  <2> SUFFICES ASSUME NEW p \in Owners(w) PROVE p \in Procs /\ Named(conn[p]) /\ conn[p].at = w
    OBVIOUS
  <2>1. p \in Procs /\ conn[p].refs > 0 /\ conn[p].at = w
    BY DEF Owners
  <2>2. conn[p] \in ConnRow /\ Shaped(conn[p]) /\ conn[p].fd # "orphan" /\ conn[p].refs \in 0 .. 1
        /\ conn[p].fd \in {"none", "named", "orphan"}
    BY <2>1, ConnFacts DEF ConnRow
  <2> QED BY <2>1, <2>2 DEF Named, Shaped
<1>2. \A p, q \in Owners(w) : p = q
  BY <1>1 DEF StoreInv, NamedAlone
<1>3. CASE Owners(w) = {}
  BY <1>3, FS_EmptySet
<1>4. CASE Owners(w) # {}
  <2>1. PICK p \in Owners(w) : TRUE
    BY <1>4
  <2>2. Owners(w) = {p}
    BY <1>2, <2>1
  <2> QED BY <2>2, FS_Singleton
<1> QED BY <1>3, <1>4

LEMMA StoreInvSafe == StoreInv => StoreTypeOK /\ NoCommitLost /\ OwnedHasNoNative
<1> SUFFICES ASSUME StoreInv PROVE StoreTypeOK /\ NoCommitLost /\ OwnedHasNoNative
  OBVIOUS
<1>1. StoreTypeOK
  <2>1. ASSUME NEW p \in Procs
        PROVE  /\ conn[p].pc \in {"down", "owner", "persisting", "legacy", "native"}
                                    \union Opening \union Restoring
               /\ conn[p].refs \in 0 .. 2
               /\ conn[p].pc = "down" => conn[p] = Down
               /\ conn[p].refs > 0 => conn[p].held
               /\ conn[p].held => conn[p].fd # "none"
    <3>1. conn[p] \in ConnRow /\ Shaped(conn[p]) /\ conn[p].refs \in 0 .. 1 /\ conn[p].pc \in StorePcs
      BY ConnFacts DEF ConnRow
    <3> QED BY <3>1 DEF Shaped, StorePcs
  <2>2. /\ files \in [Places -> [kind : Kinds, rows : SUBSET (1 .. MaxWrites), twin : BOOLEAN]]
        /\ lockFile \in [Places -> BOOLEAN] /\ acked \in [Places -> SUBSET (1 .. MaxWrites)]
    BY DEF StoreInv, StoreRecords, StoreTables
  <2> QED BY <2>1, <2>2 DEF StoreTypeOK
<1>2. NoCommitLost
  BY DEF StoreInv, AckedKept, NoCommitLost
<1>3. OwnedHasNoNative
  <2> SUFFICES ASSUME ~ used.overlap, NEW p \in Procs, conn[p].pc = "native"
               PROVE  files[conn[p].target].kind # "wasm"
    BY DEF OwnedHasNoNative
  <2> QED BY ConnFacts DEF Fits
<1> QED BY <1>1, <1>2, <1>3

\* Only a swap takes writes away, and who makes it has them saved.
LEMMA SwapKeepsCopy ==
  ASSUME StoreInv, [StoreNext]_storeVars, NEW w \in Places, ~ used.overlap, ~ (acked[w] \subseteq acked'[w])
  PROVE  \E p \in Procs : /\ conn[p].pc = "r_swap" /\ conn[p].target = w
                          /\ (conn[p].astray /\ path = w) \/ acked[w] \subseteq conn[p].saved
<1>1. acked \in [Places -> SUBSET (1 .. MaxWrites)] /\ AckedKept
  BY DEF StoreInv, StoreRecords, StoreTables
<1>2. PICK p \in Procs : RestoreSwap(p)
  <2>1. acked' # acked
    OBVIOUS
  <2>2. CASE UNCHANGED storeVars
    BY <2>1, <2>2 DEF storeVars
  <2>3. ASSUME NEW p \in Procs, OpenStep(p) PROVE FALSE
    BY <2>1, <2>3 DEF OpenStep, LoadLegacy, OpenLock, Flock, Rederive, OpenOwned
  <2>4. ASSUME NEW p \in Procs, Rename(p) PROVE FALSE
    <3>1. acked' = acked \/ acked' = [acked EXCEPT ![conn[p].target] = @ \union conn[p].image]
      BY <2>4 DEF Rename
    <3> QED BY <1>1, <2>1, <3>1
  <2>5. ASSUME NEW p \in Procs, \/ Begin(p) \/ OwnerWrite(p) \/ RenameFails(p) \/ LegacyWrite(p)
                                \/ NativeWrite(p) \/ Close(p)
        PROVE  FALSE
    BY <2>1, <2>5 DEF Begin, OwnerWrite, RenameFails, LegacyWrite, NativeWrite, Close
  <2>6. ASSUME NEW p \in Procs, \/ RestorePlan(p) \/ SafetyBackup(p) \/ RestoreStage(p)
                                \/ RestoreFresh(p) \/ RestoreAborts(p)
        PROVE  FALSE
    BY <2>1, <2>6 DEF RestorePlan, SafetyBackup, RestoreStage, RestoreFresh, RestoreAborts
  <2>7. ASSUME NEW p \in Procs, Crash(p) \/ CrashMaterializing(p) PROVE FALSE
    BY <2>1, <2>7 DEF Crash, CrashMaterializing
  <2>8. ASSUME NEW x \in Places, LockRemoved(x) PROVE FALSE
    BY <2>1, <2>8 DEF LockRemoved
  <2>9. CASE PathMoves
    BY <2>1, <2>9 DEF PathMoves
  <2> QED BY <2>2, <2>3, <2>4, <2>5, <2>6, <2>7, <2>8, <2>9 DEF StoreNext
<1>3. /\ conn[p].pc = "r_swap" /\ SwapAllowed(conn[p]) /\ KeepsLock(conn[p])
      /\ acked' = [acked EXCEPT ![conn[p].target] = {}]
  BY <1>2 DEF RestoreSwap
<1>4. conn[p].target = w /\ path = w
  BY <1>1, <1>3 DEF SwapAllowed
<1>5. /\ Shaped(conn[p]) /\ conn[p].refs \in 0 .. 1 /\ Knows(conn[p], acked[w])
      /\ Fits(conn[p], files[w].kind)
  BY <1>4, ConnFacts DEF ConnRow
<1>6. CASE conn[p].refs = 0
  <2>1. acked[w] = {}
    BY <1>1, <1>3, <1>5, <1>6 DEF Fits, Restoring, AckedKept
  <2> QED BY <1>3, <1>4, <2>1
<1>7. CASE conn[p].refs = 1
  <2>1. Holds(conn[p])
    BY <1>3, <1>5, <1>7 DEF Shaped, SwapAllowed, Holds
  <2> QED BY <1>3, <1>4, <1>5, <2>1 DEF Knows
<1> QED BY <1>5, <1>6, <1>7

\* The invariant of the database file holds in every state.
THEOREM StoreInvariant == StoreSpec => []StoreInv
BY StoreInitInv, StoreInvStep, PTL DEF StoreSpec

\* An owned database has one owner as long as nobody deletes its lock file, and no write it
\* reported done leaves the file while the file is an owner's.
THEOREM OwnedByOne == StoreSpec => []OneOwner /\ []NoCommitLost
BY StoreInvariant, StoreInvOneOwner, StoreInvSafe, PTL

\* Connections are well formed, and no native one is open on an owned file, restores at
\* the same time apart.
THEOREM FilesTyped == StoreSpec => []StoreTypeOK /\ []OwnedHasNoNative
BY StoreInvariant, StoreInvSafe, PTL

\* A restore that replaces writes an owner reported done has them in its safety backup.
THEOREM RestoresKeepCopy == StoreSpec => RestoreKeepsCopy
<1>1. StoreInv /\ [StoreNext]_storeVars =>
        [\A w \in Places : ~ used.overlap /\ ~ (acked[w] \subseteq acked'[w]) =>
           \E p \in Procs : /\ conn[p].pc = "r_swap" /\ conn[p].target = w
                            /\ (conn[p].astray /\ path = w) \/ acked[w] \subseteq conn[p].saved]_storeVars
  BY SwapKeepsCopy
<1> QED BY <1>1, StoreInvariant, PTL DEF StoreSpec, RestoreKeepsCopy

-----------------------------------------------------------------------------
(* The keyring.  A server holds the ring of the environment or the one before, *)
(* as an edit waits for every process (Follows).  Nothing is under the new key *)
(* before it is current, and no run is under way then (NewIsCurrent); once     *)
(* the verdict is given every process writes under the new key and the         *)
(* columns of the command are free of the old one (Retirable); an archive is   *)
(* under the old key only, so the ring that lacks it never restores one.       *)

Only == [current |-> Old, keys |-> {Old}]
Added == [current |-> Old, keys |-> {Old, New}]
Turned == [current |-> New, keys |-> {Old, New}]
Retired == [current |-> New, keys |-> {New}]
Rings == {Only, Added, Turned, Retired}

\* The keyring k may be held while the environment names the keyring n.
Follows(k, n) ==
  \/ k = n
  \/ k = Only /\ n = Added
  \/ k = Added /\ n = Turned
  \/ k = Turned /\ n = Retired

Ciphers == [as : Formats, text : 1 .. MaxText]
Marks == {0} \cup {Pk(c) : c \in Cells}
RunPcs == {"out", "next", "insert", "reclaim", "fetch", "write", "mark", "finish"}
RunRow ==
  [pc : RunPcs, col : Targets \cup {"none"}, left : SUBSET Targets,
   batch : {<<>>} \cup (Cells \X Ciphers), cursor : Marks, id : Runs \cup {"none"}]
ProgressRow == [live : BOOLEAN, stale : BOOLEAN, last : Marks, by : Runs \cup {"none"}]

\* A run writes exactly when it has a value of the old key, and works on a column under the
\* id of a run.
RunGood(k) ==
  /\ k.pc = "write" <=> k.batch # <<>>
  /\ k.pc = "write" => FromPredicate(k.batch[2], Old)
  /\ k.pc \in {"reclaim", "fetch", "write", "mark", "finish"} => k.id \in Runs

ProgressGood(k) == IF k.live THEN k.by \in Runs ELSE k = NoProgress

KeyTables ==
  /\ ring \in Rings /\ held \in [Servers -> Rings] /\ rows \in [Cells -> Values]
  /\ verdict \in BOOLEAN /\ faults \in Nat

RunsGood ==
  /\ progress \in [Targets -> ProgressRow] /\ run \in [Runs -> RunRow]
  /\ \A col \in Targets : ProgressGood(progress[col])
  /\ \A r \in Runs : RunGood(run[r])

HeldFollows == \A p \in Servers : Follows(held[p], ring)

\* Under the new key, a value or a run, only while that is current.
NewIsCurrent ==
  ring.current = Old =>
    (\A c \in Cells : rows[c].as # New) /\ (\A r \in Runs : run[r].pc = "out")

Retirable ==
  /\ ring = Retired => verdict
  /\ verdict => ring.current = New /\ \A p \in Servers : held[p].current = New

ArchiveIsOld ==
  archive # NoArchive =>
    /\ archive \in [Cells -> Values] /\ \A c \in Cells : archive[c].as # New
    /\ \E c \in Cells : IsCipher(archive[c])

KeyInv ==
  /\ KeyTables /\ RunsGood /\ HeldFollows /\ NewIsCurrent /\ Retirable /\ ArchiveIsOld
  /\ VerdictStands

\* The two keys are apart, in every ring and in every value.
LEMMA RingFacts ==
  /\ Only.current = Old /\ Added.current = Old /\ Turned.current = New /\ Retired.current = New
  /\ Old \in Only.keys /\ Old \in Added.keys /\ Old \in Turned.keys /\ Old \notin Retired.keys
  /\ New \notin Only.keys /\ New \in Added.keys /\ New \in Turned.keys /\ New \in Retired.keys
BY KeyNames DEF Only, Added, Turned, Retired

\* Which rings there are, and which a server may hold beside one.
LEMMA RingsApart ==
  ASSUME NEW k \in Rings, NEW n \in Rings
  PROVE  /\ n.current = Old <=> n = Only \/ n = Added
         /\ n.current = New <=> n = Turned \/ n = Retired
         /\ Old \notin n.keys <=> n = Retired
         /\ n.keys = {Old} => n = Only
         /\ Follows(k, n) /\ n.current = Old => k.current = Old
         /\ Follows(k, n) /\ n # Retired => Old \in k.keys
         /\ Follows(k, n) /\ n.current = New => New \in k.keys
BY RingFacts, KeyNames DEF Rings, Follows

LEMMA ValueFacts ==
  ASSUME NEW v \in Values
  PROVE  /\ v.text \in 0 .. MaxText
         /\ IsCipher(v) => v \in Ciphers /\ v.as \in Formats
         /\ IsCipher(v) /\ v.as # New => KeyOf(v) = Old
         /\ KeyOf(v) = New <=> v.as = New
<1>1. /\ None.text = 0 /\ None.as = "none" /\ Gone.text = MaxText /\ Gone.as = "none"
      /\ MaxText \in Nat /\ MaxText # 0
  BY KeyNames DEF None, Gone
<1>2. v = None \/ v = Gone \/ v \in Ciphers
  BY DEF Values, Ciphers
<1>3. CASE v = None \/ v = Gone
  BY <1>1, <1>3, KeyNames DEF IsCipher, KeyOf
<1>4. CASE v \in Ciphers
  <2>1. v.as \in {"v1", Old, New} /\ v.text \in 1 .. MaxText
    BY <1>4 DEF Ciphers, Formats
  <2>2. IsCipher(v) /\ v.as \in Formats
    BY <2>1, KeyNames DEF IsCipher, Formats
  <2>3. (v.as # New => KeyOf(v) = Old) /\ (KeyOf(v) = New <=> v.as = New)
    BY <2>1, KeyNames DEF KeyOf
  <2>4. v.text \in 0 .. MaxText
    BY <1>1, <2>1
  <2> QED BY <1>4, <2>2, <2>3, <2>4
<1> QED BY <1>2, <1>3, <1>4

\* A step of run r that leaves it as k.
LEMMA RunMoves ==
  ASSUME KeyInv, NEW r \in Runs, NEW k \in RunRow, RunGood(k),
         k.pc = "out" \/ ring.current = New,
         run' = [run EXCEPT ![r] = k],
         progress' \in [Targets -> ProgressRow],
         \A col \in Targets : ProgressGood(progress'[col]),
         rows' \in [Cells -> Values],
         \A c \in Cells : \/ rows'[c] = rows[c]
                          \/ (rows'[c].as = New /\ ring.current = New),
         UNCHANGED <<ring, held, verdict, archive>>, faults' \in Nat
  PROVE  KeyInv'
<1>1. KeyTables' /\ HeldFollows' /\ Retirable' /\ ArchiveIsOld'
  BY DEF KeyInv, KeyTables, HeldFollows, Retirable, ArchiveIsOld
<1>2. run \in [Runs -> RunRow] /\ \A q \in Runs : run'[q] = run[q] \/ run'[q] = k
  BY DEF KeyInv, RunsGood
<1>3. RunsGood'
  <2>1. run' \in [Runs -> RunRow]
    BY <1>2
  <2>2. ASSUME NEW q \in Runs PROVE RunGood(run'[q])
    BY <1>2 DEF KeyInv, RunsGood
  <2> QED BY <2>1, <2>2 DEF RunsGood
<1>4. NewIsCurrent'
  <2>1. ASSUME ring.current = Old, NEW c \in Cells PROVE rows'[c].as # New
    BY <2>1, KeyNames DEF KeyInv, NewIsCurrent
  <2>2. ASSUME ring.current = Old, NEW q \in Runs PROVE run'[q].pc = "out"
    BY <1>2, <2>2, KeyNames DEF KeyInv, NewIsCurrent
  <2> QED BY <2>1, <2>2 DEF NewIsCurrent
<1>5. VerdictStands'
  <2> SUFFICES ASSUME verdict, NEW c \in Cells, Column(c) \in Targets, IsCipher(rows'[c])
               PROVE  KeyOf(rows'[c]) # Old
    BY DEF VerdictStands
  <2>1. CASE rows'[c] = rows[c]
    BY <2>1 DEF KeyInv, VerdictStands
  <2>2. CASE rows'[c].as = New
    BY <2>2, KeyNames DEF KeyOf
  <2> QED BY <2>1, <2>2
<1> QED BY <1>1, <1>3, <1>4, <1>5 DEF KeyInv

\* A run under way has the new key current.
LEMMA UnderWay ==
  ASSUME KeyInv, NEW r \in Runs, run[r].pc # "out"
  PROVE  ring.current = New
BY RingsApart DEF KeyInv, KeyTables, NewIsCurrent, Rings

\* The same when only the run moves.
LEMMA OnlyRunMoves ==
  ASSUME KeyInv, NEW r \in Runs, NEW k \in RunRow, RunGood(k),
         k.pc = "out" \/ ring.current = New,
         run' = [run EXCEPT ![r] = k],
         UNCHANGED <<ring, held, rows, progress, verdict, archive>>, faults' \in Nat
  PROVE  KeyInv'
<1>1. /\ progress' \in [Targets -> ProgressRow] /\ \A col \in Targets : ProgressGood(progress'[col])
      /\ rows' \in [Cells -> Values] /\ \A c \in Cells : rows'[c] = rows[c]
      /\ UNCHANGED <<ring, held, verdict, archive>>
  BY DEF KeyInv, KeyTables, RunsGood
<1> QED BY <1>1, RunMoves

LEMMA NoRunGood == NoRun \in RunRow /\ RunGood(NoRun) /\ NoRun.pc = "out"
<1>1. /\ NoRun.pc = "out" /\ NoRun.col = "none" /\ NoRun.left = {} /\ NoRun.batch = <<>>
      /\ NoRun.cursor = 0 /\ NoRun.id = "none"
  BY DEF NoRun
<1>2. NoRun \in RunRow
  BY DEF NoRun, RunRow, RunPcs, Marks
<1> QED BY <1>1, <1>2 DEF RunGood

LEMMA StartRunStep == ASSUME KeyInv, NEW r \in Runs, StartRun(r) PROVE KeyInv'
<1>1. PICK k : k = [NoRun EXCEPT !.pc = "next", !.left = Targets]
  OBVIOUS
<1>2. k \in RunRow /\ k.pc = "next" /\ k.batch = <<>>
  BY <1>1 DEF NoRun, RunRow, RunPcs, Marks
<1>3. /\ run' = [run EXCEPT ![r] = k] /\ ring.current = New
      /\ UNCHANGED <<ring, held, rows, progress, verdict, archive>> /\ faults' \in Nat
  BY <1>1 DEF StartRun, KeyInv, KeyTables
<1>4. RunGood(k)
  BY <1>2 DEF RunGood
<1> QED BY <1>2, <1>3, <1>4, OnlyRunMoves

LEMMA LookStep == ASSUME KeyInv, NEW r \in Runs, NEW col \in Targets, Look(r, col) PROVE KeyInv'
<1>1. PICK d \in RunRow : d = run[r] /\ RunGood(d) /\ d.pc = "next"
  BY DEF Look, KeyInv, RunsGood
<1>2. PICK pr \in ProgressRow : pr = progress[col] /\ ProgressGood(pr)
  BY DEF KeyInv, RunsGood
<1>3. d.batch = <<>>
  BY <1>1 DEF RunGood
<1>4. ring.current = New
  BY <1>1, UnderWay
<1>5. UNCHANGED <<ring, held, rows, progress, verdict, archive>> /\ faults' \in Nat
  BY DEF Look, KeyInv, KeyTables
<1>6. ASSUME NEW k \in RunRow, run' = [run EXCEPT ![r] = k], k.batch = <<>>,
             k.pc \in {"next", "insert"} \/ (k.pc = "reclaim" /\ k.id \in Runs)
      PROVE  KeyInv'
  <2>1. RunGood(k)
    BY <1>6 DEF RunGood
  <2> QED BY <1>4, <1>5, <1>6, <2>1, OnlyRunMoves
<1>7. CASE run' = [run EXCEPT ![r] = [@ EXCEPT !.pc = "insert", !.col = col, !.left = run[r].left \ {col}]]
  <2>1. PICK l : l = d.left \ {col}
    OBVIOUS
  <2>2. PICK k : k = [d EXCEPT !.pc = "insert", !.col = col, !.left = l]
    OBVIOUS
  <2>3. l \in SUBSET Targets
    BY <2>1 DEF RunRow
  <2>4. k \in RunRow
    BY <2>2, <2>3 DEF RunRow, RunPcs
  <2>5. k.pc = "insert" /\ k.batch = <<>>
    BY <1>3, <2>2 DEF RunRow
  <2>6. run' = [run EXCEPT ![r] = k]
    BY <1>1, <1>7, <2>1, <2>2
  <2> QED BY <1>6, <2>4, <2>5, <2>6
<1>8. CASE /\ pr.live
           /\ run' = [run EXCEPT ![r] = [@ EXCEPT !.pc = "reclaim", !.col = col, !.left = run[r].left \ {col},
                                                  !.id = progress[col].by, !.cursor = progress[col].last]]
  <2>1. pr.by \in Runs /\ pr.last \in Marks
    BY <1>2, <1>8 DEF ProgressGood, ProgressRow
  <2>2. PICK b, l, e : b = pr.by /\ l = pr.last /\ e = d.left \ {col}
    OBVIOUS
  <2>3. PICK k : k = [d EXCEPT !.pc = "reclaim", !.col = col, !.left = e, !.id = b, !.cursor = l]
    OBVIOUS
  <2>7. e \in SUBSET Targets
    BY <2>2 DEF RunRow
  <2>4. k \in RunRow
    BY <2>1, <2>2, <2>3, <2>7 DEF RunRow, RunPcs
  <2>5. k.pc = "reclaim" /\ k.batch = <<>> /\ k.id \in Runs
    BY <1>3, <2>1, <2>2, <2>3 DEF RunRow
  <2>6. run' = [run EXCEPT ![r] = k]
    BY <1>1, <1>2, <1>8, <2>2, <2>3
  <2> QED BY <1>6, <2>4, <2>5, <2>6
<1>9. CASE run' = [run EXCEPT ![r] = [@ EXCEPT !.left = run[r].left \ {col}]]
  <2>1. PICK l : l = d.left \ {col}
    OBVIOUS
  <2>2. PICK k : k = [d EXCEPT !.left = l]
    OBVIOUS
  <2>3. l \in SUBSET Targets
    BY <2>1 DEF RunRow
  <2>4. k \in RunRow
    BY <2>2, <2>3 DEF RunRow
  <2>5. k.pc = "next" /\ k.batch = <<>>
    BY <1>1, <1>3, <2>2 DEF RunRow
  <2>6. run' = [run EXCEPT ![r] = k]
    BY <1>1, <1>9, <2>1, <2>2
  <2> QED BY <1>6, <2>4, <2>5, <2>6
<1> QED BY <1>2, <1>7, <1>8, <1>9 DEF Look

\* A progress row that is good keeps the table good.
LEMMA ProgressKept ==
  ASSUME KeyInv, NEW col, NEW row \in ProgressRow, ProgressGood(row), progress' = [progress EXCEPT ![col] = row]
  PROVE  progress' \in [Targets -> ProgressRow] /\ \A x \in Targets : ProgressGood(progress'[x])
BY DEF KeyInv, RunsGood

\* A run that is between its writes moves with its progress row.
LEMMA RowsRest ==
  ASSUME KeyInv, NEW r \in Runs, NEW k \in RunRow, RunGood(k), run[r].pc # "out",
         run' = [run EXCEPT ![r] = k],
         progress' \in [Targets -> ProgressRow],
         \A col \in Targets : ProgressGood(progress'[col]),
         UNCHANGED <<ring, held, rows, verdict, archive, faults>>
  PROVE  KeyInv'
<1>1. /\ rows' \in [Cells -> Values] /\ \A c \in Cells : rows'[c] = rows[c]
      /\ UNCHANGED <<ring, held, verdict, archive>> /\ faults' \in Nat
  BY DEF KeyInv, KeyTables
<1>2. ring.current = New
  BY UnderWay
<1> QED BY <1>1, <1>2, RunMoves

LEMMA NoProgressGood ==
  /\ NoProgress \in ProgressRow /\ ProgressGood(NoProgress)
  /\ NoProgress.live = FALSE /\ NoProgress.by = "none"
<1>1. NoProgress.live = FALSE /\ NoProgress.by = "none"
  BY DEF NoProgress
<1> QED BY <1>1 DEF NoProgress, ProgressRow, ProgressGood, Marks

LEMMA InsertProgressStep == ASSUME KeyInv, NEW r \in Runs, InsertProgress(r) PROVE KeyInv'
<1>1. PICK d \in RunRow : d = run[r] /\ RunGood(d) /\ d.pc = "insert"
  BY DEF InsertProgress, KeyInv, RunsGood
<1>2. d.batch = <<>>
  BY <1>1 DEF RunGood
<1>3. UNCHANGED <<ring, held, rows, verdict, archive, faults>>
  BY DEF InsertProgress
<1>4. CASE /\ progress' = [progress EXCEPT ![run[r].col] = [live |-> TRUE, stale |-> FALSE, last |-> 0, by |-> r]]
           /\ run' = [run EXCEPT ![r] = [@ EXCEPT !.pc = "fetch", !.id = r]]
  <2>1. PICK w : w = [live |-> TRUE, stale |-> FALSE, last |-> 0, by |-> r]
    OBVIOUS
  <2>2. w \in ProgressRow /\ ProgressGood(w)
    BY <2>1 DEF ProgressRow, ProgressGood, Marks
  <2>3. PICK k : k = [d EXCEPT !.pc = "fetch", !.id = r]
    OBVIOUS
  <2>4. k \in RunRow
    BY <2>3 DEF RunRow, RunPcs
  <2>5. k.pc = "fetch" /\ k.id = r /\ k.batch = <<>>
    BY <1>2, <2>3 DEF RunRow
  <2>6. RunGood(k)
    BY <2>5 DEF RunGood
  <2>7. progress' \in [Targets -> ProgressRow] /\ \A x \in Targets : ProgressGood(progress'[x])
    BY <1>4, <2>1, <2>2, ProgressKept
  <2>8. run' = [run EXCEPT ![r] = k] /\ run[r].pc # "out"
    BY <1>1, <1>4, <2>3
  <2> QED BY <1>3, <2>4, <2>6, <2>7, <2>8, RowsRest
<1>5. CASE run' = [run EXCEPT ![r] = [@ EXCEPT !.pc = "next", !.col = "none"]] /\ progress' = progress
  <2>1. PICK k : k = [d EXCEPT !.pc = "next", !.col = "none"]
    OBVIOUS
  <2>2. k \in RunRow
    BY <2>1 DEF RunRow, RunPcs
  <2>3. k.pc = "next" /\ k.batch = <<>>
    BY <1>2, <2>1 DEF RunRow
  <2>4. RunGood(k)
    BY <2>3 DEF RunGood
  <2>5. progress' \in [Targets -> ProgressRow] /\ \A x \in Targets : ProgressGood(progress'[x])
    BY <1>5 DEF KeyInv, RunsGood
  <2>6. run' = [run EXCEPT ![r] = k] /\ run[r].pc # "out"
    BY <1>1, <1>5, <2>1
  <2> QED BY <1>3, <2>2, <2>4, <2>5, <2>6, RowsRest
<1> QED BY <1>4, <1>5 DEF InsertProgress

LEMMA ReclaimProgressStep == ASSUME KeyInv, NEW r \in Runs, ReclaimProgress(r) PROVE KeyInv'
<1>1. PICK d \in RunRow : d = run[r] /\ RunGood(d) /\ d.pc = "reclaim"
  BY DEF ReclaimProgress, KeyInv, RunsGood
<1>2. d.batch = <<>> /\ d.id \in Runs
  BY <1>1 DEF RunGood
<1>3. PICK k : k = [d EXCEPT !.pc = "fetch"]
  OBVIOUS
<1>4. k \in RunRow
  BY <1>3 DEF RunRow, RunPcs
<1>5. k.pc = "fetch" /\ k.batch = <<>> /\ k.id \in Runs
  BY <1>2, <1>3 DEF RunRow
<1>6. RunGood(k)
  BY <1>5 DEF RunGood
<1>7. run' = [run EXCEPT ![r] = k] /\ run[r].pc # "out"
  BY <1>1, <1>3 DEF ReclaimProgress, Step
<1>8. progress' \in [Targets -> ProgressRow] /\ \A x \in Targets : ProgressGood(progress'[x])
  <2>1. progress \in [Targets -> ProgressRow] /\ \A x \in Targets : ProgressGood(progress[x])
    BY DEF KeyInv, RunsGood
  <2>2. progress' = [progress EXCEPT ![run[r].col].stale = FALSE]
    BY DEF ReclaimProgress
  <2>3. CASE run[r].col \notin Targets
    BY <2>1, <2>2, <2>3
  <2>4. CASE run[r].col \in Targets
    <3>1. PICK w \in ProgressRow : w = progress[run[r].col] /\ ProgressGood(w)
      BY <2>1, <2>4
    <3>2. PICK n : n = [w EXCEPT !.stale = FALSE]
      OBVIOUS
    <3>3. n \in ProgressRow /\ n.live = w.live /\ n.by = w.by
      BY <3>2 DEF ProgressRow
    <3>4. ASSUME ~ w.live PROVE n = NoProgress
      <4>1. w = NoProgress
        BY <3>1, <3>4 DEF ProgressGood
      <4>2. n.live = FALSE /\ n.stale = FALSE /\ n.last = 0 /\ n.by = "none"
        BY <3>2, <4>1 DEF NoProgress
      <4> QED BY <3>3, <4>2 DEF ProgressRow, NoProgress
    <3>5. ProgressGood(n)
      BY <3>1, <3>3, <3>4 DEF ProgressGood
    <3>6. progress' = [progress EXCEPT ![run[r].col] = n]
      BY <2>1, <2>2, <2>4, <3>1, <3>2
    <3> QED BY <3>3, <3>5, <3>6, ProgressKept
  <2> QED BY <2>3, <2>4
<1>9. UNCHANGED <<ring, held, rows, verdict, archive, faults>>
  BY DEF ReclaimProgress
<1> QED BY <1>4, <1>6, <1>7, <1>8, <1>9, RowsRest

LEMMA FetchStep == ASSUME KeyInv, NEW r \in Runs, Fetch(r) PROVE KeyInv'
<1>1. PICK d \in RunRow : d = run[r] /\ RunGood(d) /\ d.pc = "fetch"
  BY DEF Fetch, KeyInv, RunsGood
<1>2. d.batch = <<>> /\ d.id \in Runs
  BY <1>1 DEF RunGood
<1>3. UNCHANGED <<ring, held, rows, progress, verdict, archive>> /\ faults' \in Nat /\ ring.current = New
  BY <1>1, UnderWay DEF Fetch, KeyInv, KeyTables
<1>4. ASSUME NEW c \in Cells, IsNext(c, Pending(run[r].col, run[r].cursor)),
             run' = [run EXCEPT ![r] = [@ EXCEPT !.batch = <<c, rows[c]>>, !.pc = "write"]]
      PROVE  KeyInv'
  <2>1. rows[c] \in Values /\ FromPredicate(rows[c], Old)
    BY <1>4 DEF IsNext, Pending, KeyInv, KeyTables
  <2>2. rows[c] \in Ciphers
    BY <2>1, ValueFacts DEF FromPredicate
  <2>3. PICK b : b = <<c, rows[c]>>
    OBVIOUS
  <2>4. b \in Cells \X Ciphers /\ b # <<>> /\ b[2] = rows[c]
    BY <2>2, <2>3
  <2>5. PICK k : k = [d EXCEPT !.batch = b, !.pc = "write"]
    OBVIOUS
  <2>6. k \in RunRow
    BY <2>4, <2>5 DEF RunRow, RunPcs
  <2>7. k.pc = "write" /\ k.batch = b /\ k.id = d.id
    BY <2>5 DEF RunRow
  <2>8. RunGood(k)
    BY <1>2, <2>1, <2>4, <2>7 DEF RunGood
  <2>9. run' = [run EXCEPT ![r] = k]
    BY <1>1, <1>4, <2>3, <2>5
  <2> QED BY <1>3, <2>6, <2>8, <2>9, OnlyRunMoves
<1>5. CASE run' = Step(r, "finish")
  <2>1. PICK k : k = [d EXCEPT !.pc = "finish"]
    OBVIOUS
  <2>2. k \in RunRow
    BY <2>1 DEF RunRow, RunPcs
  <2>3. k.pc = "finish" /\ k.batch = <<>> /\ k.id \in Runs
    BY <1>2, <2>1 DEF RunRow
  <2>4. RunGood(k)
    BY <2>3 DEF RunGood
  <2>5. run' = [run EXCEPT ![r] = k]
    BY <1>1, <1>5, <2>1 DEF Step
  <2> QED BY <1>3, <2>2, <2>4, <2>5, OnlyRunMoves
<1> QED BY <1>4, <1>5 DEF Fetch
\* A value of the old key is written under the new one; only the value the batch read.
LEMMA Rewrites ==
  ASSUME KeyInv, NEW r \in Runs, WriteBatch(r)
  PROVE  /\ rows' \in [Cells -> Values]
         /\ \A c \in Cells : \/ rows'[c] = rows[c]
                             \/ rows'[c].as = New /\ rows'[c].text = rows[c].text
<1>1. /\ run[r] \in RunRow /\ RunGood(run[r]) /\ run[r].pc = "write" /\ rows \in [Cells -> Values]
  BY DEF WriteBatch, KeyInv, RunsGood, KeyTables
<1>2. run[r].batch \in Cells \X Ciphers
  BY <1>1 DEF RunGood, RunRow
<1>3. PICK c, v : c = run[r].batch[1] /\ v = run[r].batch[2]
  OBVIOUS
<1>4. c \in Cells /\ v \in Ciphers
  BY <1>2, <1>3
<1>5. rows' = IF Unchanged(c, v) THEN [rows EXCEPT ![c] = [as |-> New, text |-> v.text]] ELSE rows
  BY <1>3 DEF WriteBatch
<1>6. CASE ~ Unchanged(c, v)
  BY <1>1, <1>5, <1>6
<1>7. CASE Unchanged(c, v)
  <2>1. PICK n : n = [as |-> New, text |-> v.text]
    OBVIOUS
  <2>2. n \in Values /\ n.as = New /\ n.text = v.text
    BY <1>4, <2>1 DEF Ciphers, Values, Formats
  <2>3. rows' = [rows EXCEPT ![c] = n] /\ rows[c] = v
    BY <1>5, <1>7, <2>1 DEF Unchanged
  <2> QED BY <1>1, <2>2, <2>3
<1> QED BY <1>6, <1>7

LEMMA WriteBatchStep == ASSUME KeyInv, NEW r \in Runs, WriteBatch(r) PROVE KeyInv'
<1>1. PICK d \in RunRow : d = run[r] /\ RunGood(d) /\ d.pc = "write"
  BY DEF WriteBatch, KeyInv, RunsGood
<1>2. d.batch \in Cells \X Ciphers /\ d.id \in Runs
  BY <1>1 DEF RunGood, RunRow
<1>3. ring.current = New
  BY <1>1, UnderWay
<1>4. PICK m : m = Pk(d.batch[1])
  OBVIOUS
<1>5. m \in Marks
  BY <1>2, <1>4 DEF Marks
<1>6. PICK k : k = [d EXCEPT !.pc = "mark", !.batch = <<>>, !.cursor = m]
  OBVIOUS
<1>7. k \in RunRow
  BY <1>5, <1>6 DEF RunRow, RunPcs
<1>8. k.pc = "mark" /\ k.batch = <<>> /\ k.id \in Runs
  BY <1>2, <1>6 DEF RunRow
<1>9. RunGood(k)
  BY <1>8 DEF RunGood
<1>10. run' = [run EXCEPT ![r] = k]
  BY <1>1, <1>4, <1>6 DEF WriteBatch
<1>11. /\ progress' \in [Targets -> ProgressRow] /\ \A x \in Targets : ProgressGood(progress'[x])
       /\ UNCHANGED <<ring, held, verdict, archive>> /\ faults' \in Nat
  BY DEF WriteBatch, KeyInv, RunsGood, KeyTables
<1>12. \A c \in Cells : \/ rows'[c] = rows[c]
                        \/ (rows'[c].as = New /\ ring.current = New)
  BY <1>3, Rewrites
<1> QED BY <1>3, <1>7, <1>9, <1>10, <1>11, <1>12, Rewrites, RunMoves

\* The column and the row of a run that goes by its own id.
LEMMA OwnRow ==
  ASSUME KeyInv, NEW r \in Runs, run[r].id \in Runs, OwnProgress(r), run[r].col \in Targets
  PROVE  progress[run[r].col] \in ProgressRow /\ progress[run[r].col].live
<1>1. progress[run[r].col] \in ProgressRow /\ ProgressGood(progress[run[r].col])
  BY DEF KeyInv, RunsGood
<1>2. progress[run[r].col].by \in Runs
  BY DEF OwnProgress
<1> QED BY <1>1, <1>2, NoProgressGood, KeyNames DEF ProgressGood

LEMMA MarkProgressStep == ASSUME KeyInv, NEW r \in Runs, MarkProgress(r) PROVE KeyInv'
<1>1. PICK d \in RunRow : d = run[r] /\ RunGood(d) /\ d.pc = "mark"
  BY DEF MarkProgress, KeyInv, RunsGood
<1>2. d.batch = <<>> /\ d.id \in Runs /\ d.cursor \in Marks
  BY <1>1 DEF RunGood, RunRow
<1>3. PICK k : k = [d EXCEPT !.pc = "fetch"]
  OBVIOUS
<1>4. k \in RunRow
  BY <1>3 DEF RunRow, RunPcs
<1>5. k.pc = "fetch" /\ k.batch = <<>> /\ k.id \in Runs
  BY <1>2, <1>3 DEF RunRow
<1>6. RunGood(k)
  BY <1>5 DEF RunGood
<1>7. run' = [run EXCEPT ![r] = k] /\ run[r].pc # "out"
  BY <1>1, <1>3 DEF MarkProgress, Step
<1>8. progress' \in [Targets -> ProgressRow] /\ \A x \in Targets : ProgressGood(progress'[x])
  <2>1. progress \in [Targets -> ProgressRow] /\ \A x \in Targets : ProgressGood(progress[x])
    BY DEF KeyInv, RunsGood
  <2>2. progress' = progress \/ (OwnProgress(r) /\ progress' = [progress EXCEPT ![run[r].col].last = run[r].cursor])
    BY DEF MarkProgress
  <2>3. CASE run[r].col \notin Targets \/ progress' = progress
    BY <2>1, <2>2, <2>3
  <2>4. CASE run[r].col \in Targets /\ progress' # progress
    <3>1. PICK w \in ProgressRow : w = progress[run[r].col] /\ ProgressGood(w)
      BY <2>1, <2>4
    <3>2. w.live
      BY <1>1, <1>2, <2>2, <2>4, <3>1, OwnRow
    <3>3. PICK n : n = [w EXCEPT !.last = d.cursor]
      OBVIOUS
    <3>4. n \in ProgressRow /\ n.live = w.live /\ n.by = w.by
      BY <1>2, <3>3 DEF ProgressRow
    <3>5. ProgressGood(n)
      BY <3>1, <3>2, <3>4 DEF ProgressGood
    <3>6. progress' = [progress EXCEPT ![run[r].col] = n]
      BY <1>1, <2>1, <2>2, <2>4, <3>1, <3>3
    <3> QED BY <3>4, <3>5, <3>6, ProgressKept
  <2> QED BY <2>3, <2>4
<1>9. UNCHANGED <<ring, held, rows, verdict, archive, faults>>
  BY DEF MarkProgress
<1> QED BY <1>4, <1>6, <1>7, <1>8, <1>9, RowsRest

LEMMA FinishStep == ASSUME KeyInv, NEW r \in Runs, Finish(r) PROVE KeyInv'
<1>1. PICK d \in RunRow : d = run[r] /\ RunGood(d) /\ d.pc = "finish"
  BY DEF Finish, KeyInv, RunsGood
<1>2. d.batch = <<>>
  BY <1>1 DEF RunGood
<1>3. PICK k : k = [d EXCEPT !.pc = "next", !.col = "none", !.cursor = 0, !.id = "none"]
  OBVIOUS
<1>4. k \in RunRow
  BY <1>3 DEF RunRow, RunPcs, Marks
<1>5. k.pc = "next" /\ k.batch = <<>>
  BY <1>2, <1>3 DEF RunRow
<1>6. RunGood(k)
  BY <1>5 DEF RunGood
<1>7. run' = [run EXCEPT ![r] = k] /\ run[r].pc # "out"
  BY <1>1, <1>3 DEF Finish
<1>8. progress' \in [Targets -> ProgressRow] /\ \A x \in Targets : ProgressGood(progress'[x])
  <2>1. CASE progress' = progress
    BY <2>1 DEF KeyInv, RunsGood
  <2>2. CASE progress' = [progress EXCEPT ![run[r].col] = NoProgress]
    BY <2>2, NoProgressGood, ProgressKept
  <2> QED BY <2>1, <2>2 DEF Finish
<1>9. UNCHANGED <<ring, held, rows, verdict, archive, faults>>
  BY DEF Finish
<1> QED BY <1>4, <1>6, <1>7, <1>8, <1>9, RowsRest

LEMMA EndStep == ASSUME KeyInv, NEW r \in Runs, Exit(r) \/ Killed(r) PROVE KeyInv'
<1>1. /\ run' = [run EXCEPT ![r] = NoRun] /\ UNCHANGED <<ring, held, rows, progress, verdict, archive>>
      /\ faults' \in Nat
  BY DEF Exit, Killed, KeyInv, KeyTables
<1> QED BY <1>1, NoRunGood, OnlyRunMoves

\* A step outside the runs, which leaves them and their progress rows.
LEMMA Aside ==
  ASSUME KeyInv, UNCHANGED run, progress' \in [Targets -> ProgressRow],
         \A col \in Targets : ProgressGood(progress'[col])
  PROVE  RunsGood'
BY DEF KeyInv, RunsGood

\* Nor do they touch the keyrings, when they only write values.
LEMMA Writes ==
  ASSUME KeyInv, UNCHANGED <<ring, held, progress, run, verdict, archive, faults>>,
         rows' \in [Cells -> Values],
         ring.current = Old => \A c \in Cells : rows'[c].as # New,
         verdict => \A c \in Cells : Column(c) \in Targets /\ IsCipher(rows'[c]) => KeyOf(rows'[c]) # Old
  PROVE  KeyInv'
<1>1. KeyTables' /\ HeldFollows' /\ Retirable' /\ ArchiveIsOld' /\ RunsGood'
  BY DEF KeyInv, KeyTables, HeldFollows, Retirable, ArchiveIsOld, RunsGood
<1>2. NewIsCurrent' /\ VerdictStands'
  BY DEF KeyInv, NewIsCurrent, VerdictStands
<1> QED BY <1>1, <1>2 DEF KeyInv

LEMMA WriteStep == ASSUME KeyInv, NEW p \in Servers, NEW c \in Cells, Write(p, c) PROVE KeyInv'
<1>1. /\ rows[c] \in Values /\ rows \in [Cells -> Values] /\ held[p] \in Rings /\ ring \in Rings
      /\ rows[c].text < MaxText /\ Follows(held[p], ring)
      /\ UNCHANGED <<ring, held, progress, run, verdict, archive, faults>>
  BY DEF Write, KeyInv, KeyTables, HeldFollows
<1>2. PICK v : v = EncryptContent(held[p], rows[c].text + 1)
  OBVIOUS
<1>3. v.as = held[p].current /\ v.as \in {Old, New}
  BY <1>1, <1>2, RingFacts DEF EncryptContent, Rings
<1>4. rows[c].text + 1 \in 1 .. MaxText
  BY <1>1, ValueFacts, KeyNames
<1>5. v \in Values
  BY <1>2, <1>3, <1>4 DEF EncryptContent, Values, Formats
<1>6. rows' = [rows EXCEPT ![c] = v]
  BY <1>1, <1>2 DEF Write
<1>7. rows' \in [Cells -> Values] /\ \A x \in Cells : rows'[x] = IF x = c THEN v ELSE rows[x]
  BY <1>1, <1>5, <1>6
<1>8. ASSUME ring.current = Old, NEW x \in Cells PROVE rows'[x].as # New
  <2>1. v.as # New
    BY <1>1, <1>3, <1>8, RingsApart, KeyNames
  <2> QED BY <1>7, <1>8, <2>1 DEF KeyInv, NewIsCurrent
<1>9. ASSUME verdict, NEW x \in Cells, Column(x) \in Targets, IsCipher(rows'[x]) PROVE KeyOf(rows'[x]) # Old
  <2>1. KeyOf(v) # Old
    BY <1>3, <1>9, KeyNames DEF KeyOf, KeyInv, Retirable
  <2> QED BY <1>7, <1>9, <2>1 DEF KeyInv, VerdictStands
<1> QED BY <1>1, <1>7, <1>8, <1>9, Writes

LEMMA PurgeOldStep == ASSUME KeyInv, NEW c \in Cells, PurgeOld(c) PROVE KeyInv'
<1>1. rows \in [Cells -> Values] /\ rows' = [rows EXCEPT ![c] = Gone]
      /\ UNCHANGED <<ring, held, progress, run, verdict, archive, faults>>
  BY DEF PurgeOld, KeyInv, KeyTables
<1>2. Gone \in Values /\ Gone.as # New /\ ~ IsCipher(Gone)
  BY KeyNames DEF Gone, Values, IsCipher
<1>3. rows' \in [Cells -> Values] /\ \A x \in Cells : rows'[x] = IF x = c THEN Gone ELSE rows[x]
  BY <1>1, <1>2
<1>4. ring.current = Old => \A x \in Cells : rows'[x].as # New
  BY <1>2, <1>3 DEF KeyInv, NewIsCurrent
<1>5. verdict => \A x \in Cells : Column(x) \in Targets /\ IsCipher(rows'[x]) => KeyOf(rows'[x]) # Old
  BY <1>2, <1>3 DEF KeyInv, VerdictStands
<1> QED BY <1>1, <1>3, <1>4, <1>5, Writes

LEMMA RestartStep == ASSUME KeyInv, NEW p \in Servers, Restart(p) PROVE KeyInv'
<1>1. ring \in Rings /\ held \in [Servers -> Rings] /\ held' = [held EXCEPT ![p] = ring]
      /\ UNCHANGED <<ring, rows, progress, run, verdict, archive, faults>>
  BY DEF Restart, KeyInv, KeyTables
<1>2. held' \in [Servers -> Rings] /\ \A q \in Servers : held'[q] = held[q] \/ held'[q] = ring
  BY <1>1
<1>3. KeyTables' /\ HeldFollows' /\ Retirable'
  BY <1>1, <1>2 DEF KeyInv, KeyTables, HeldFollows, Retirable, Follows
<1>4. RunsGood' /\ NewIsCurrent' /\ ArchiveIsOld' /\ VerdictStands'
  BY <1>1 DEF KeyInv, RunsGood, NewIsCurrent, ArchiveIsOld, VerdictStands
<1> QED BY <1>3, <1>4 DEF KeyInv

LEMMA HourPassesStep == ASSUME KeyInv, NEW col \in Targets, HourPasses(col) PROVE KeyInv'
<1>1. progress \in [Targets -> ProgressRow] /\ progress[col].live /\ ProgressGood(progress[col])
      /\ progress' = [progress EXCEPT ![col].stale = TRUE]
      /\ UNCHANGED <<ring, held, rows, run, verdict, archive, faults>>
  BY DEF HourPasses, KeyInv, RunsGood
<1>2. PICK w \in ProgressRow : w = progress[col]
  BY <1>1
<1>3. PICK n : n = [w EXCEPT !.stale = TRUE]
  OBVIOUS
<1>4. n \in ProgressRow /\ n.live = w.live /\ n.by = w.by
  BY <1>3 DEF ProgressRow
<1>5. ProgressGood(n)
  BY <1>1, <1>2, <1>4 DEF ProgressGood
<1>6. progress' = [progress EXCEPT ![col] = n]
  BY <1>1, <1>2, <1>3
<1>7. progress' \in [Targets -> ProgressRow] /\ \A x \in Targets : ProgressGood(progress'[x])
  BY <1>4, <1>5, <1>6, ProgressKept
<1>8. RunsGood'
  BY <1>1, <1>7, Aside
<1>9. KeyTables' /\ HeldFollows' /\ Retirable' /\ NewIsCurrent' /\ ArchiveIsOld' /\ VerdictStands'
  BY <1>1 DEF KeyInv, KeyTables, HeldFollows, Retirable, NewIsCurrent, ArchiveIsOld, VerdictStands
<1> QED BY <1>8, <1>9 DEF KeyInv

LEMMA VerifyCleanStep == ASSUME KeyInv, VerifyClean PROVE KeyInv'
<1>1. /\ \A p \in Servers : held[p] = ring
      /\ ring.current = New /\ ~ LeftToDo /\ verdict' = TRUE
      /\ UNCHANGED <<ring, held, rows, progress, run, archive, faults>>
  BY DEF VerifyClean, Settled, Clean
<1>2. KeyTables' /\ HeldFollows' /\ NewIsCurrent' /\ ArchiveIsOld' /\ RunsGood'
  BY <1>1 DEF KeyInv, KeyTables, HeldFollows, RunsGood, NewIsCurrent, ArchiveIsOld
<1>3. Retirable'
  BY <1>1 DEF Retirable
<1>4. VerdictStands'
  BY <1>1 DEF VerdictStands, LeftToDo, FromPredicate
<1> QED BY <1>2, <1>3, <1>4 DEF KeyInv

LEMMA EditRingStep == ASSUME KeyInv, EditRing PROVE KeyInv'
<1>1. /\ \A p \in Servers : held[p] = ring
      /\ \A r \in Runs : run[r].pc = "out"
      /\ UNCHANGED <<held, rows, progress, run, verdict, archive, faults>>
      /\ ring \in Rings /\ verdict \in BOOLEAN
  BY DEF EditRing, Settled, KeyInv, KeyTables
<1>2. \/ ring = Only /\ ring' = Added
      \/ ring = Added /\ ring' = Turned
      \/ verdict /\ ring = Turned /\ ring' = Retired
  <2>1. CASE ring.keys = {Old} /\ ring' = [ring EXCEPT !.keys = {Old, New}]
    <3>1. ring = Only
      BY <1>1, <2>1, RingsApart
    <3> QED BY <2>1, <3>1 DEF Only, Added
  <2>2. CASE ring = [current |-> Old, keys |-> {Old, New}] /\ ring' = [ring EXCEPT !.current = New]
    BY <2>2 DEF Added, Turned
  <2>3. CASE verdict /\ Old \in ring.keys /\ ring' = [ring EXCEPT !.keys = {New}]
    <3>1. ring = Turned
      BY <1>1, <2>3, RingsApart DEF KeyInv, Retirable
    <3> QED BY <2>3, <3>1 DEF Turned, Retired
  <2> QED BY <2>1, <2>2, <2>3 DEF EditRing
<1>3. ring' \in Rings /\ HeldFollows'
  BY <1>1, <1>2 DEF Rings, HeldFollows, Follows
<1>4. KeyTables' /\ RunsGood' /\ ArchiveIsOld' /\ VerdictStands'
  BY <1>1, <1>3 DEF KeyInv, KeyTables, RunsGood, ArchiveIsOld, VerdictStands
<1>5. NewIsCurrent'
  <2>1. ring'.current = Old => ring.current = Old
    BY <1>2, RingFacts, KeyNames
  <2> QED BY <1>1, <2>1 DEF KeyInv, NewIsCurrent
<1>6. Retirable'
  <2>1. ring' = Retired => verdict
    BY <1>2, RingFacts, KeyNames
  <2>2. verdict => ring'.current = New
    BY <1>2, RingFacts, KeyNames DEF KeyInv, Retirable
  <2> QED BY <1>1, <2>1, <2>2 DEF KeyInv, Retirable
<1> QED BY <1>3, <1>4, <1>5, <1>6 DEF KeyInv

LEMMA BackupStep == ASSUME KeyInv, Backup PROVE KeyInv'
<1>1. /\ ring.keys = {Old} /\ archive' = rows /\ faults' = faults + 1
      /\ UNCHANGED <<ring, held, rows, progress, run, verdict>> /\ \E c \in Cells : IsCipher(rows[c])
      /\ ring \in Rings /\ rows \in [Cells -> Values] /\ faults \in Nat
  BY DEF Backup, KeyInv, KeyTables
<1>2. \A c \in Cells : rows[c].as # New
  BY <1>1, RingsApart, RingFacts DEF KeyInv, NewIsCurrent
<1>3. ArchiveIsOld'
  BY <1>1, <1>2 DEF ArchiveIsOld
<1>4. KeyTables' /\ HeldFollows' /\ Retirable' /\ NewIsCurrent' /\ RunsGood' /\ VerdictStands'
  BY <1>1 DEF KeyInv, KeyTables, HeldFollows, Retirable, NewIsCurrent, RunsGood, VerdictStands
<1> QED BY <1>3, <1>4 DEF KeyInv

LEMMA RestoreStep == ASSUME KeyInv, Restore PROVE KeyInv'
<1>1. /\ archive \in [Cells -> Values] /\ \A c \in Cells : archive[c].as # New
      /\ \E c \in Cells : IsCipher(archive[c])
      /\ ring \in Rings /\ faults \in Nat
  BY DEF Restore, KeyInv, ArchiveIsOld, KeyTables
<1>2. /\ rows' = archive /\ archive' = NoArchive /\ verdict' = FALSE
      /\ held' = [p \in Servers |-> ring] /\ progress' = [col \in Targets |-> NoProgress]
      /\ UNCHANGED <<ring, run, faults>> /\ CanRead(ring, archive)
      /\ \A r \in Runs : run[r].pc = "out"
  BY DEF Restore
<1>3. Old \in ring.keys
  <2>1. PICK c \in Cells : IsCipher(archive[c])
    BY <1>1
  <2>2. KeyOf(archive[c]) = Old
    BY <1>1, <2>1, ValueFacts
  <2> QED BY <1>1, <1>2, <2>1, <2>2 DEF CanRead, Reads
<1>4. ring # Retired
  BY <1>1, <1>3, RingsApart
<1>5. KeyTables' /\ HeldFollows' /\ Retirable' /\ ArchiveIsOld' /\ VerdictStands'
  BY <1>1, <1>2, <1>4 DEF KeyTables, HeldFollows, Follows, Retirable, ArchiveIsOld, VerdictStands
<1>6. NewIsCurrent'
  BY <1>1, <1>2 DEF NewIsCurrent
<1>7. RunsGood'
  <2>1. progress' \in [Targets -> ProgressRow] /\ \A col \in Targets : ProgressGood(progress'[col])
    BY <1>2, NoProgressGood
  <2> QED BY <1>2, <2>1, Aside
<1> QED BY <1>5, <1>6, <1>7 DEF KeyInv

LEMMA KeyInitInv == KeyInit => KeyInv
<1> SUFFICES ASSUME KeyInit PROVE KeyInv
  OBVIOUS
<1>1. /\ ring = Only /\ held = [p \in Servers |-> ring] /\ verdict = FALSE /\ archive = NoArchive /\ faults = 0
      /\ progress = [col \in Targets |-> NoProgress] /\ run = [r \in Runs |-> NoRun]
      /\ rows \in [Cells -> {None} \cup [as : {"v1", Old}, text : {1}]]
  BY DEF KeyInit, Only
<1>2. Only \in Rings /\ Only.current = Old /\ Only # Retired
  BY RingFacts, KeyNames DEF Rings
<1>3. ASSUME NEW c \in Cells PROVE rows[c] \in Values /\ rows[c].as # New
  <2>1. rows[c] = None \/ rows[c] \in [as : {"v1", Old}, text : {1}]
    BY <1>1
  <2>2. None \in Values /\ None.as # New
    BY KeyNames DEF None, Values
  <2>3. ASSUME NEW v \in [as : {"v1", Old}, text : {1}]
        PROVE  v \in [as : Formats, text : 1 .. MaxText] /\ v.as # New
    <3>1. v.as \in {"v1", Old} /\ v.text = 1 /\ v = [as |-> v.as, text |-> v.text]
      OBVIOUS
    <3>2. v.as \in Formats
      BY <3>1 DEF Formats
    <3>3. v.as # New
      BY <3>1, KeyNames
    <3>4. 1 \in 1 .. MaxText
      BY KeyNames
    <3>5. v.text \in 1 .. MaxText
      BY <3>1, <3>4
    <3> QED BY <3>1, <3>2, <3>3, <3>5
  <2> QED BY <2>1, <2>2, <2>3 DEF Values
<1>4. rows \in [Cells -> Values]
  BY <1>1, <1>3
<1>5. KeyTables /\ HeldFollows /\ Retirable /\ ArchiveIsOld /\ VerdictStands
  BY <1>1, <1>2, <1>4 DEF KeyTables, HeldFollows, Follows, Retirable, ArchiveIsOld, VerdictStands
<1>6. NewIsCurrent /\ RunsGood
  BY <1>1, <1>3, NoRunGood, NoProgressGood DEF NewIsCurrent, RunsGood
<1> QED BY <1>5, <1>6 DEF KeyInv

LEMMA KeyInvStep == KeyInv /\ [KeyNext]_ringVars => KeyInv'
<1> SUFFICES ASSUME KeyInv, [KeyNext]_ringVars PROVE KeyInv'
  OBVIOUS
<1>1. CASE UNCHANGED ringVars
  BY <1>1 DEF ringVars, KeyInv, KeyTables, RunsGood, HeldFollows, NewIsCurrent, Retirable, ArchiveIsOld,
     VerdictStands
<1>2. ASSUME NEW p \in Servers, Restart(p) \/ \E c \in Cells : Write(p, c) PROVE KeyInv'
  BY <1>2, RestartStep, WriteStep
<1>3. ASSUME NEW r \in Runs, RunStep(r) PROVE KeyInv'
  BY <1>3, LookStep, InsertProgressStep, ReclaimProgressStep, FetchStep, WriteBatchStep, MarkProgressStep,
     FinishStep, EndStep DEF RunStep
<1>4. ASSUME NEW r \in Runs, StartRun(r) \/ Killed(r) PROVE KeyInv'
  BY <1>4, StartRunStep, EndStep
<1>5. ASSUME NEW c \in Cells, PurgeOld(c) PROVE KeyInv'
  BY <1>5, PurgeOldStep
<1>6. ASSUME NEW col \in Targets, HourPasses(col) PROVE KeyInv'
  BY <1>6, HourPassesStep
<1>7. CASE VerifyClean \/ EditRing \/ Backup \/ Restore
  BY <1>7, VerifyCleanStep, EditRingStep, BackupStep, RestoreStep
<1> QED BY <1>1, <1>2, <1>3, <1>4, <1>5, <1>6, <1>7 DEF KeyNext

LEMMA KeyInvReads == KeyInv => EveryValueReads /\ VerdictStands /\ KeyTypeOK
<1> SUFFICES ASSUME KeyInv PROVE EveryValueReads /\ VerdictStands /\ KeyTypeOK
  OBVIOUS
<1>1. ASSUME NEW p \in Servers, NEW c \in Cells, Column(c) \in Targets, IsCipher(rows[c])
      PROVE  KeyOf(rows[c]) \in held[p].keys /\ KeyOf(rows[c]) \in ring.keys
  <2>1. /\ ring \in Rings /\ held[p] \in Rings /\ Follows(held[p], ring) /\ rows[c] \in Values
        /\ Follows(ring, ring)
    BY DEF KeyInv, KeyTables, HeldFollows, Follows
  <2>2. CASE rows[c].as = New
    <3>1. ring.current = New
      BY <2>1, <2>2, RingsApart DEF KeyInv, NewIsCurrent, Rings
    <3> QED BY <2>1, <2>2, <3>1, RingsApart, ValueFacts
  <2>3. CASE rows[c].as # New
    <3>1. KeyOf(rows[c]) = Old
      BY <1>1, <2>1, <2>3, ValueFacts
    <3>2. ring # Retired
      BY <1>1, <3>1 DEF KeyInv, VerdictStands, Retirable
    <3> QED BY <2>1, <3>1, <3>2, RingsApart
  <2> QED BY <2>2, <2>3
<1>2. KeyTypeOK
  <2>1. Rings \subseteq Keyrings
    BY DEF Rings, Keyrings, Only, Added, Turned, Retired
  <2>2. ring \in Keyrings /\ held \in [Servers -> Keyrings] /\ rows \in [Cells -> Values]
    BY <2>1 DEF KeyInv, KeyTables
  <2>3. \A col \in Targets : progress[col].live \/ progress[col] = NoProgress
    BY DEF KeyInv, RunsGood, ProgressGood
  <2>4. \A r \in Runs : run[r].pc = "write" <=> run[r].batch # <<>>
    BY DEF KeyInv, RunsGood, RunGood
  <2> QED BY <2>2, <2>3, <2>4 DEF KeyTypeOK
<1> QED BY <1>1, <1>2 DEF EveryValueReads, Reads, KeyInv

\* A step of a run changes no text.
LEMMA RunsKeepText ==
  ASSUME KeyInv, [KeyNext]_ringVars, NEW r \in Runs, run'[r] # run[r], NEW c \in Cells
  PROVE  rows'[c].text = rows[c].text
<1>1. CASE rows' = rows
  BY <1>1
<1>2. CASE rows' # rows
  <2>1. PICK q \in Runs : WriteBatch(q)
    <3>1. ASSUME NEW p \in Servers, Restart(p) \/ \E x \in Cells : Write(p, x) PROVE FALSE
      BY <3>1 DEF Restart, Write
    <3>2. ASSUME NEW q \in Runs, RunStep(q) PROVE WriteBatch(q)
      BY <1>2, <3>2 DEF RunStep, Look, InsertProgress, ReclaimProgress, Fetch, MarkProgress, Finish, Exit
    <3>3. ASSUME NEW q \in Runs, StartRun(q) \/ Killed(q) PROVE FALSE
      BY <1>2, <3>3 DEF StartRun, Killed
    <3>4. ASSUME NEW x \in Cells, PurgeOld(x) PROVE FALSE
      BY <3>4 DEF PurgeOld
    <3>5. ASSUME NEW col \in Targets, HourPasses(col) PROVE FALSE
      BY <1>2, <3>5 DEF HourPasses
    <3>6. CASE VerifyClean \/ EditRing \/ Backup \/ Restore
      BY <1>2, <3>6 DEF VerifyClean, EditRing, Backup, Restore
    <3>7. CASE UNCHANGED ringVars
      BY <1>2, <3>7 DEF ringVars
    <3> QED BY <3>1, <3>2, <3>3, <3>4, <3>5, <3>6, <3>7 DEF KeyNext
  <2> QED BY <2>1, Rewrites
<1> QED BY <1>1, <1>2

\* Through a rotation by the runbook every value of the walked columns reads in every process,
\* and a clean verdict stands, whatever runs are killed, overtaken or restored over.
THEOREM ValuesStayReadable == KeySpec => []KeyTypeOK /\ []EveryValueReads /\ []VerdictStands
BY KeyInitInv, KeyInvStep, KeyInvReads, PTL DEF KeySpec

\* No step of a re-encryption takes a value's text back.
THEOREM RunsKeepNewest == KeySpec => NewestText
<1>1. KeySpec => []KeyInv
  BY KeyInitInv, KeyInvStep, PTL DEF KeySpec
<1>2. KeyInv /\ [KeyNext]_ringVars =>
        [(\E r \in Runs : run'[r] # run[r]) => \A c \in Cells : rows'[c].text = rows[c].text]_ringVars
  BY RunsKeepText
<1> QED BY <1>1, <1>2, PTL DEF KeySpec, NewestText

-----------------------------------------------------------------------------
(* Retention.  What a purge announces it deletes in the same transaction: the  *)
(* grace is no shorter than the week, so a row past the grace is past both.    *)
(* Purged rows never change again, so an announcement stays true.              *)

MailRow == [st : {"none", "held", "purged"}, age : 0..Oldest, read : BOOLEAN,
            given : BOOLEAN, seen : BOOLEAN, since : BOOLEAN]

\* What the step makes of one message: its row is well typed, and of the drops that were or
\* are to be announced none is undone.
RowKept(m) ==
  /\ mbox'[m] \in MailRow
  /\ mbox'[m].read => mbox'[m].given
  /\ mbox[m].st = "purged" /\ ~mbox[m].read => mbox'[m].st = "purged" /\ ~mbox'[m].read

LEMMA RetFacts == BaseAge \in Nat /\ GraceAge \in Nat /\ MaxPurgeDeaths \in Nat /\ BaseAge <= GraceAge
                  /\ Oldest \in Nat
BY RetentionBounds DEF Oldest

LEMMA NoMailTyped ==
  NoMail \in MailRow /\ ~NoMail.read /\ ~NoMail.given /\ NoMail.st = "none"
BY RetFacts DEF NoMail, MailRow

LEMMA MailTyped ==
  ASSUME RetTypeOK, NEW m \in Mail
  PROVE  mbox[m] \in MailRow /\ (mbox[m].read => mbox[m].given) /\ mbox[m].age \in Nat
<1>1. mbox[m] \in MailRow
  BY DEF RetTypeOK, MailRow
<1> QED BY <1>1, RetFacts DEF RetTypeOK, MailRow

\* A step that keeps every row, and announces nothing that stays, keeps the types.
LEMMA RowsKept ==
  ASSUME RetTypeOK, DOMAIN mbox' = Mail, mbox' = [m \in Mail |-> mbox'[m]], \A m \in Mail : RowKept(m),
         due' \cup told' \subseteq due \cup told,
         owner' \in [marker : BOOLEAN, bound : BOOLEAN], sweeper' \in BOOLEAN, lost' \in 0..MaxPurgeDeaths,
         status' \in [age : {"none", "fresh", "stale", "ahead"}, says : {"ok", "uncovered", "unobservable"}]
  PROVE  RetTypeOK'
<1>1. mbox' \in [Mail -> MailRow]
  BY DEF RowKept
<1>2. \A m \in Mail : mbox'[m].read => mbox'[m].given
  BY DEF RowKept
<1>3. due' \cup told' \subseteq {m \in Mail : mbox'[m].st = "purged" /\ ~mbox'[m].read}
  <2>1. ASSUME NEW m \in due \cup told PROVE m \in Mail /\ mbox[m].st = "purged" /\ ~mbox[m].read
    BY DEF RetTypeOK
  <2> QED BY <2>1 DEF RowKept
<1> QED BY <1>1, <1>2, <1>3 DEF RetTypeOK, MailRow

\* A step that leaves the mailbox as it is.
LEMMA MailStays ==
  ASSUME RetTypeOK, UNCHANGED mbox
  PROVE  /\ DOMAIN mbox' = Mail /\ mbox' = [m \in Mail |-> mbox'[m]] /\ \A m \in Mail : RowKept(m)
<1>1. \A m \in Mail : RowKept(m)
  BY MailTyped DEF RowKept
<1> QED BY <1>1 DEF RetTypeOK

LEMMA RetInitTyped == RetInit => RetTypeOK /\ DropsAreSaid
<1> SUFFICES ASSUME RetInit PROVE RetTypeOK /\ DropsAreSaid
  OBVIOUS
<1>2. mbox \in [Mail -> MailRow] /\ \A m \in Mail : ~mbox[m].read /\ mbox[m].st = "none"
  BY NoMailTyped DEF RetInit
<1>3. /\ owner \in [marker : BOOLEAN, bound : BOOLEAN] /\ sweeper \in BOOLEAN /\ lost \in 0..MaxPurgeDeaths
      /\ status \in [age : {"none", "fresh", "stale", "ahead"}, says : {"ok", "uncovered", "unobservable"}]
  <2>1. owner = [marker |-> FALSE, bound |-> TRUE] /\ sweeper = FALSE /\ lost = 0
    BY DEF RetInit
  <2>2. status = [age |-> "none", says |-> "ok"]
    BY DEF RetInit, NoStatus
  <2>3. lost \in 0..MaxPurgeDeaths
    BY <2>1, RetFacts
  <2>4. owner \in [marker : BOOLEAN, bound : BOOLEAN] /\ sweeper \in BOOLEAN
    BY <2>1
  <2>5. status \in [age : {"none", "fresh", "stale", "ahead"}, says : {"ok", "uncovered", "unobservable"}]
    BY <2>2
  <2> QED BY <2>3, <2>4, <2>5
<1>4. due \cup told = {}
  BY DEF RetInit
<1>5. RetTypeOK
  BY <1>2, <1>3, <1>4 DEF RetTypeOK, MailRow
<1> QED BY <1>2, <1>5 DEF DropsAreSaid

-----------------------------------------------------------------------------
LEMMA SendTyped ==
  ASSUME RetTypeOK, NEW m \in Mail, Send(m)
  PROVE  RetTypeOK' /\ \A n \in Mail : mbox'[n].st = "purged" => mbox[n].st = "purged" /\ mbox'[n] = mbox[n]
<1>1. PICK c : c = [NoMail EXCEPT !.st = "held"]
  OBVIOUS
<1>2. c \in MailRow /\ ~c.read /\ c.st = "held"
  BY <1>1, NoMailTyped DEF MailRow
<1>3. mbox' = [mbox EXCEPT ![m] = c] /\ mbox[m].st = "none"
  BY <1>1 DEF Send
<1>4. /\ DOMAIN mbox' = Mail /\ mbox' = [n \in Mail |-> mbox'[n]]
      /\ mbox'[m] = c /\ \A n \in Mail \ {m} : mbox'[n] = mbox[n]
  BY <1>3 DEF RetTypeOK
<1>5. \A n \in Mail : RowKept(n)
  BY <1>2, <1>3, <1>4, MailTyped DEF RowKept
<1>6. RetTypeOK'
  BY <1>4, <1>5, RowsKept DEF Send, RetTypeOK
<1> QED BY <1>2, <1>4, <1>6

LEMMA DrainTyped ==
  ASSUME RetTypeOK, NEW page \in SUBSET Mail, MailDrains(page)
  PROVE  RetTypeOK' /\ \A n \in Mail : mbox'[n].st = "purged" =>
                         mbox[n].st = "purged" /\ mbox'[n].read = mbox[n].read
<1>1. ASSUME NEW m \in Mail
      PROVE  /\ RowKept(m)
             /\ mbox'[m].st = "purged" => mbox[m].st = "purged" /\ mbox'[m].read = mbox[m].read
  <2>1. PICK b, r, g, s : /\ b = (mbox[m].seen \/ m \in page)
                          /\ r = (mbox[m].read \/ (m \in page /\ owner.bound))
                          /\ g = (mbox[m].given \/ m \in page)
                          /\ s = (mbox[m].since \/ mbox[m].st = "held")
    OBVIOUS
  <2>2. PICK c : c = [mbox[m] EXCEPT !.seen = b, !.read = r, !.given = g, !.since = s]
    OBVIOUS
  <2>3. mbox'[m] = c
    BY <2>1, <2>2 DEF MailDrains
  <2>4. b \in BOOLEAN /\ r \in BOOLEAN /\ g \in BOOLEAN /\ s \in BOOLEAN
    BY <2>1
  <2>5. c \in MailRow /\ c.st = mbox[m].st /\ c.read = r /\ c.given = g
    BY <2>2, <2>4, MailTyped DEF MailRow
  <2>6. m \in page => mbox[m].st = "held"
    BY DEF MailDrains, Undelivered
  <2>7. (r => g) /\ (m \notin page => r = mbox[m].read)
    BY <2>1, MailTyped DEF MailRow
  <2> QED BY <2>3, <2>5, <2>6, <2>7 DEF RowKept
<1>2. DOMAIN mbox' = Mail /\ mbox' = [m \in Mail |-> mbox'[m]]
  BY DEF MailDrains
<1>3. owner' \in [marker : BOOLEAN, bound : BOOLEAN]
  BY DEF MailDrains, RetTypeOK
<1>4. RetTypeOK'
  BY <1>1, <1>2, <1>3, RowsKept DEF MailDrains, RetTypeOK
<1> QED BY <1>1, <1>4

LEMMA PeekTyped ==
  ASSUME RetTypeOK, NEW page \in SUBSET Mail, Peek(page)
  PROVE  RetTypeOK' /\ \A n \in Mail : mbox'[n].st = "purged" =>
                         mbox[n].st = "purged" /\ mbox'[n].read = mbox[n].read
<1>1. ASSUME NEW m \in Mail
      PROVE  RowKept(m) /\ mbox'[m].st = mbox[m].st /\ mbox'[m].read = mbox[m].read
  <2>1. PICK b : b = (mbox[m].seen \/ m \in page)
    OBVIOUS
  <2>2. PICK c : c = [mbox[m] EXCEPT !.seen = b]
    OBVIOUS
  <2>3. mbox'[m] = c
    BY <2>1, <2>2 DEF Peek
  <2>4. b \in BOOLEAN
    BY <2>1
  <2>5. c \in MailRow /\ c.st = mbox[m].st /\ c.read = mbox[m].read /\ c.given = mbox[m].given
    BY <2>2, <2>4, MailTyped DEF MailRow
  <2> QED BY <2>3, <2>5, MailTyped DEF RowKept
<1>2. DOMAIN mbox' = Mail /\ mbox' = [m \in Mail |-> mbox'[m]]
  BY DEF Peek
<1>3. RetTypeOK'
  BY <1>1, <1>2, RowsKept DEF Peek, RetTypeOK
<1> QED BY <1>1, <1>3

LEMMA DayTyped ==
  ASSUME RetTypeOK, NextDay
  PROVE  RetTypeOK' /\ \A n \in Mail : mbox'[n].st = "purged" =>
                         mbox[n].st = "purged" /\ mbox'[n].read = mbox[n].read
<1>1. ASSUME NEW m \in Mail
      PROVE  RowKept(m) /\ mbox'[m].st = mbox[m].st /\ mbox'[m].read = mbox[m].read
  <2>1. CASE mbox[m].st = "held" /\ mbox[m].age < Oldest
    <3>1. PICK a : a = mbox[m].age + 1
      OBVIOUS
    <3>2. PICK c : c = [mbox[m] EXCEPT !.age = a]
      OBVIOUS
    <3>3. mbox'[m] = c
      BY <2>1, <3>1, <3>2 DEF NextDay
    <3>4. a \in 0..Oldest
      BY <2>1, <3>1, MailTyped, RetFacts
    <3>5. c \in MailRow /\ c.st = mbox[m].st /\ c.read = mbox[m].read /\ c.given = mbox[m].given
      BY <3>2, <3>4, MailTyped DEF MailRow
    <3> QED BY <3>3, <3>5, MailTyped DEF RowKept
  <2>2. CASE ~(mbox[m].st = "held" /\ mbox[m].age < Oldest)
    <3>1. mbox'[m] = mbox[m]
      BY <2>2 DEF NextDay
    <3> QED BY <3>1, MailTyped DEF RowKept
  <2> QED BY <2>1, <2>2
<1>2. DOMAIN mbox' = Mail /\ mbox' = [m \in Mail |-> mbox'[m]]
  BY DEF NextDay
<1>3. status' \in [age : {"none", "fresh", "stale", "ahead"}, says : {"ok", "uncovered", "unobservable"}]
  BY DEF NextDay, RetTypeOK
<1>4. RetTypeOK'
  BY <1>1, <1>2, <1>3, RowsKept DEF NextDay, RetTypeOK
<1> QED BY <1>1, <1>4

\* What the purge is about to announce is what it drops undelivered.
LEMMA DoomedPurged ==
  ASSUME RetTypeOK, NEW m \in Mail
  PROVE  m \in Doomed <=> m \in Purged /\ ~mbox[m].read
<1>1. m \in Undelivered <=> mbox[m].st = "held" /\ ~mbox[m].read
  BY DEF Undelivered
<1>2. m \in Doomed <=> m \in Undelivered /\ mbox[m].age > GraceAge
  BY DEF Doomed, Undelivered
<1>3. m \in Purged <=> /\ mbox[m].st = "held" /\ mbox[m].age > BaseAge
                       /\ ~(m \in Undelivered /\ mbox[m].age <= GraceAge)
  BY DEF Purged
<1> QED BY <1>1, <1>2, <1>3, MailTyped, RetFacts

LEMMA PurgeTyped ==
  ASSUME RetTypeOK, Purge
  PROVE  /\ RetTypeOK'
         /\ \A n \in Mail : mbox'[n].st = "purged" /\ ~mbox'[n].read =>
              n \in due' \/ (mbox[n].st = "purged" /\ ~mbox[n].read)
         /\ \A n \in Mail : mbox[n].st = "held" /\ ~mbox[n].read /\ mbox'[n].st = "purged" => n \in Doomed
<1>1. ASSUME NEW m \in Mail
      PROVE  IF m \in Purged
             THEN mbox'[m] \in MailRow /\ mbox'[m].st = "purged" /\ mbox'[m].read = mbox[m].read
                  /\ mbox'[m].given = mbox[m].given /\ mbox[m].st = "held"
             ELSE mbox'[m] = mbox[m]
  <2>1. CASE m \in Purged
    <3>1. PICK r, g : r = mbox[m].read /\ g = mbox[m].given
      OBVIOUS
    <3>2. PICK c : c = [NoMail EXCEPT !.st = "purged", !.read = r, !.given = g]
      OBVIOUS
    <3>3. r \in BOOLEAN /\ g \in BOOLEAN
      BY <3>1, MailTyped DEF MailRow
    <3>4. c \in MailRow /\ c.st = "purged" /\ c.read = r /\ c.given = g
      BY <3>2, <3>3, NoMailTyped DEF MailRow
    <3>5. mbox'[m] = c
      BY <2>1, <3>1, <3>2 DEF Purge
    <3>6. mbox[m].st = "held"
      BY <2>1 DEF Purged
    <3> QED BY <2>1, <3>1, <3>4, <3>5, <3>6
  <2>2. CASE m \notin Purged
    <3>1. mbox'[m] = mbox[m]
      BY <2>2 DEF Purge
    <3> QED BY <2>2, <3>1
  <2> QED BY <2>1, <2>2
<1>2. \A m \in Mail : RowKept(m)
  BY <1>1, MailTyped DEF RowKept
<1>3. mbox' \in [Mail -> MailRow]
  <2>1. mbox' = [m \in Mail |-> mbox'[m]]
    BY DEF Purge
  <2> QED BY <1>2, <2>1 DEF RowKept
<1>4. ASSUME NEW m \in due' \cup told' PROVE m \in Mail /\ mbox'[m].st = "purged" /\ ~mbox'[m].read
  <2>1. CASE m \in due \cup told
    <3>1. m \in Mail /\ mbox[m].st = "purged" /\ ~mbox[m].read
      BY <2>1 DEF RetTypeOK
    <3> QED BY <1>2, <3>1 DEF RowKept
  <2>2. CASE m \in Doomed
    <3>1. m \in Mail /\ m \in Purged /\ ~mbox[m].read
      BY <2>2, DoomedPurged DEF Doomed, Undelivered
    <3> QED BY <1>1, <3>1
  <2> QED BY <1>4, <2>1, <2>2 DEF Purge
<1>5. RetTypeOK'
  <2>1. due' \cup told' \subseteq {m \in Mail : mbox'[m].st = "purged" /\ ~mbox'[m].read}
    BY <1>4
  <2>2. \A m \in Mail : mbox'[m].read => mbox'[m].given
    BY <1>2 DEF RowKept
  <2> QED BY <1>3, <2>1, <2>2 DEF RetTypeOK, MailRow, Purge
<1>6. ASSUME NEW n \in Mail, mbox'[n].st = "purged", ~mbox'[n].read
      PROVE  n \in due' \/ (mbox[n].st = "purged" /\ ~mbox[n].read)
  BY <1>1, <1>6, DoomedPurged DEF Purge
<1>7. ASSUME NEW n \in Mail, mbox[n].st = "held", ~mbox[n].read, mbox'[n].st = "purged"
      PROVE  n \in Doomed
  BY <1>1, <1>7, DoomedPurged
<1> QED BY <1>5, <1>6, <1>7

\* The other steps leave the mailbox as it is, and what is due to be announced too unless they
\* announce it or die of it.
LEMMA OthersTyped ==
  ASSUME RetTypeOK,
         \/ \E anew \in BOOLEAN : OwnerRegisters(anew)
         \/ Unbind \/ Announce \/ DiesUnannounced \/ Sweep \/ SweepFails \/ SweeperStarts \/ Stops
         \/ UNCHANGED retVars
  PROVE  RetTypeOK' /\ UNCHANGED mbox /\ (due' \cup told' = due \cup told \/ lost' > 0) /\ lost' >= lost
<1>0. lost \in Nat /\ owner \in [marker : BOOLEAN, bound : BOOLEAN]
  BY RetFacts DEF RetTypeOK
<1>v. CoverageVerdict \in {"ok", "uncovered", "unobservable"}
  BY DEF CoverageVerdict
<1>1. UNCHANGED mbox
  BY DEF OwnerRegisters, Unbind, Announce, DiesUnannounced, Sweep, SweepFails, SweeperStarts, Stops, retVars
<1>2. owner' \in [marker : BOOLEAN, bound : BOOLEAN]
  <2>1. CASE \E anew \in BOOLEAN : OwnerRegisters(anew)
    BY <1>0, <2>1 DEF OwnerRegisters
  <2>2. CASE Unbind
    BY <1>0, <2>2 DEF Unbind
  <2>3. CASE UNCHANGED owner
    BY <1>0, <2>3
  <2> QED BY <2>1, <2>2, <2>3
          DEF Announce, DiesUnannounced, Sweep, SweepFails, SweeperStarts, Stops, retVars
<1>3. sweeper' \in BOOLEAN
  BY DEF RetTypeOK, OwnerRegisters, Unbind, Announce, DiesUnannounced, Sweep, SweepFails, SweeperStarts,
         Stops, retVars
<1>4. lost' \in 0..MaxPurgeDeaths /\ lost' >= lost /\ (due' \cup told' = due \cup told \/ lost' > 0)
      /\ due' \cup told' \subseteq due \cup told
  <2>1. CASE DiesUnannounced
    BY <1>0, <2>1, RetFacts DEF DiesUnannounced, RetTypeOK
  <2>2. CASE Announce
    BY <1>0, <2>2 DEF Announce, RetTypeOK
  <2>3. CASE UNCHANGED <<due, told, lost>>
    BY <1>0, <2>3 DEF RetTypeOK
  <2> QED BY <2>1, <2>2, <2>3 DEF OwnerRegisters, Unbind, Sweep, SweepFails, SweeperStarts, Stops, retVars
<1>5. status' \in [age : {"none", "fresh", "stale", "ahead"}, says : {"ok", "uncovered", "unobservable"}]
  <2>1. CASE UNCHANGED status
    BY <2>1 DEF RetTypeOK
  <2>2. CASE Sweep
    BY <1>v, <2>2 DEF Sweep
  <2>3. CASE SweepFails
    BY <1>v, <2>3 DEF SweepFails, RetTypeOK
  <2> QED BY <2>1, <2>2, <2>3
          DEF OwnerRegisters, Unbind, Announce, DiesUnannounced, SweeperStarts, Stops, retVars
<1>6. RetTypeOK'
  BY <1>1, <1>2, <1>3, <1>4, <1>5, MailStays, RowsKept
<1> QED BY <1>1, <1>4, <1>6

LEMMA RetStep ==
  RetTypeOK /\ DropsAreSaid /\ [RetNext]_retVars =>
    /\ RetTypeOK' /\ DropsAreSaid'
    /\ \A m \in Mail : mbox[m].st = "held" /\ ~mbox[m].read /\ mbox'[m].st = "purged" => mbox[m].age > GraceAge
<1> SUFFICES ASSUME RetTypeOK, DropsAreSaid, [RetNext]_retVars
             PROVE  /\ RetTypeOK' /\ DropsAreSaid'
                    /\ \A m \in Mail : mbox[m].st = "held" /\ ~mbox[m].read /\ mbox'[m].st = "purged"
                                       => mbox[m].age > GraceAge
  OBVIOUS
<1>1. ASSUME RetTypeOK', UNCHANGED <<due, told, lost>>,
             \A n \in Mail : mbox'[n].st = "purged" => mbox[n].st = "purged" /\ mbox'[n].read = mbox[n].read
      PROVE  /\ DropsAreSaid'
             /\ \A m \in Mail : mbox[m].st = "held" /\ ~mbox[m].read /\ mbox'[m].st = "purged"
                                => mbox[m].age > GraceAge
  BY <1>1 DEF DropsAreSaid
<1>2. ASSUME NEW m \in Mail, Send(m) PROVE RetTypeOK' /\ UNCHANGED <<due, told, lost>>
        /\ \A n \in Mail : mbox'[n].st = "purged" => mbox[n].st = "purged" /\ mbox'[n].read = mbox[n].read
  BY <1>2, SendTyped DEF Send
<1>3. ASSUME NEW page \in SUBSET Mail, MailDrains(page) \/ Peek(page)
      PROVE  RetTypeOK' /\ UNCHANGED <<due, told, lost>>
        /\ \A n \in Mail : mbox'[n].st = "purged" => mbox[n].st = "purged" /\ mbox'[n].read = mbox[n].read
  BY <1>3, DrainTyped, PeekTyped DEF MailDrains, Peek
<1>4. CASE NextDay
  BY <1>1, <1>4, DayTyped DEF NextDay
<1>5. CASE Purge
  <2>1. RetTypeOK'
    BY <1>5, PurgeTyped
  <2>2. ASSUME NEW n \in Mail, mbox'[n].st = "purged", ~mbox'[n].read
        PROVE  n \in due' \cup told' \/ lost' > 0
    <3>1. CASE n \in due'
      BY <3>1
    <3>2. CASE mbox[n].st = "purged" /\ ~mbox[n].read
      <4>1. n \in due \cup told \/ lost > 0
        BY <3>2 DEF DropsAreSaid
      <4> QED BY <1>5, <4>1 DEF Purge
    <3> QED BY <1>5, <2>2, <3>1, <3>2, PurgeTyped
  <2>3. DropsAreSaid'
    BY <2>2 DEF DropsAreSaid
  <2>4. \A n \in Mail : mbox[n].st = "held" /\ ~mbox[n].read /\ mbox'[n].st = "purged" => n \in Doomed
    BY <1>5, PurgeTyped
  <2> QED BY <2>1, <2>3, <2>4 DEF Doomed
<1>6. ASSUME \/ \E anew \in BOOLEAN : OwnerRegisters(anew)
             \/ Unbind \/ Announce \/ DiesUnannounced \/ Sweep \/ SweepFails \/ SweeperStarts \/ Stops
             \/ UNCHANGED retVars
      PROVE  /\ RetTypeOK' /\ DropsAreSaid'
             /\ \A m \in Mail : mbox[m].st = "held" /\ ~mbox[m].read /\ mbox'[m].st = "purged"
                                => mbox[m].age > GraceAge
  <2>1. RetTypeOK' /\ UNCHANGED mbox /\ (due' \cup told' = due \cup told \/ lost' > 0) /\ lost' >= lost
    BY <1>6, OthersTyped
  <2>2. lost \in Nat /\ lost' \in Nat
    BY <2>1, RetFacts DEF RetTypeOK
  <2>3. DropsAreSaid'
    BY <2>1, <2>2 DEF DropsAreSaid
  <2> QED BY <2>1, <2>3
<1> QED BY <1>1, <1>2, <1>3, <1>4, <1>5, <1>6 DEF RetNext

\* Undrained mail is dropped past its grace only, and said to be unless the process that purged
\* it died first; nothing is announced that was not dropped undrained.
THEOREM DropsAreTold == RetSpec => []RetTypeOK /\ []DropsAreSaid /\ GraceIsKept
<1>1. RetTypeOK /\ DropsAreSaid /\ [RetNext]_retVars =>
        [\A m \in Mail : mbox[m].st = "held" /\ ~mbox[m].read /\ mbox'[m].st = "purged"
                         => mbox[m].age > GraceAge]_retVars
  BY RetStep
<1> QED BY <1>1, RetInitTyped, RetStep, PTL DEF RetSpec, GraceIsKept
=============================================================================
