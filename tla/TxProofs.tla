------------------------------ MODULE TxProofs ------------------------------
(***************************************************************************)
(* What the statements about savepoints keep and give, for every session,  *)
(* and proofs about Tx for every set of dialects, names and faults and     *)
(* every bound: what holds whatever callbacks do, then that levels and     *)
(* savepoints delimit the work of each call when callbacks are disciplined, *)
(* and that Tx then implements NestedWork.                                  *)
(***************************************************************************)
EXTENDS TxNested, SequenceTheorems, TLAPS

(* A prefix of a sequence is a sequence of that length with its elements. *)
LEMMA UptoProperties ==
    ASSUME NEW S, NEW seq \in Seq(S), NEW n \in 0 .. Len(seq)
    PROVE  /\ Upto(seq, n) \in Seq(S)
           /\ Len(Upto(seq, n)) = n
           /\ DOMAIN Upto(seq, n) = 1 .. n
           /\ \A i \in 1 .. n : Upto(seq, n)[i] = seq[i]
<1>1. \A i \in 1 .. n : seq[i] \in S
  BY ElementOfSeq
<1>2. /\ SubSeq(seq, 1, n) \in Seq(S)
      /\ Len(SubSeq(seq, 1, n)) = n
      /\ \A i \in 1 .. n : SubSeq(seq, 1, n)[i] = seq[i]
  BY <1>1, SubSeqProperties
<1>3. DOMAIN SubSeq(seq, 1, n) = 1 .. n
  BY <1>2, LenProperties
<1>. QED
  BY <1>2, <1>3 DEF Upto

(* The parts of a well-formed session. *)
LEMMA SessionParts ==
    ASSUME NEW s, WellFormed(s)
    PROVE  /\ s.log \in Seq(Nat) /\ s.marks \in Seq(Mark)
           /\ Len(s.log) \in Nat /\ Len(s.marks) \in Nat
           /\ DOMAIN s.log = 1 .. Len(s.log)
           /\ DOMAIN s.marks = 1 .. Len(s.marks)
           /\ \A i \in DOMAIN s.log : s.log[i] \in Nat
           /\ \A i \in DOMAIN s.marks :
                 /\ s.marks[i] \in Mark
                 /\ s.marks[i].at \in 0 .. Len(s.log)
                 /\ s.marks[i].name \in Nat \cup {Replaced}
<1>1. s.marks \in Seq(Mark) /\ s.log \in Seq(Nat)
  BY DEF WellFormed, Session
<1>2. /\ s.log \in [1 .. Len(s.log) -> Nat] /\ s.marks \in [1 .. Len(s.marks) -> Mark]
      /\ Len(s.log) \in Nat /\ Len(s.marks) \in Nat
  BY <1>1, LenProperties
<1>3. \A i \in DOMAIN s.marks : s.marks[i] \in Mark
  BY <1>2
<1>4. \A m \in Mark : m.at \in Nat /\ m.name \in Nat \cup {Replaced}
  BY DEF Mark
<1>5. \A i \in DOMAIN s.marks : s.marks[i].at <= Len(s.log)
  BY DEF WellFormed
<1>. QED
  BY <1>1, <1>2, <1>3, <1>4, <1>5

(* A function on 1 .. n is a sequence of length n. *)
LEMMA FunctionIsSeq ==
    ASSUME NEW S, NEW n \in Nat, NEW f \in [1 .. n -> S]
    PROVE  f \in Seq(S) /\ Len(f) = n
OBVIOUS

(* The prefixes of a session's savepoints. *)
LEMMA MarksUpto ==
    ASSUME NEW s, WellFormed(s), NEW n \in 0 .. Len(s.marks)
    PROVE  /\ Upto(s.marks, n) \in Seq(Mark)
           /\ DOMAIN Upto(s.marks, n) = 1 .. n
           /\ \A i \in 1 .. n : i \in DOMAIN s.marks /\ Upto(s.marks, n)[i] = s.marks[i]
<1>1. s.marks \in Seq(Mark) /\ DOMAIN s.marks = 1 .. Len(s.marks) /\ Len(s.marks) \in Nat
  BY SessionParts
<1> DEFINE m == s.marks
<1>. HIDE DEF m
<1>2. ASSUME m \in Seq(Mark), n \in 0 .. Len(m)
      PROVE  /\ Upto(m, n) \in Seq(Mark)
             /\ DOMAIN Upto(m, n) = 1 .. n
             /\ \A i \in 1 .. n : Upto(m, n)[i] = m[i]
  BY <1>2, UptoProperties
<1>. QED
  BY <1>1, <1>2 DEF m

(* The transaction starts with a well-formed session. *)
LEMMA EmptyWellFormed == WellFormed(EmptySession)
BY DEF WellFormed, EmptySession, Session

(* A write adds the last element of the log and nothing else. *)
LEMMA WrittenProperties ==
    ASSUME NEW s, WellFormed(s), NEW w \in Nat
    PROVE  /\ WellFormed(Written(s, w))
           /\ Written(s, w).log = Append(s.log, w)
           /\ Written(s, w).marks = s.marks
<1>0. /\ s.log \in Seq(Nat) /\ s.marks \in Seq(Mark) /\ Len(s.log) \in Nat
      /\ DOMAIN s.marks = 1 .. Len(s.marks)
      /\ \A i \in DOMAIN s.marks : s.marks[i].at \in Nat
  BY SessionParts
<1>1. /\ Written(s, w).log = Append(s.log, w)
      /\ Written(s, w).marks = s.marks
      /\ Written(s, w) \in Session
  BY <1>0 DEF Written, Session
<1>2. Len(Append(s.log, w)) = Len(s.log) + 1
  BY <1>0
<1>3. \A i \in DOMAIN s.marks : s.marks[i].at <= Len(s.log) + 1
  BY <1>0 DEF WellFormed
<1>4. \A i, j \in DOMAIN s.marks : i < j => s.marks[i].at <= s.marks[j].at
  BY DEF WellFormed
<1>5. \A i \in DOMAIN s.marks : s.marks[i].at <= Len(Written(s, w).log)
  BY <1>1, <1>2, <1>3
<1>. QED
  BY <1>1, <1>4, <1>5 DEF WellFormed

(* SAVEPOINT adds the last savepoint, at the end of the log, and leaves     *)
(* every earlier one where it is, with its name unless it is replaced.      *)
LEMMA MarkedProperties ==
    ASSUME NEW s, WellFormed(s), NEW n \in Nat, NEW replaces \in BOOLEAN
    PROVE  LET m == Marked(s, n, replaces).marks
               last == Len(s.marks) + 1
           IN  /\ WellFormed(Marked(s, n, replaces))
               /\ Marked(s, n, replaces).log = s.log
               /\ DOMAIN m = 1 .. last
               /\ m[last] = [name |-> n, at |-> Len(s.log)]
               /\ \A i \in DOMAIN s.marks :
                     /\ i \in DOMAIN m
                     /\ m[i].at = s.marks[i].at
                     /\ m[i].name = s.marks[i].name \/ (s.marks[i].name = n /\ m[i].name = Replaced)
<1> DEFINE hidden(e) == replaces /\ e.name = n
           kept == [j \in DOMAIN s.marks |->
                       [name |-> IF hidden(s.marks[j]) THEN Replaced ELSE s.marks[j].name,
                        at   |-> s.marks[j].at]]
           new  == [name |-> n, at |-> Len(s.log)]
           t    == Marked(s, n, replaces)
<1>1. /\ s.log \in Seq(Nat) /\ s.marks \in Seq(Mark)
      /\ Len(s.log) \in Nat /\ Len(s.marks) \in Nat
      /\ DOMAIN s.marks = 1 .. Len(s.marks)
  BY SessionParts
<1>2. ASSUME NEW i \in DOMAIN s.marks
      PROVE  /\ kept[i] \in Mark
             /\ kept[i].at = s.marks[i].at
             /\ \/ kept[i].name = s.marks[i].name
                \/ s.marks[i].name = n /\ kept[i].name = Replaced
  <2>1. s.marks[i] \in Mark
    BY SessionParts
  <2>2. kept[i] = [name |-> IF hidden(s.marks[i]) THEN Replaced ELSE s.marks[i].name,
                   at   |-> s.marks[i].at]
    OBVIOUS
  <2>. QED
    BY <2>1, <2>2 DEF Mark, Replaced
<1>3. /\ kept \in Seq(Mark) /\ Len(kept) = Len(s.marks)
      /\ DOMAIN kept = 1 .. Len(s.marks)
  <2>1. kept \in [1 .. Len(s.marks) -> Mark]
    BY <1>1, <1>2
  <2>. HIDE DEF kept
  <2>2. Len(s.marks) \in Nat
    BY <1>1
  <2>. QED
    BY <2>1, <2>2, FunctionIsSeq
<1>4. new \in Mark
  BY <1>1 DEF Mark
<1>5. t.log = s.log /\ t.marks = Append(kept, new) /\ t \in Session
  <2>1. t = [log |-> s.log, marks |-> Append(kept, new)]
    BY DEF Marked
  <2>. HIDE DEF kept, new, t
  <2>2. Append(kept, new) \in Seq(Mark)
    BY <1>3, <1>4
  <2>. QED
    BY <1>1, <2>1, <2>2 DEF Session
<1>6. /\ DOMAIN t.marks = 1 .. Len(s.marks) + 1
      /\ t.marks[Len(s.marks) + 1] = new
      /\ \A i \in 1 .. Len(s.marks) : t.marks[i] = kept[i]
  <2>. HIDE DEF kept, new, t
  <2>. QED
    BY <1>1, <1>3, <1>4, <1>5
<1>7. \A i \in DOMAIN s.marks : i \in DOMAIN t.marks /\ t.marks[i].at = s.marks[i].at
  <2>. HIDE DEF kept, new, t
  <2>. QED
    BY <1>1, <1>2, <1>6
<1>8. WellFormed(t)
  <2>. HIDE DEF kept, t
  <2>1. \A i \in 1 .. Len(s.marks) :
           t.marks[i].at = s.marks[i].at /\ s.marks[i].at \in 0 .. Len(s.log)
    BY <1>1, <1>7, SessionParts
  <2>2. t.marks[Len(s.marks) + 1].at = Len(s.log)
    BY <1>6
  <2>3. \A i, j \in DOMAIN s.marks : i < j => s.marks[i].at <= s.marks[j].at
    BY DEF WellFormed
  <2>4. t.log = s.log /\ t \in Session
    BY <1>5
  <2>5. \A i \in 1 .. Len(s.marks) + 1 : i \in 1 .. Len(s.marks) \/ i = Len(s.marks) + 1
    BY <1>1
  <2>6. \A i \in DOMAIN t.marks : t.marks[i].at <= Len(t.log)
    BY <1>1, <1>6, <2>1, <2>2, <2>4, <2>5
  <2>7. ASSUME NEW i \in DOMAIN t.marks, NEW j \in DOMAIN t.marks, i < j
        PROVE  t.marks[i].at <= t.marks[j].at
    <3>1. i \in 1 .. Len(s.marks)
      BY <1>1, <1>6, <2>7
    <3>2. CASE j \in 1 .. Len(s.marks)
      BY <1>1, <2>1, <2>3, <2>7, <3>1, <3>2
    <3>3. CASE j = Len(s.marks) + 1
      BY <1>1, <2>1, <2>2, <3>1, <3>3
    <3>. QED
      BY <1>6, <2>5, <3>2, <3>3
  <2>. QED
    BY <2>4, <2>6, <2>7 DEF WellFormed
<1>9. \A i \in DOMAIN s.marks :
         \/ t.marks[i].name = s.marks[i].name
         \/ s.marks[i].name = n /\ t.marks[i].name = Replaced
  <2>. HIDE DEF kept, new, t
  <2>. QED
    BY <1>1, <1>2, <1>6
<1>. HIDE DEF kept
<1>. QED
  BY <1>1, <1>5, <1>6, <1>7, <1>8, <1>9

(* RELEASE keeps the log and the savepoints before the one released. *)
LEMMA ReleasedProperties ==
    ASSUME NEW s, WellFormed(s), NEW i \in DOMAIN s.marks
    PROVE  /\ WellFormed(Released(s, i))
           /\ Released(s, i).log = s.log
           /\ DOMAIN Released(s, i).marks = 1 .. (i - 1)
           /\ \A j \in 1 .. (i - 1) : j \in DOMAIN s.marks /\ Released(s, i).marks[j] = s.marks[j]
<1>1. /\ s.marks \in Seq(Mark) /\ DOMAIN s.marks = 1 .. Len(s.marks)
      /\ Len(s.marks) \in Nat
  BY SessionParts
<1>2. i - 1 \in 0 .. Len(s.marks)
  BY <1>1
<1>3. /\ Upto(s.marks, i - 1) \in Seq(Mark)
      /\ DOMAIN Upto(s.marks, i - 1) = 1 .. (i - 1)
      /\ \A j \in 1 .. (i - 1) : Upto(s.marks, i - 1)[j] = s.marks[j]
  BY <1>2, MarksUpto
<1>4. /\ Released(s, i).log = s.log
      /\ Released(s, i).marks = Upto(s.marks, i - 1)
      /\ Released(s, i) \in Session
  BY <1>3 DEF Released, WellFormed, Session
<1>5. \A j \in 1 .. (i - 1) : j \in DOMAIN s.marks
  BY <1>1
<1>. QED
  BY <1>3, <1>4, <1>5 DEF WellFormed

(* ROLLBACK TO keeps the savepoints up to the one named, and the log as it  *)
(* was when that one was set.                                               *)
LEMMA RolledBackToProperties ==
    ASSUME NEW s, WellFormed(s), NEW i \in DOMAIN s.marks
    PROVE  LET r == RolledBackTo(s, i)
           IN  /\ WellFormed(r)
               /\ s.marks[i].at \in 0 .. Len(s.log)
               /\ Len(r.log) = s.marks[i].at
               /\ DOMAIN r.log = 1 .. s.marks[i].at
               /\ \A j \in 1 .. s.marks[i].at : r.log[j] = s.log[j]
               /\ DOMAIN r.marks = 1 .. i
               /\ \A j \in 1 .. i : j \in DOMAIN s.marks /\ r.marks[j] = s.marks[j]
<1>1. /\ s.marks \in Seq(Mark) /\ DOMAIN s.marks = 1 .. Len(s.marks)
      /\ Len(s.marks) \in Nat /\ s.log \in Seq(Nat) /\ Len(s.log) \in Nat
  BY SessionParts
<1>2. s.marks[i].at \in 0 .. Len(s.log) /\ i \in 0 .. Len(s.marks)
  BY <1>1, SessionParts
<1>3. /\ Upto(s.marks, i) \in Seq(Mark)
      /\ DOMAIN Upto(s.marks, i) = 1 .. i
      /\ \A j \in 1 .. i : Upto(s.marks, i)[j] = s.marks[j]
  BY <1>2, MarksUpto
<1>4. /\ Upto(s.log, s.marks[i].at) \in Seq(Nat)
      /\ Len(Upto(s.log, s.marks[i].at)) = s.marks[i].at
      /\ DOMAIN Upto(s.log, s.marks[i].at) = 1 .. s.marks[i].at
      /\ \A j \in 1 .. s.marks[i].at : Upto(s.log, s.marks[i].at)[j] = s.log[j]
  BY <1>1, <1>2, UptoProperties
<1>5. /\ RolledBackTo(s, i).log = Upto(s.log, s.marks[i].at)
      /\ RolledBackTo(s, i).marks = Upto(s.marks, i)
      /\ RolledBackTo(s, i) \in Session
  BY <1>3, <1>4 DEF RolledBackTo, Session
<1>6. \A j \in 1 .. i : j \in DOMAIN s.marks /\ s.marks[j].at <= s.marks[i].at
  BY <1>1, <1>2 DEF WellFormed
<1>7. WellFormed(RolledBackTo(s, i))
  BY <1>3, <1>4, <1>5, <1>6 DEF WellFormed
<1>. QED
  BY <1>2, <1>3, <1>4, <1>5, <1>6, <1>7
-----------------------------------------------------------------------------
(* A name means at most one savepoint. *)
LEMMA LatestUnique ==
    ASSUME NEW s, WellFormed(s), NEW n, NEW p, NEW q, Latest(s, n, p), Latest(s, n, q)
    PROVE  p = q
<1>1. p \in 1 .. Len(s.marks) /\ q \in 1 .. Len(s.marks) /\ Len(s.marks) \in Nat
  BY SessionParts DEF Latest
<1>2. p \in DOMAIN s.marks /\ q \in DOMAIN s.marks /\ s.marks[p].name = n /\ s.marks[q].name = n
  BY DEF Latest
<1>3. ~(p > q) /\ ~(q > p)
  BY <1>2 DEF Latest
<1>. QED
  BY <1>1, <1>3

(* Cutting the savepoints after the one a name means does not change what   *)
(* the name means.                                                          *)
LEMMA LatestCut ==
    ASSUME NEW s, WellFormed(s), NEW t, WellFormed(t),
           NEW c \in Int, DOMAIN t.marks = 1 .. c,
           \A j \in 1 .. c : j \in DOMAIN s.marks /\ t.marks[j] = s.marks[j],
           NEW n, NEW p, Latest(s, n, p), p <= c
    PROVE  Latest(t, n, p) /\ \A q : Latest(t, n, q) => q = p
<1>1. p \in 1 .. c
  BY SessionParts DEF Latest
<1>2. t.marks[p].name = n
  BY <1>1 DEF Latest
<1>3. \A j \in DOMAIN t.marks : j > p => t.marks[j].name # n
  BY DEF Latest
<1>4. Latest(t, n, p)
  BY <1>1, <1>2, <1>3 DEF Latest
<1>. QED
  BY <1>4, LatestUnique

(* After SAVEPOINT n, n means the new savepoint and every other name means  *)
(* what it meant.                                                           *)
LEMMA LatestMarked ==
    ASSUME NEW s, WellFormed(s), NEW n \in Nat, NEW replaces \in BOOLEAN,
           NEW t, t = Marked(s, n, replaces)
    PROVE  /\ Latest(t, n, Len(s.marks) + 1)
           /\ \A q : Latest(t, n, q) => q = Len(s.marks) + 1
           /\ \A m \in Nat \ {n} : \A q : Latest(t, m, q) <=> Latest(s, m, q)
<1> DEFINE last == Len(s.marks) + 1
<1>1. /\ WellFormed(t) /\ DOMAIN t.marks = 1 .. last
      /\ t.marks[last] = [name |-> n, at |-> Len(s.log)]
      /\ \A i \in DOMAIN s.marks :
            t.marks[i].name = s.marks[i].name \/ (s.marks[i].name = n /\ t.marks[i].name = Replaced)
  BY MarkedProperties
<1>2. last \in Nat \ {0} /\ DOMAIN s.marks = 1 .. (last - 1)
  BY SessionParts
<1>. HIDE DEF last
<1>3. Latest(t, n, last)
  BY <1>1, <1>2 DEF Latest
<1>4. ASSUME NEW m \in Nat \ {n}
      PROVE  \A q : Latest(t, m, q) <=> Latest(s, m, q)
  <2>1. t.marks[last].name # m
    BY <1>1, <1>4
  <2>2. \A i \in DOMAIN s.marks : t.marks[i].name = m <=> s.marks[i].name = m
    BY <1>1, <1>4 DEF Replaced
  <2>3. DOMAIN t.marks = DOMAIN s.marks \cup {last}
    BY <1>1, <1>2
  <2>. QED
    BY <2>1, <2>2, <2>3 DEF Latest
<1>. QED
  BY <1>1, <1>3, <1>4, LatestUnique DEF last
-----------------------------------------------------------------------------
(* A statement about savepoints leaves a well-formed session. *)
LEMMA SavepointStatements ==
    ASSUME TypeOK, NEW n \in Nat
    PROVE  /\ \A s \in SAVEPOINT(n)  : WellFormed(s)
           /\ \A s \in RELEASE(n)    : WellFormed(s)
           /\ \A s \in ROLLBACKTO(n) : WellFormed(s)
<1>1. WellFormed(session)
  BY DEF TypeOK
<1>2. \A s \in SAVEPOINT(n) : WellFormed(s)
  <2>1. \A replaces \in BOOLEAN : WellFormed(Marked(session, n, replaces))
    BY <1>1, MarkedProperties
  <2>2. (dialect \in Replacing) \in BOOLEAN
    OBVIOUS
  <2>. QED
    BY <2>1, <2>2 DEF SAVEPOINT
<1>3. \A s \in RELEASE(n) : WellFormed(s)
  BY <1>1, ReleasedProperties DEF RELEASE, Named
<1>4. \A s \in ROLLBACKTO(n) : WellFormed(s)
  BY <1>1, RolledBackToProperties DEF ROLLBACKTO, Named
<1>. QED
  BY <1>2, <1>3, <1>4

(* Ending the transaction in database/sql. *)
LEMMA SqlEndTypes ==
    ASSUME TypeOK, NEW err \in BOOLEAN, SqlCommit(err) \/ SqlRollback(err)
    PROVE  sqlTx' = "done" /\ WellFormed(session') /\ durable' \in Seq(Nat)
<1>1. session.log \in Seq(Nat) /\ durable \in Seq(Nat)
  BY SessionParts DEF TypeOK
<1>. QED
  BY <1>1, EmptyWellFormed DEF SqlCommit, SqlRollback, SqlEnd

(* Commit and Rollback lower the level by one when there is one and end the *)
(* transaction when there is none; rollbackFully always ends it.            *)
LEMMA EndTypes ==
    ASSUME TypeOK, ClosedMeansDone, NEW err \in BOOLEAN,
           Commit(err) \/ Rollback(err) \/ rollbackFully(err)
    PROVE  /\ dialect' = dialect
           /\ depth' \in Nat /\ depth' <= depth /\ (depth > 0 => depth' < depth)
           /\ closed' \in BOOLEAN
           /\ sqlTx' \in {sqlTx, "done"}
           /\ depth = 0 => sqlTx' = "done"
           /\ rollbackFully(err) => sqlTx' = "done"
           /\ closed' => sqlTx' = "done"
           /\ WellFormed(session') /\ durable' \in Seq(Nat)
           /\ unanswered' \in BOOLEAN
<1>. depth \in Nat /\ closed \in BOOLEAN /\ unanswered \in BOOLEAN /\ WellFormed(session)
  BY DEF TypeOK
<1>1. unanswered' \in BOOLEAN /\ dialect' = dialect
  BY DEF Commit, Rollback, rollbackFully, Noted
<1>2. CASE depth > 0 /\ (Commit(err) \/ Rollback(err))
  <2>1. /\ depth' = depth - 1 /\ closed' = closed /\ sqlTx' = sqlTx /\ durable' = durable
        /\ \/ session' \in RELEASE(depth - 1)
           \/ session' \in ROLLBACKTO(depth - 1)
           \/ session' = session
    BY <1>2 DEF Commit, Rollback, SavepointExec, savepointName
  <2>2. depth - 1 \in Nat
    BY <1>2
  <2>3. WellFormed(session')
    BY <2>1, <2>2, SavepointStatements
  <2>4. ~rollbackFully(err) \/ sqlTx' = "done"
    BY DEF rollbackFully, SqlRollback, SqlEnd
  <2>. QED
    BY <1>1, <1>2, <2>1, <2>2, <2>3, <2>4 DEF TypeOK, ClosedMeansDone
<1>3. CASE ~(depth > 0 /\ (Commit(err) \/ Rollback(err)))
  <2>1. /\ SqlCommit(err) \/ SqlRollback(err)
        /\ closed' = (closed \/ ~err)
        /\ depth' = 0
    BY <1>3 DEF Commit, Rollback, rollbackFully
  <2>2. sqlTx' = "done" /\ WellFormed(session') /\ durable' \in Seq(Nat)
    BY <2>1, SqlEndTypes
  <2>. QED
    BY <1>1, <1>3, <2>1, <2>2
<1>. QED
  BY <1>2, <1>3

(* The stack of calls grows by one call, or loses the top one. *)
LEMMA EnterTypes ==
    ASSUME TypeOK, Enter
    PROVE  /\ frames' \in Seq(Frame) /\ Len(frames') = Len(frames) + 1 /\ frames' # <<>>
           /\ frames'[Len(frames) + 1] = [id |-> calls + 1, base |-> Len(session.log)]
           /\ \A k \in 1 .. Len(frames) : frames'[k] = frames[k]
           /\ DOMAIN frames' = 1 .. Len(frames) + 1
           /\ calls' = calls + 1 /\ calls' \in Nat
           /\ ctl' = "fn" /\ result' = result /\ failed' = failed /\ unanswered' = unanswered
<1>1. Len(session.log) \in Nat /\ calls \in Nat /\ frames \in Seq(Frame)
  BY SessionParts DEF TypeOK
<1>2. [id |-> calls + 1, base |-> Len(session.log)] \in Frame
  BY <1>1 DEF Frame
<1>3. frames' = Append(frames, [id |-> calls + 1, base |-> Len(session.log)])
  BY DEF Enter
<1>. QED
  BY <1>1, <1>2, <1>3 DEF Enter

(* The call on top of the stack. *)
LEMMA TopType ==
    ASSUME TypeOK, frames # <<>>
    PROVE  /\ Len(frames) \in 1 .. Len(frames)
           /\ Top \in Frame /\ Top.id \in Nat /\ Top.base \in Nat
<1>1. frames \in Seq(Frame) /\ Len(frames) \in 1 .. Len(frames)
  BY EmptySeq DEF TypeOK
<1>2. Top \in Frame
  BY <1>1, ElementOfSeq DEF Top
<1>. QED
  BY <1>1, <1>2 DEF Frame

(* A stack that holds a call and no inner one. *)
LEMMA OneCall ==
    ASSUME TypeOK, frames # <<>>, ~(Len(frames) > 1)
    PROVE  Len(frames) = 1
<1>1. Len(frames) \in Nat \ {0}
  BY EmptySeq DEF TypeOK
<1>2. \A n \in Nat \ {0} : ~(n > 1) => n = 1
  OBVIOUS
<1>. QED
  BY <1>1, <1>2

(* The types after a call has returned. *)
LEMMA LeaveTypes ==
    ASSUME TypeOK, frames # <<>>, NEW err \in BOOLEAN, NEW resume \in {"fn", "panic"},
           Leave(err, resume)
    PROVE  /\ frames' \in Seq(Frame) /\ Len(frames') = Len(frames) - 1
           /\ DOMAIN frames' = 1 .. (Len(frames) - 1)
           /\ \A k \in 1 .. (Len(frames) - 1) : frames'[k] = frames[k]
           /\ Len(frames) = 1 => ctl' = "returned" /\ frames' = <<>>
           /\ Len(frames) # 1 => ctl' = resume /\ frames' # <<>>
           /\ result' \in {"nil", "err"}
           /\ failed' \subseteq Nat
           /\ calls' = calls
<1>1. frames \in Seq(Frame) /\ Len(frames) \in Nat /\ Len(frames) > 0 /\ calls \in Nat
  BY EmptySeq DEF TypeOK
<1>2. Len(frames) - 1 \in 0 .. Len(frames)
  BY <1>1
<1>3. frames' = Upto(frames, Len(frames) - 1)
  BY DEF Leave
<1>4. /\ frames' \in Seq(Frame) /\ Len(frames') = Len(frames) - 1
      /\ DOMAIN frames' = 1 .. (Len(frames) - 1)
      /\ \A k \in 1 .. (Len(frames) - 1) : frames'[k] = frames[k]
  BY <1>1, <1>2, <1>3, UptoProperties
<1>5. Top.id \in Nat
  BY <1>1, TopType
<1>6. failed' \subseteq Nat
  <2>1. failed \subseteq Nat
    BY DEF TypeOK
  <2>2. Top.id .. calls \subseteq Nat
    BY <1>1, <1>5
  <2>. QED
    BY <2>1, <2>2 DEF Leave
<1>7. Len(frames) = 1 => frames' = <<>>
  BY <1>4
<1>8. Len(frames) # 1 => frames' # <<>>
  BY <1>1, <1>4
<1>. QED
  BY <1>4, <1>6, <1>7, <1>8 DEF Leave
-----------------------------------------------------------------------------
(* SafeInv holds at first. *)
LEMMA InitSafe == Init => SafeInv
<1>. SUFFICES ASSUME Init PROVE SafeInv
  OBVIOUS
<1>1. WellFormed(session)
  BY EmptyWellFormed DEF Init
<1>2. TypeOK
  <2>1. durable \in Seq(Nat) /\ frames \in Seq(Frame)
    BY EmptySeq DEF Init
  <2>2. closed \in BOOLEAN /\ unanswered \in BOOLEAN
    BY Zenon DEF Init
  <2>3. /\ dialect \in Dialects /\ depth \in Nat /\ sqlTx = "none" /\ ctl = "idle"
        /\ result = "none" /\ calls \in Nat /\ failed = {}
    BY DEF Init
  <2>. QED
    BY <1>1, <2>1, <2>2, <2>3 DEF TypeOK
<1>3. Phase /\ LevelWithinNesting /\ ReturnedReleases /\ ClosedMeansDone
  BY DEF Init, Phase, LevelWithinNesting, ReturnedReleases, ClosedMeansDone
<1>. QED
  BY <1>2, <1>3 DEF SafeInv

(* Every step keeps SafeInv. *)
LEMMA NextSafe == SafeInv /\ [Next]_vars => SafeInv'
<1>. SUFFICES ASSUME SafeInv, [Next]_vars
              PROVE  SafeInv'
  OBVIOUS
<1>. TypeOK /\ Phase /\ LevelWithinNesting /\ ReturnedReleases /\ ClosedMeansDone
  BY DEF SafeInv
<1>. USE DEF SafeInv
<1>a. /\ frames \in Seq(Frame) /\ Len(frames) \in Nat
      /\ depth \in Nat /\ calls \in Nat
      /\ frames # <<>> => Len(frames) > 0
  BY EmptySeq DEF TypeOK
<1>1. CASE runNew
  <2>1. Enter /\ ctl = "idle" /\ sqlTx' = "active"
        /\ UNCHANGED <<dialect, depth, closed, session, durable>>
    BY <1>1 DEF runNew, db
  <2>2. depth = 0 /\ sqlTx = "none" /\ Len(frames) = 0
    BY <2>1 DEF Phase
  <2>3. /\ frames' \in Seq(Frame) /\ Len(frames') = 1 /\ frames' # <<>>
        /\ calls' \in Nat
        /\ ctl' = "fn" /\ result' = result /\ failed' = failed /\ unanswered' = unanswered
    BY <2>1, <2>2, EnterTypes
  <2>4. TypeOK'
    BY <2>1, <2>3 DEF TypeOK
  <2>5. Phase' /\ LevelWithinNesting' /\ ReturnedReleases' /\ ClosedMeansDone'
    BY <2>1, <2>2, <2>3 DEF Phase, LevelWithinNesting, ReturnedReleases, ClosedMeansDone
  <2>. QED
    BY <2>4, <2>5
<1>2. CASE BeginTxFails
  BY <1>2 DEF BeginTxFails, tx, db, hist,
              TypeOK, Phase, LevelWithinNesting, ReturnedReleases, ClosedMeansDone
<1>3. CASE Transaction
  <2>1. /\ Enter /\ ctl = "fn" /\ depth' = depth + 1
        /\ session' \in SAVEPOINT(depth)
        /\ UNCHANGED <<dialect, closed, sqlTx, durable>>
    BY <1>3 DEF Transaction, SavepointExec, savepointName
  <2>2. WellFormed(session')
    BY <1>a, <2>1, SavepointStatements
  <2>3. depth < Len(frames)
    BY <2>1 DEF Phase, LevelWithinNesting
  <2>4. /\ frames' \in Seq(Frame) /\ Len(frames') = Len(frames) + 1 /\ frames' # <<>>
        /\ calls' \in Nat
        /\ ctl' = "fn" /\ result' = result /\ failed' = failed /\ unanswered' = unanswered
    BY <2>1, EnterTypes
  <2>5. TypeOK'
    BY <1>a, <2>1, <2>2, <2>4 DEF TypeOK
  <2>6. Phase' /\ LevelWithinNesting' /\ ReturnedReleases' /\ ClosedMeansDone'
    BY <1>a, <2>1, <2>3, <2>4 DEF Phase, LevelWithinNesting, ReturnedReleases, ClosedMeansDone
  <2>. QED
    BY <2>5, <2>6
<1>4. ASSUME NEW err \in BOOLEAN, NEW rb \in BOOLEAN, NEW resume \in {"fn", "panic"},
             frames # <<>>,
             \/ Commit(rb) \/ Rollback(rb)
             \/ rollbackFully(rb) /\ Len(frames) = 1,
             Leave(err, resume)
      PROVE  SafeInv'
  <2>1. depth < Len(frames)
    BY <1>4 DEF LevelWithinNesting
  <2>2. /\ dialect' = dialect
        /\ depth' \in Nat /\ depth' <= depth /\ (depth > 0 => depth' < depth)
        /\ closed' \in BOOLEAN
        /\ sqlTx' \in {sqlTx, "done"}
        /\ depth = 0 => sqlTx' = "done"
        /\ closed' => sqlTx' = "done"
        /\ WellFormed(session') /\ durable' \in Seq(Nat)
        /\ unanswered' \in BOOLEAN
    BY <1>4, EndTypes
  <2>3. /\ frames' \in Seq(Frame) /\ Len(frames') = Len(frames) - 1
        /\ Len(frames) = 1 => ctl' = "returned" /\ frames' = <<>>
        /\ Len(frames) # 1 => ctl' = resume /\ frames' # <<>>
        /\ result' \in {"nil", "err"}
        /\ failed' \subseteq Nat
        /\ calls' = calls
    BY <1>4, LeaveTypes
  <2>4. frames' # <<>> => depth' < Len(frames')
    BY <1>a, <2>1, <2>2, <2>3
  <2>5. ctl' = "returned" => sqlTx' = "done"
    BY <1>4, <1>a, <2>1, <2>2, <2>3
  <2>. QED
    BY <1>4, <2>2, <2>3, <2>4, <2>5
       DEF TypeOK, Phase, LevelWithinNesting, ReturnedReleases, ClosedMeansDone
<1>5. CASE FnReturns
  <2>1. frames # <<>>
    BY <1>5 DEF FnReturns, Phase
  <2>2. PICK fnErr \in BOOLEAN, err \in BOOLEAN : finishTx(fnErr, err) /\ Leave(err, "fn")
    BY <1>5 DEF FnReturns
  <2>3. \E rb \in BOOLEAN : Commit(rb) \/ Rollback(rb)
    BY <2>2 DEF finishTx
  <2>. QED
    BY <1>4, <2>1, <2>2, <2>3
<1>6. CASE Unwind
  <2>1. frames # <<>>
    BY <1>6 DEF Unwind, Phase
  <2>2. PICK rb \in BOOLEAN : IF Len(frames) > 1 THEN Rollback(rb) ELSE rollbackFully(rb)
    BY <1>6 DEF Unwind
  <2>4. Leave(TRUE, "panic")
    BY <1>6 DEF Unwind
  <2>3. CASE Len(frames) > 1
    <3>1. Rollback(rb)
      BY <2>2, <2>3
    <3>. QED
      BY <1>4, <2>1, <2>4, <3>1
  <2>5. CASE ~(Len(frames) > 1)
    <3>1. rollbackFully(rb)
      BY <2>2, <2>5
    <3>2. Len(frames) = 1
      BY <2>1, <2>5, OneCall
    <3>. QED
      BY <1>4, <2>1, <2>4, <3>1, <3>2
  <2>. QED
    BY <2>3, <2>5
<1>7. CASE FnPanics \/ FnRecovers
  <2>1. /\ ctl \in {"fn", "panic"} /\ ctl' \in {"fn", "panic"}
        /\ UNCHANGED <<dialect, depth, closed, sqlTx, session, durable, frames, result,
                       calls, failed, unanswered>>
    BY <1>7 DEF FnPanics, FnRecovers, tx, db, hist
  <2>2. TypeOK'
    BY <2>1 DEF TypeOK
  <2>. QED
    BY <2>1, <2>2 DEF Phase, LevelWithinNesting, ReturnedReleases, ClosedMeansDone
<1>8. CASE Exec
  <2>1. Top.id \in Nat
    BY <1>8, TopType DEF Exec, Phase
  <2>2. WellFormed(session')
    BY <1>8, <2>1, WrittenProperties DEF Exec, TypeOK
  <2>. QED
    BY <1>8, <2>2 DEF Exec, tx, hist,
                      TypeOK, Phase, LevelWithinNesting, ReturnedReleases, ClosedMeansDone
<1>9. ASSUME NEW n \in UserNames, SavePoint(n) \/ RollbackTo(n)
      PROVE  SafeInv'
  <2>1. n \in Nat
    BY TxAssumption
  <2>2. WellFormed(session')
    BY <1>9, <2>1, SavepointStatements DEF SavePoint, RollbackTo, SavepointExec
  <2>3. UNCHANGED <<dialect, depth, closed, sqlTx, durable, frames, ctl, result,
                    calls, failed, unanswered>>
    BY <1>9 DEF SavePoint, RollbackTo, tx, hist
  <2>4. TypeOK'
    BY <2>2, <2>3 DEF TypeOK
  <2>. QED
    BY <2>3, <2>4 DEF Phase, LevelWithinNesting, ReturnedReleases, ClosedMeansDone
<1>10. CASE ManualEnd
  <2>1. PICK err \in BOOLEAN : Commit(err) \/ Rollback(err)
    BY <1>10 DEF ManualEnd
  <2>2. ctl = "fn" /\ UNCHANGED <<frames, ctl, result, calls, failed>>
    BY <1>10 DEF ManualEnd
  <2>. QED
    BY <1>a, <2>1, <2>2, EndTypes
       DEF TypeOK, Phase, LevelWithinNesting, ReturnedReleases, ClosedMeansDone
<1>11. CASE CtxDone
  BY <1>11, EmptyWellFormed
     DEF CtxDone, hist, TypeOK, Phase, LevelWithinNesting, ReturnedReleases, ClosedMeansDone
<1>12. CASE UNCHANGED vars
  BY <1>12 DEF vars, tx, db, hist,
               TypeOK, Phase, LevelWithinNesting, ReturnedReleases, ClosedMeansDone
<1>. QED
  BY <1>1, <1>2, <1>3, <1>5, <1>6, <1>7, <1>8, <1>9, <1>10, <1>11, <1>12 DEF Next, Terminated

(* The types hold, the log and the savepoints of the session included. *)
THEOREM TypesHold == Spec => []TypeOK
<1>1. SafeInv => TypeOK
  BY DEF SafeInv
<1>. QED
  BY <1>1, InitSafe, NextSafe, PTL DEF Spec

(* Whatever the callbacks do to the Tx they are given and whichever         *)
(* statements the database refuses or leaves unanswered, a runNew that has  *)
(* returned has ended its transaction (db/tx.go:117-134).                   *)
THEOREM ConnectionGivenBack == Spec => []ReturnedReleases
<1>1. SafeInv => ReturnedReleases
  BY DEF SafeInv
<1>. QED
  BY <1>1, InitSafe, NextSafe, PTL DEF Spec

(* A closed Tx has no transaction behind it, under the same freedom. *)
THEOREM ClosedIsOver == Spec => []ClosedMeansDone
<1>1. SafeInv => ClosedMeansDone
  BY DEF SafeInv
<1>. QED
  BY <1>1, InitSafe, NextSafe, PTL DEF Spec

(* The level stays below the number of calls under way, so the outermost    *)
(* call ends the transaction and not a savepoint (db/tx.go:164-192).        *)
THEOREM LevelIsBounded == Spec => []LevelWithinNesting
<1>1. SafeInv => LevelWithinNesting
  BY DEF SafeInv
<1>. QED
  BY <1>1, InitSafe, NextSafe, PTL DEF Spec

-----------------------------------------------------------------------------
(***************************************************************************)
(* Nesting: levels and savepoints delimit the work of each call when       *)
(* callbacks are disciplined, in every dialect and under every fault.      *)
(***************************************************************************)

Inv == SafeInv /\ NestInv

(* What the invariants say, one fact per line, for the proofs below. *)
LEMMA InvParts ==
    ASSUME Inv, Disciplined
    PROVE  /\ TypeOK /\ Phase /\ LevelWithinNesting /\ ReturnedReleases /\ ClosedMeansDone
           /\ SafeInv /\ LevelIsNesting /\ SavepointOfCall /\ NoFailedWork
           /\ StackOrder /\ LogByCall /\ MarksByCall /\ NothingYet
           /\ frames \in Seq(Frame) /\ Len(frames) \in Nat /\ DOMAIN frames = 1 .. Len(frames)
           /\ \A k \in 1 .. Len(frames) : frames[k].id \in Nat /\ frames[k].base \in Nat
           /\ frames # <<>> => depth = Len(frames) - 1
           /\ depth \in Nat /\ calls \in Nat /\ failed \subseteq Nat
           /\ WellFormed(session) /\ Len(session.log) \in Nat
           /\ DOMAIN session.log = 1 .. Len(session.log)
           /\ \A i \in DOMAIN session.log : session.log[i] \in Nat
<1>1. /\ TypeOK /\ Phase /\ LevelWithinNesting /\ ReturnedReleases /\ ClosedMeansDone
      /\ SafeInv /\ LevelIsNesting /\ SavepointOfCall /\ NoFailedWork
      /\ StackOrder /\ LogByCall /\ MarksByCall /\ NothingYet
  BY DEF Inv, SafeInv, NestInv
<1>2. /\ frames \in Seq(Frame) /\ depth \in Nat /\ calls \in Nat /\ failed \subseteq Nat
      /\ WellFormed(session)
  BY <1>1 DEF TypeOK
<1>3. /\ Len(frames) \in Nat /\ DOMAIN frames = 1 .. Len(frames)
      /\ \A k \in 1 .. Len(frames) : frames[k] \in Frame
  BY <1>2, LenProperties, ElementOfSeq
<1>4. \A k \in 1 .. Len(frames) : frames[k].id \in Nat /\ frames[k].base \in Nat
  BY <1>3 DEF Frame
<1>5. frames # <<>> => depth = Len(frames) - 1
  BY <1>1, <1>2, <1>3 DEF LevelIsNesting
<1>6. /\ Len(session.log) \in Nat /\ DOMAIN session.log = 1 .. Len(session.log)
      /\ \A i \in DOMAIN session.log : session.log[i] \in Nat
  BY <1>2, SessionParts
<1>. QED
  BY <1>1, <1>2, <1>3, <1>4, <1>5, <1>6

(* Popping the top call keeps the order of the calls below it, none of      *)
(* which has failed by that.                                                *)
LEMMA LeaveKeepsOrder ==
    ASSUME Inv, Disciplined, frames # <<>>, NEW err \in BOOLEAN, NEW resume \in {"fn", "panic"},
           Leave(err, resume)
    PROVE  StackOrder'
<1>1. /\ frames \in Seq(Frame) /\ Len(frames) \in Nat /\ Len(frames) > 0 /\ calls \in Nat
      /\ \A k \in 1 .. Len(frames) : frames[k].id \in Nat /\ frames[k].base \in Nat
      /\ StackOrder /\ TypeOK
  BY InvParts, EmptySeq
<1>2. /\ Len(frames') = Len(frames) - 1
      /\ \A k \in 1 .. (Len(frames) - 1) : frames'[k] = frames[k]
      /\ calls' = calls /\ ctl' # "idle"
  BY <1>1, LeaveTypes
<1>3. failed' = failed \/ failed' = failed \cup (Top.id .. calls)
  BY DEF Leave
<1>4. Top.id \in 1 .. calls /\ Top.id = frames[Len(frames)].id
  BY <1>1 DEF Top, StackOrder
<1>5. \A k \in 1 .. (Len(frames) - 1) : frames[k].id \in (1 .. calls) \ failed /\ frames[k].id < Top.id
  BY <1>1, <1>4 DEF StackOrder
<1>6. failed' \subseteq 1 .. calls
  BY <1>1, <1>3, <1>4 DEF StackOrder
<1>7. \A k \in 1 .. Len(frames') : frames'[k].id \in (1 .. calls) \ failed'
  BY <1>1, <1>2, <1>3, <1>4, <1>5
<1>8. \A j, k \in 1 .. Len(frames') :
          j < k => frames'[j].id < frames'[k].id /\ frames'[j].base <= frames'[k].base
  <2>1. \A k \in 1 .. Len(frames') : k \in 1 .. Len(frames) /\ frames'[k] = frames[k]
    BY <1>1, <1>2
  <2>2. \A j, k \in 1 .. Len(frames) :
          j < k => frames[j].id < frames[k].id /\ frames[j].base <= frames[k].base
    BY <1>1 DEF StackOrder
  <2>. QED
    BY <2>1, <2>2
<1>9. Len(frames') <= calls' /\ calls' <= MaxCalls
  BY <1>1, <1>2, TxAssumption DEF StackOrder
<1>. QED
  BY <1>2, <1>6, <1>7, <1>8, <1>9 DEF StackOrder

(* The savepoint of the top inner call: the one its end names. *)
LEMMA TopMark ==
    ASSUME Inv, Disciplined, sqlTx = "active", Len(frames) > 1
    PROVE  \E i \in DOMAIN session.marks :
              /\ Named(depth - 1) = {i}
              /\ session.marks[i].at = Top.base
              /\ \A k \in 2 .. (Len(frames) - 1) : \A p \in Named(k - 2) : p < i
<1>1. /\ Len(frames) \in Nat /\ depth - 1 = Len(frames) - 2 /\ WellFormed(session)
      /\ SavepointOfCall /\ MarksByCall /\ frames # <<>>
  BY InvParts, EmptySeq
<1>2. Len(frames) \in 2 .. Len(frames)
  BY <1>1
<1>3. PICK i \in Named(depth - 1) : session.marks[i].at = Top.base
  BY <1>1, <1>2 DEF SavepointOfCall, Top
<1>4. i \in DOMAIN session.marks /\ Latest(session, depth - 1, i)
  BY <1>3 DEF Named
<1>5. Named(depth - 1) = {i}
  BY <1>1, <1>4, LatestUnique DEF Named
<1>6. \A k \in 2 .. (Len(frames) - 1) : \A p \in Named(k - 2) : p < i
  <2>1. \A k \in 2 .. (Len(frames) - 1) :
           \A p \in Named(k - 2), q \in Named(Len(frames) - 2) : p < q
    <3>1. \A k \in 2 .. (Len(frames) - 1) : k \in 2 .. Len(frames) /\ k < Len(frames)
      BY <1>1
    <3>. QED
      BY <1>1, <1>2, <3>1 DEF MarksByCall
  <2>. QED
    BY <1>1, <1>3, <2>1
<1>. QED
  BY <1>3, <1>4, <1>5, <1>6
-----------------------------------------------------------------------------
(* How an inner call leaves the session: as it is, without the savepoints   *)
(* from the call's own on, or as it was when the call began, the call's own *)
(* savepoint still standing.  It leaves it as it is without an answer that  *)
(* says so only when the transaction is over or the database refused.       *)
LEMMA InnerEndSession ==
    ASSUME Inv, Disciplined, Len(frames) > 1, NEW err \in BOOLEAN, NEW rb \in BOOLEAN,
           \/ Commit(rb) /\ err = rb
           \/ Rollback(rb) /\ err = TRUE
    PROVE  /\ depth' = depth - 1 /\ sqlTx' = sqlTx /\ durable' = durable
           /\ unanswered => unanswered'
           /\ \/ session' = session /\ (err => unanswered' \/ sqlTx # "active")
              \/ ~err /\ sqlTx = "active" /\ session' \in RELEASE(depth - 1)
              \/ sqlTx = "active" /\ session' \in ROLLBACKTO(depth - 1)
<1>1. depth > 0 /\ frames # <<>>
  BY InvParts, EmptySeq
<1>2. CASE Commit(rb) /\ err = rb
  <2>1. /\ depth' = depth - 1 /\ sqlTx' = sqlTx /\ durable' = durable
        /\ unanswered' = (unanswered \/ (rb /\ sqlTx = "active"))
    BY <1>1, <1>2 DEF Commit, Noted
  <2>2. \/ ~rb /\ session' = session
        \/ ~rb /\ sqlTx = "active" /\ session' \in RELEASE(depth - 1)
        \/ rb /\ session' = session
    BY <1>1, <1>2 DEF Commit, SavepointExec, savepointName
  <2>. QED
    BY <1>2, <2>1, <2>2
<1>3. CASE Rollback(rb) /\ err = TRUE
  <2>1. /\ depth' = depth - 1 /\ sqlTx' = sqlTx /\ durable' = durable
        /\ unanswered' = (unanswered \/ (rb /\ sqlTx = "active"))
    BY <1>1, <1>3 DEF Rollback, Noted
  <2>2. \/ sqlTx = "active" /\ session' \in ROLLBACKTO(depth - 1)
        \/ rb /\ session' = session
    BY <1>1, <1>3 DEF Rollback, SavepointExec, savepointName
  <2>. QED
    BY <1>3, <2>1, <2>2
<1>. QED
  BY <1>2, <1>3

(* Cutting the savepoints of an active transaction no lower than those of   *)
(* the first n calls leaves those calls their savepoints, in their order.   *)
LEMMA CutKeepsMarks ==
    ASSUME Inv, Disciplined, sqlTx = "active", NEW n \in 0 .. Len(frames),
           NEW t, WellFormed(t), NEW c \in Int, DOMAIN t.marks = 1 .. c,
           \A j \in 1 .. c : j \in DOMAIN session.marks /\ t.marks[j] = session.marks[j],
           \A k \in 2 .. n : \A p \in Named(k - 2) : p <= c
    PROVE  /\ \A k \in 2 .. n :
                 \E i \in DOMAIN t.marks : Latest(t, k - 2, i) /\ t.marks[i].at = frames[k].base
           /\ \A j, k \in 2 .. n : j < k =>
                 \A p, q : Latest(t, j - 2, p) /\ Latest(t, k - 2, q) => p < q
<1>1. WellFormed(session) /\ SavepointOfCall /\ MarksByCall /\ Len(frames) \in Nat
  BY InvParts
<1>2. ASSUME NEW k \in 2 .. n
      PROVE  \E p \in Named(k - 2) :
                /\ p \in DOMAIN t.marks /\ Latest(t, k - 2, p) /\ t.marks[p].at = frames[k].base
                /\ \A q : Latest(t, k - 2, q) => q = p
  <2>1. PICK p \in Named(k - 2) : session.marks[p].at = frames[k].base
    BY <1>1 DEF SavepointOfCall
  <2>2. Latest(session, k - 2, p) /\ p <= c
    BY <2>1 DEF Named
  <2>3. Latest(t, k - 2, p) /\ \A q : Latest(t, k - 2, q) => q = p
    BY <1>1, <2>2, LatestCut
  <2>4. p \in 1 .. c
    BY <2>3 DEF Latest
  <2>. QED
    BY <2>1, <2>3, <2>4
<1>3. ASSUME NEW j \in 2 .. n, NEW k \in 2 .. n, j < k, NEW p, NEW q,
             Latest(t, j - 2, p), Latest(t, k - 2, q)
      PROVE  p < q
  <2>1. p \in Named(j - 2) /\ q \in Named(k - 2)
    BY <1>2, <1>3
  <2>. QED
    BY <1>1, <1>3, <2>1 DEF MarksByCall
<1>. QED
  BY <1>2, <1>3

(* Savepoints are numbered from 1. *)
LEMMA NamedIsIndex ==
    ASSUME WellFormed(session)
    PROVE  /\ \A i \in DOMAIN session.marks : i \in Int
           /\ \A n : \A p \in Named(n) : p \in Int
<1>1. DOMAIN session.marks = 1 .. Len(session.marks) /\ Len(session.marks) \in Nat
  BY SessionParts
<1>. QED
  BY <1>1 DEF Named

(* The two invariants about savepoints in the next state, said of its       *)
(* session and stack.                                                       *)
LEMMA MarksAfter ==
    ASSUME NEW n \in Nat, Len(frames') = n,
           \A k \in 2 .. n :
              \E i : Latest(session', k - 2, i) /\ session'.marks[i].at = frames'[k].base,
           \A j, k \in 2 .. n : j < k =>
              \A p, q : Latest(session', j - 2, p) /\ Latest(session', k - 2, q) => p < q
    PROVE  SavepointOfCall' /\ MarksByCall'
<1>1. ASSUME NEW k \in 2 .. Len(frames')
      PROVE  \E i \in Named(k - 2)' : session'.marks[i].at = frames'[k].base
  <2>1. PICK i : Latest(session', k - 2, i) /\ session'.marks[i].at = frames'[k].base
    BY <1>1
  <2>2. i \in Named(k - 2)'
    BY <2>1 DEF Named, Latest
  <2>. QED
    BY <2>1, <2>2
<1>2. ASSUME NEW j \in 2 .. Len(frames'), NEW k \in 2 .. Len(frames'), j < k,
             NEW p \in Named(j - 2)', NEW q \in Named(k - 2)'
      PROVE  p < q
  <2>1. Latest(session', j - 2, p) /\ Latest(session', k - 2, q)
    BY DEF Named
  <2>. QED
    BY <1>2, <2>1
<1>3. SavepointOfCall'
  BY <1>1 DEF SavepointOfCall
<1>4. MarksByCall'
  BY <1>2 DEF MarksByCall
<1>. QED
  BY <1>3, <1>4

(* An inner call ends: by finishTx or by the unwinding of a panic. *)
LEMMA InnerEnd ==
    ASSUME Inv, Disciplined, Len(frames) > 1, NEW err \in BOOLEAN, NEW rb \in BOOLEAN,
           \/ Commit(rb) /\ err = rb
           \/ Rollback(rb) /\ err = TRUE,
           NEW resume \in {"fn", "panic"}, Leave(err, resume)
    PROVE  NestInv'
<1>1. /\ frames \in Seq(Frame) /\ Len(frames) \in Nat /\ frames # <<>> /\ TypeOK
      /\ depth = Len(frames) - 1 /\ calls \in Nat /\ failed \subseteq Nat
      /\ WellFormed(session) /\ StackOrder /\ LogByCall /\ MarksByCall
      /\ SavepointOfCall /\ NoFailedWork /\ NothingYet
      /\ Len(session.log) \in Nat /\ DOMAIN session.log = 1 .. Len(session.log)
      /\ \A k \in 1 .. Len(frames) : frames[k].id \in Nat /\ frames[k].base \in Nat
      /\ \A i \in DOMAIN session.log : session.log[i] \in Nat
  BY InvParts, EmptySeq
<1>2. /\ depth' = depth - 1 /\ sqlTx' = sqlTx /\ durable' = durable
      /\ unanswered => unanswered'
      /\ \/ session' = session /\ (err => unanswered' \/ sqlTx # "active")
         \/ ~err /\ sqlTx = "active" /\ session' \in RELEASE(depth - 1)
         \/ sqlTx = "active" /\ session' \in ROLLBACKTO(depth - 1)
  BY InnerEndSession
<1>0. PICK n \in Nat : n = Len(frames) - 1 /\ n \in 0 .. Len(frames)
  <2>1. Len(frames) - 1 \in Nat /\ Len(frames) - 1 \in 0 .. Len(frames)
    BY <1>1
  <2>. QED
    BY <2>1
<1>3. /\ Len(frames') = n /\ frames' # <<>> /\ ctl' # "idle"
      /\ \A k \in 1 .. n : frames'[k] = frames[k]
      /\ calls' = calls
      /\ \A k \in 2 .. n : k \in 2 .. Len(frames) /\ frames'[k] = frames[k]
  <2>1. /\ Len(frames') = Len(frames) - 1 /\ frames' # <<>> /\ ctl' # "idle"
        /\ \A k \in 1 .. (Len(frames) - 1) : frames'[k] = frames[k]
        /\ calls' = calls
    BY <1>1, LeaveTypes
  <2>. QED
    BY <1>0, <1>1, <2>1
<1>4. failed' = failed \/ (err /\ failed' = failed \cup (Top.id .. calls))
  BY DEF Leave
<1>5. /\ Top = frames[Len(frames)] /\ Len(frames) \in 1 .. Len(frames)
      /\ Top.id \in Nat /\ Top.base \in Nat
      /\ \A k \in 1 .. Len(frames') : k \in 1 .. Len(frames) /\ k < Len(frames)
      /\ \A k \in 1 .. Len(frames') : frames[k].base <= Top.base
  <2>1. /\ Top = frames[Len(frames)] /\ Len(frames) \in 1 .. Len(frames)
        /\ \A k \in 1 .. Len(frames') : k \in 1 .. Len(frames) /\ k < Len(frames)
    BY <1>0, <1>1, <1>3 DEF Top
  <2>. QED
    BY <1>1, <2>1 DEF StackOrder
<1>6. StackOrder'
  BY <1>1, LeaveKeepsOrder
<1>7. LevelIsNesting'
  BY <1>0, <1>1, <1>2, <1>3 DEF LevelIsNesting
<1>8. NothingYet'
  BY <1>0, <1>1, <1>2, <1>3 DEF NothingYet
<1>9. \A i \in DOMAIN durable : durable[i] \notin failed'
  BY <1>1 DEF NothingYet
<1>10. ASSUME session' = session, err => unanswered' \/ sqlTx # "active"
       PROVE  NestInv'
  <2>1. LogByCall'
    BY <1>1, <1>2, <1>3, <1>5, <1>10 DEF LogByCall
  <2>2. SavepointOfCall' /\ MarksByCall'
    <3>1. CASE sqlTx = "active"
      <4>1. \A k \in 2 .. n :
               \E i : Latest(session', k - 2, i) /\ session'.marks[i].at = frames'[k].base
        BY <1>1, <1>2, <1>3, <1>10, <3>1 DEF SavepointOfCall, Named
      <4>2. \A j, k \in 2 .. n : j < k =>
               \A p, q : Latest(session', j - 2, p) /\ Latest(session', k - 2, q) => p < q
        <5>1. \A m, p : Latest(session, m, p) => p \in Named(m)
          BY DEF Latest, Named
        <5>. QED
          BY <1>1, <1>3, <1>10, <3>1, <5>1 DEF MarksByCall
      <4>. QED
        BY <1>3, <4>1, <4>2, MarksAfter
    <3>2. CASE sqlTx # "active"
      BY <1>2, <3>2 DEF SavepointOfCall, MarksByCall
    <3>. QED
      BY <3>1, <3>2
  <2>3. NoFailedWork'
    <3>1. CASE sqlTx # "active"
      BY <1>1, <1>2, <1>9, <1>10, <3>1 DEF NoFailedWork, LogByCall, EmptySession
    <3>2. CASE sqlTx = "active"
      BY <1>1, <1>2, <1>4, <1>9, <1>10, <3>2 DEF NoFailedWork
    <3>. QED
      BY <3>1, <3>2
  <2>. QED
    BY <1>6, <1>7, <1>8, <2>1, <2>2, <2>3 DEF NestInv
<1>11. ASSUME ~err, sqlTx = "active", session' \in RELEASE(depth - 1)
       PROVE  NestInv'
  <2>1. PICK i \in DOMAIN session.marks :
               /\ session' = Released(session, i)
               /\ \A k \in 2 .. n : \A p \in Named(k - 2) : p < i
    BY <1>0, <1>11, TopMark DEF RELEASE
  <2>2. /\ WellFormed(session') /\ session'.log = session.log
        /\ DOMAIN session'.marks = 1 .. (i - 1)
        /\ \A j \in 1 .. (i - 1) : j \in DOMAIN session.marks /\ session'.marks[j] = session.marks[j]
    BY <1>1, <2>1, ReleasedProperties
  <2>3. i \in Int /\ \A k \in 2 .. n : \A p \in Named(k - 2) : p <= i - 1
    <3>1. i \in Int
      BY <1>1, <2>1, NamedIsIndex
    <3>2. ASSUME NEW k \in 2 .. n, NEW p \in Named(k - 2)
          PROVE  p <= i - 1
      <4>1. p \in Int
        BY <1>1, NamedIsIndex
      <4>2. p < i
        BY <2>1
      <4>. QED
        BY <3>1, <4>1, <4>2
    <3>. QED
      BY <3>1, <3>2
  <2>4. n \in 0 .. Len(frames)
    BY <1>0
  <2>5. /\ \A k \in 2 .. n :
              \E p \in DOMAIN session'.marks :
                 Latest(session', k - 2, p) /\ session'.marks[p].at = frames[k].base
        /\ \A j, k \in 2 .. n : j < k =>
              \A p, q : Latest(session', j - 2, p) /\ Latest(session', k - 2, q) => p < q
    <3>1. i - 1 \in Int
      BY <2>3
    <3>. QED
      BY <1>11, <2>2, <2>3, <2>4, <3>1, CutKeepsMarks
  <2>6. SavepointOfCall' /\ MarksByCall'
    <3>1. \A k \in 2 .. n :
             \E p : Latest(session', k - 2, p) /\ session'.marks[p].at = frames'[k].base
      BY <1>3, <2>5
    <3>. QED
      BY <1>3, <2>5, <3>1, MarksAfter
  <2>7. LogByCall'
    BY <1>1, <1>2, <1>3, <1>5, <1>11, <2>2 DEF LogByCall
  <2>8. NoFailedWork'
    BY <1>1, <1>2, <1>4, <1>9, <1>11, <2>2 DEF NoFailedWork
  <2>. QED
    BY <1>6, <1>7, <1>8, <2>6, <2>7, <2>8 DEF NestInv
<1>12. ASSUME sqlTx = "active", session' \in ROLLBACKTO(depth - 1)
       PROVE  NestInv'
  <2>1. PICK i \in DOMAIN session.marks :
               /\ session' = RolledBackTo(session, i) /\ session.marks[i].at = Top.base
               /\ \A k \in 2 .. n : \A p \in Named(k - 2) : p < i
    BY <1>0, <1>12, TopMark DEF ROLLBACKTO
  <2>2. /\ WellFormed(session') /\ Top.base <= Len(session.log)
        /\ Len(session'.log) = Top.base /\ DOMAIN session'.log = 1 .. Top.base
        /\ \A j \in 1 .. Top.base : j \in DOMAIN session.log /\ session'.log[j] = session.log[j]
        /\ DOMAIN session'.marks = 1 .. i
        /\ \A j \in 1 .. i : j \in DOMAIN session.marks /\ session'.marks[j] = session.marks[j]
    BY <1>1, <2>1, RolledBackToProperties
  <2>3. i \in Int /\ \A k \in 2 .. n : \A p \in Named(k - 2) : p <= i
    <3>1. i \in Int
      BY <1>1, <2>1, NamedIsIndex
    <3>2. ASSUME NEW k \in 2 .. n, NEW p \in Named(k - 2)
          PROVE  p <= i
      <4>1. p \in Int
        BY <1>1, NamedIsIndex
      <4>2. p < i
        BY <2>1
      <4>. QED
        BY <3>1, <4>1, <4>2
    <3>. QED
      BY <3>1, <3>2
  <2>4. n \in 0 .. Len(frames)
    BY <1>0
  <2>5. /\ \A k \in 2 .. n :
              \E p \in DOMAIN session'.marks :
                 Latest(session', k - 2, p) /\ session'.marks[p].at = frames[k].base
        /\ \A j, k \in 2 .. n : j < k =>
              \A p, q : Latest(session', j - 2, p) /\ Latest(session', k - 2, q) => p < q
    BY <1>12, <2>2, <2>3, <2>4, CutKeepsMarks
  <2>6. SavepointOfCall' /\ MarksByCall'
    <3>1. \A k \in 2 .. n :
             \E p : Latest(session', k - 2, p) /\ session'.marks[p].at = frames'[k].base
      BY <1>3, <2>5
    <3>. QED
      BY <1>3, <2>5, <3>1, MarksAfter
  <2>7. LogByCall'
    BY <1>1, <1>2, <1>3, <1>5, <1>12, <2>2 DEF LogByCall
  <2>8. ASSUME NEW j \in DOMAIN session'.log
        PROVE  session'.log[j] < Top.id
    <3>1. /\ j \in DOMAIN session.log /\ ~(j > Top.base)
          /\ session'.log[j] = session.log[j] /\ session.log[j] \in Nat
      BY <1>1, <1>5, <2>2
    <3>2. ~(session.log[j] >= Top.id)
      BY <1>1, <1>5, <1>12, <3>1 DEF LogByCall
    <3>. QED
      BY <1>5, <3>1, <3>2
  <2>9. NoFailedWork'
    BY <1>1, <1>2, <1>4, <1>5, <1>9, <2>2, <2>8 DEF NoFailedWork
  <2>. QED
    BY <1>6, <1>7, <1>8, <2>6, <2>7, <2>9 DEF NestInv
<1>. QED
  BY <1>2, <1>10, <1>11, <1>12

(* The outermost call ends: what becomes durable is the whole log of a      *)
(* transaction whose COMMIT was answered, or nothing.                       *)
LEMMA OuterEnd ==
    ASSUME Inv, Disciplined, Len(frames) = 1, NEW err \in BOOLEAN, NEW rb \in BOOLEAN,
           \/ Commit(rb) /\ err = rb
           \/ (Rollback(rb) \/ rollbackFully(rb)) /\ err = TRUE,
           NEW resume \in {"fn", "panic"}, Leave(err, resume)
    PROVE  NestInv'
<1>1. /\ frames # <<>> /\ depth = 0 /\ StackOrder /\ NoFailedWork /\ durable = <<>> /\ TypeOK
  <2>0. Len(<<>>) = 0
    OBVIOUS
  <2>1. frames # <<>>
    BY <2>0
  <2>. QED
    BY <2>1, InvParts DEF NothingYet
<1>2. /\ sqlTx' = "done" /\ session' = EmptySession
      /\ unanswered' = (unanswered \/ (rb /\ sqlTx = "active"))
      /\ \/ durable' = durable
         \/ durable' = session.log /\ ~rb /\ err = rb
         \/ rb /\ sqlTx = "active"
  <2>1. CASE Commit(rb) /\ err = rb
    <3>1. SqlCommit(rb) /\ Noted(rb)
      BY <1>1, <2>1 DEF Commit
    <3>. QED
      BY <2>1, <3>1 DEF SqlCommit, SqlEnd, Noted
  <2>2. CASE Rollback(rb) \/ rollbackFully(rb)
    <3>1. SqlRollback(rb) /\ Noted(rb)
      BY <1>1, <2>2 DEF Rollback, rollbackFully
    <3>. QED
      BY <3>1 DEF SqlRollback, SqlEnd, Noted
  <2>. QED
    BY <2>1, <2>2
<1>3. /\ frames' = <<>> /\ ctl' = "returned" /\ Len(frames') = 0
      /\ ~err => failed' = failed
  BY <1>1, LeaveTypes DEF Leave
<1>4. StackOrder'
  BY <1>1, LeaveKeepsOrder
<1>5. DOMAIN session'.log = {} /\ DOMAIN <<>> = {}
  BY <1>2 DEF EmptySession
<1>6. NoFailedWork'
  <2>1. CASE durable' = durable
    BY <1>1, <1>5, <2>1 DEF NoFailedWork
  <2>2. CASE durable' = session.log /\ ~rb /\ err = rb
    BY <1>1, <1>2, <1>3, <1>5, <2>2 DEF NoFailedWork
  <2>3. CASE rb /\ sqlTx = "active"
    BY <1>2, <2>3 DEF NoFailedWork
  <2>. QED
    BY <1>2, <2>1, <2>2, <2>3
<1>7. LogByCall'
  BY <1>2, <1>5 DEF LogByCall
<1>8. LevelIsNesting' /\ SavepointOfCall' /\ MarksByCall' /\ NothingYet'
  BY <1>2, <1>3 DEF LevelIsNesting, SavepointOfCall, MarksByCall, NothingYet
<1>. QED
  BY <1>4, <1>6, <1>7, <1>8 DEF NestInv
-----------------------------------------------------------------------------
(* The calls and statements that keep the stack as it is and the            *)
(* transaction active: what they must keep of the savepoints and the log.   *)
LEMMA SameStack ==
    ASSUME Inv, Disciplined, UNCHANGED <<tx, durable, frames, ctl, result, hist>>,
           SavepointOfCall', LogByCall', MarksByCall',
           ~unanswered => \A i \in DOMAIN session'.log : session'.log[i] \notin failed
    PROVE  NestInv'
<1>1. LevelIsNesting /\ NoFailedWork /\ StackOrder /\ NothingYet
  BY InvParts
<1>2. /\ depth' = depth /\ frames' = frames /\ durable' = durable /\ ctl' = ctl
      /\ calls' = calls /\ failed' = failed /\ unanswered' = unanswered
  BY DEF tx, hist
<1>3. LevelIsNesting' /\ NothingYet'
  BY <1>1, <1>2 DEF LevelIsNesting, NothingYet
<1>4. StackOrder'
  BY <1>1, <1>2 DEF StackOrder
<1>5. NoFailedWork'
  BY <1>1, <1>2 DEF NoFailedWork
<1>. QED
  BY <1>3, <1>4, <1>5 DEF NestInv

(* A write belongs to the call that runs, which has not failed. *)
LEMMA ExecStep ==
    ASSUME Inv, Disciplined, Exec
    PROVE  NestInv'
<1>1. /\ frames # <<>> /\ frames \in Seq(Frame) /\ Len(frames) \in Nat \ {0}
      /\ TypeOK /\ WellFormed(session) /\ StackOrder /\ LogByCall /\ MarksByCall
      /\ SavepointOfCall /\ calls \in Nat
      /\ Len(session.log) \in Nat /\ DOMAIN session.log = 1 .. Len(session.log)
      /\ \A k \in 1 .. Len(frames) : frames[k].id \in Nat /\ frames[k].base \in Nat
  BY InvParts, EmptySeq DEF Exec, Phase
<1>2. /\ Top = frames[Len(frames)] /\ Len(frames) \in 1 .. Len(frames)
      /\ Top.id \in (1 .. calls) \ failed /\ Top.id \in Nat
      /\ \A k \in 1 .. Len(frames) : frames[k].id <= Top.id
  <2>1. Top = frames[Len(frames)] /\ Len(frames) \in 1 .. Len(frames)
    BY <1>1 DEF Top
  <2>2. Top.id \in (1 .. calls) \ failed /\ Top.id \in Nat
    BY <1>1, <2>1 DEF StackOrder
  <2>3. ASSUME NEW k \in 1 .. Len(frames)
        PROVE  frames[k].id <= Top.id
    <3>1. CASE k = Len(frames)
      BY <2>1, <2>2, <3>1
    <3>2. CASE k < Len(frames)
      BY <1>1, <2>1, <2>2, <3>2 DEF StackOrder
    <3>. QED
      BY <1>1, <3>1, <3>2
  <2>. QED
    BY <2>1, <2>2, <2>3
<1>3. /\ session'.log = Append(session.log, Top.id) /\ session'.marks = session.marks
      /\ WellFormed(session') /\ sqlTx = "active"
      /\ UNCHANGED <<tx, durable, frames, ctl, result, hist>>
  BY <1>1, <1>2, WrittenProperties DEF Exec
<1>4. /\ frames' = frames /\ calls' = calls /\ sqlTx' = "active"
  BY <1>3 DEF tx, hist
<1>5. /\ Len(session'.log) = Len(session.log) + 1
      /\ DOMAIN session'.log = 1 .. (Len(session.log) + 1)
      /\ session'.log[Len(session.log) + 1] = Top.id
      /\ \A i \in 1 .. Len(session.log) : session'.log[i] = session.log[i]
  <2>1. session.log \in Seq(Nat)
    BY <1>1, SessionParts
  <2>. QED
    BY <1>2, <1>3, <2>1
<1>6. \A i \in DOMAIN session'.log : i \in DOMAIN session.log \/ i = Len(session.log) + 1
  BY <1>1, <1>5
<1>7. LogByCall'
  <2>1. \A i \in DOMAIN session'.log : session'.log[i] \in 1 .. calls
    BY <1>1, <1>2, <1>5, <1>6 DEF LogByCall
  <2>2. ASSUME NEW k \in 1 .. Len(frames)
        PROVE  /\ frames[k].base <= Len(session'.log)
               /\ \A i \in DOMAIN session'.log :
                     i > frames[k].base <=> session'.log[i] >= frames[k].id
    <3>1. /\ frames[k].base <= Len(session.log)
          /\ \A i \in DOMAIN session.log : i > frames[k].base <=> session.log[i] >= frames[k].id
      BY <1>1, <1>3 DEF LogByCall
    <3>2. frames[k].base \in Nat /\ frames[k].id \in Nat /\ frames[k].id <= Top.id
      BY <1>1, <1>2
    <3>3. frames[k].base <= Len(session'.log)
      BY <1>1, <1>5, <3>1, <3>2
    <3>4. ASSUME NEW i \in DOMAIN session'.log
          PROVE  i > frames[k].base <=> session'.log[i] >= frames[k].id
      <4>1. CASE i \in 1 .. Len(session.log)
        BY <1>1, <1>5, <3>1, <4>1
      <4>2. CASE i = Len(session.log) + 1
        BY <1>1, <1>2, <1>5, <3>1, <3>2, <4>2
      <4>. QED
        BY <1>1, <1>6, <4>1, <4>2
    <3>. QED
      BY <3>3, <3>4
  <2>. QED
    BY <1>4, <2>1, <2>2 DEF LogByCall
<1>8. SavepointOfCall' /\ MarksByCall'
  <2>1. \A n : Named(n)' = Named(n)
    BY <1>3 DEF Named, Latest
  <2>. QED
    BY <1>1, <1>3, <1>4, <2>1 DEF SavepointOfCall, MarksByCall
<1>9. ~unanswered => \A i \in DOMAIN session'.log : session'.log[i] \notin failed
  <2>1. ~unanswered => \A i \in DOMAIN session.log : session.log[i] \notin failed
    BY InvParts DEF NoFailedWork
  <2>. QED
    BY <1>2, <1>5, <1>6, <2>1
<1>. QED
  BY <1>3, <1>7, <1>8, <1>9, SameStack

(* SAVEPOINT with a name that none of gooq's own on the stack has leaves    *)
(* those what they mean.                                                    *)
LEMMA MarkedKeepsNames ==
    ASSUME Inv, Disciplined, NEW m \in Nat, session' \in SAVEPOINT(m),
           NEW n \in Nat, \A k \in 2 .. n : k - 2 # m
    PROVE  /\ WellFormed(session') /\ session'.log = session.log
           /\ \A k \in 2 .. n : \A i : Latest(session', k - 2, i) <=> i \in Named(k - 2)
           /\ \A i \in DOMAIN session.marks : session'.marks[i].at = session.marks[i].at
           /\ \A i : Latest(session', m, i) <=> i = Len(session.marks) + 1
           /\ session'.marks[Len(session.marks) + 1].at = Len(session.log)
<1>1. WellFormed(session) /\ (dialect \in Replacing) \in BOOLEAN
  BY InvParts
<1>2. session' = Marked(session, m, dialect \in Replacing)
  BY DEF SAVEPOINT
<1>. DEFINE replaces == dialect \in Replacing
<1>3. replaces \in BOOLEAN /\ session' = Marked(session, m, replaces)
  BY <1>1, <1>2
<1>. HIDE DEF replaces
<1>4. /\ WellFormed(session') /\ session'.log = session.log
      /\ session'.marks[Len(session.marks) + 1] = [name |-> m, at |-> Len(session.log)]
      /\ \A i \in DOMAIN session.marks : session'.marks[i].at = session.marks[i].at
  BY <1>1, <1>3, MarkedProperties
<1>5. /\ \A i : Latest(session', m, i) <=> i = Len(session.marks) + 1
      /\ \A x \in Nat \ {m} : \A i : Latest(session', x, i) <=> Latest(session, x, i)
  BY <1>1, <1>3, LatestMarked
<1>6. \A k \in 2 .. n : k - 2 \in Nat \ {m}
  OBVIOUS
<1>7. \A x, i : Latest(session, x, i) <=> i \in Named(x)
  BY DEF Latest, Named
<1>. QED
  BY <1>4, <1>5, <1>6, <1>7

(* A savepoint of the callback's own is later than those of the calls. *)
LEMMA SavePointStep ==
    ASSUME Inv, Disciplined, NEW m \in UserNames, SavePoint(m)
    PROVE  NestInv'
<1>1. /\ UNCHANGED <<tx, durable, frames, ctl, result, hist>>
      /\ sqlTx = "active" /\ session' \in SAVEPOINT(m) /\ m \in Nat /\ m \notin 0 .. MaxCalls
  BY TxAssumption DEF SavePoint, SavepointExec
<1>2. /\ frames' = frames /\ sqlTx' = "active" /\ calls' = calls
  BY <1>1 DEF tx, hist
<1>3. /\ Len(frames) \in Nat /\ Len(frames) <= MaxCalls /\ MaxCalls \in Nat
      /\ SavepointOfCall /\ MarksByCall /\ LogByCall /\ WellFormed(session)
  <2>1. /\ Len(frames) \in Nat /\ calls \in Nat /\ StackOrder
        /\ SavepointOfCall /\ MarksByCall /\ LogByCall /\ WellFormed(session)
    BY InvParts
  <2>. QED
    BY <2>1, TxAssumption DEF StackOrder
<1>4. \A k \in 2 .. Len(frames) : k - 2 # m
  BY <1>1, <1>3
<1>5. /\ session'.log = session.log
      /\ \A k \in 2 .. Len(frames) : \A i : Latest(session', k - 2, i) <=> i \in Named(k - 2)
      /\ \A i \in DOMAIN session.marks : session'.marks[i].at = session.marks[i].at
  BY <1>1, <1>3, <1>4, MarkedKeepsNames
<1>6. \A x : \A i \in Named(x) : i \in DOMAIN session.marks
  BY DEF Named
<1>7. \A k \in 2 .. Len(frames) :
         \E i : Latest(session', k - 2, i) /\ session'.marks[i].at = frames'[k].base
  BY <1>1, <1>2, <1>3, <1>5, <1>6 DEF SavepointOfCall
<1>8. \A j, k \in 2 .. Len(frames) : j < k =>
         \A p, q : Latest(session', j - 2, p) /\ Latest(session', k - 2, q) => p < q
  BY <1>1, <1>3, <1>5 DEF MarksByCall
<1>9. SavepointOfCall' /\ MarksByCall'
  BY <1>2, <1>3, <1>7, <1>8, MarksAfter
<1>10. LogByCall'
  BY <1>1, <1>2, <1>3, <1>5 DEF LogByCall
<1>11. ~unanswered => \A i \in DOMAIN session'.log : session'.log[i] \notin failed
  BY <1>5, InvParts DEF NoFailedWork
<1>. QED
  BY <1>1, <1>9, <1>10, <1>11, SameStack

(* Rolling back to a savepoint of the running call's own keeps the          *)
(* savepoints of all calls and what the log held when they began.           *)
LEMMA RollbackToStep ==
    ASSUME Inv, Disciplined, NEW m \in UserNames, RollbackTo(m)
    PROVE  NestInv'
<1>1. /\ UNCHANGED <<tx, durable, frames, ctl, result, hist>>
      /\ sqlTx = "active" /\ session' \in ROLLBACKTO(m) /\ ctl = "fn"
      /\ \A i \in Named(m) : OfThisCall(i)
  BY DEF RollbackTo, SavepointExec
<1>2. /\ frames' = frames /\ sqlTx' = "active" /\ calls' = calls
  BY <1>1 DEF tx, hist
<1>3. /\ frames # <<>> /\ Len(frames) \in Nat /\ WellFormed(session) /\ LogByCall /\ StackOrder
      /\ depth = Len(frames) - 1 /\ depth \in Nat
      /\ Len(session.log) \in Nat /\ DOMAIN session.log = 1 .. Len(session.log)
      /\ \A k \in 1 .. Len(frames) : frames[k].id \in Nat /\ frames[k].base \in Nat
      /\ frames \in Seq(Frame)
  BY <1>1, InvParts DEF Phase
<1>4. PICK i \in Named(m) : session' = RolledBackTo(session, i)
  BY <1>1 DEF ROLLBACKTO
<1>5. /\ i \in DOMAIN session.marks /\ i \in Int /\ session.marks[i].at >= Top.base
      /\ depth > 0 => \A p \in Named(depth - 1) : i > p
  BY <1>1, <1>3, NamedIsIndex DEF OfThisCall, Named, savepointName
<1>. DEFINE at == session.marks[i].at
<1>6. /\ WellFormed(session') /\ at \in 0 .. Len(session.log)
      /\ Len(session'.log) = at /\ DOMAIN session'.log = 1 .. at
      /\ \A j \in 1 .. at : session'.log[j] = session.log[j]
      /\ DOMAIN session'.marks = 1 .. i
      /\ \A j \in 1 .. i : j \in DOMAIN session.marks /\ session'.marks[j] = session.marks[j]
  BY <1>3, <1>4, <1>5, RolledBackToProperties
<1>7. ASSUME NEW k \in 2 .. Len(frames), NEW p \in Named(k - 2)
      PROVE  p <= i
  <2>1. Len(frames) > 1 /\ depth > 0 /\ p \in Int
    BY <1>3, NamedIsIndex
  <2>2. PICK q \in DOMAIN session.marks :
            /\ Named(depth - 1) = {q}
            /\ \A l \in 2 .. (Len(frames) - 1) : \A r \in Named(l - 2) : r < q
    BY <1>1, <2>1, TopMark
  <2>3. q < i /\ q \in Int
    BY <1>3, <1>5, <2>1, <2>2, NamedIsIndex
  <2>4. CASE k = Len(frames)
    BY <1>3, <1>5, <2>2, <2>3, <2>4
  <2>5. CASE k \in 2 .. (Len(frames) - 1)
    <3>1. p < q
      BY <2>2, <2>5
    <3>. QED
      BY <1>5, <2>1, <2>3, <3>1
  <2>. QED
    BY <1>3, <2>4, <2>5
<1>8. SavepointOfCall' /\ MarksByCall'
  <2>1. Len(frames) \in 0 .. Len(frames)
    BY <1>3
  <2>2. /\ \A k \in 2 .. Len(frames) :
              \E j \in DOMAIN session'.marks :
                 Latest(session', k - 2, j) /\ session'.marks[j].at = frames[k].base
        /\ \A j, k \in 2 .. Len(frames) : j < k =>
              \A p, q : Latest(session', j - 2, p) /\ Latest(session', k - 2, q) => p < q
    BY <1>1, <1>5, <1>6, <1>7, <2>1, CutKeepsMarks
  <2>3. \A k \in 2 .. Len(frames) :
           \E j : Latest(session', k - 2, j) /\ session'.marks[j].at = frames'[k].base
    BY <1>2, <2>2
  <2>. QED
    BY <1>2, <1>3, <2>2, <2>3, MarksAfter
<1>9. LogByCall'
  <2>. HIDE DEF at
  <2>1. ASSUME NEW k \in 1 .. Len(frames)
        PROVE  frames[k].base <= at
    <3>1. Len(frames) \in 1 .. Len(frames) /\ Top = frames[Len(frames)]
      BY <1>3 DEF Top
    <3>2. Top.base \in Nat /\ frames[k].base \in Nat /\ frames[k].base <= Top.base
      BY <1>3, <3>1 DEF StackOrder
    <3>3. at >= Top.base
      BY <1>5 DEF at
    <3>. QED
      BY <1>3, <1>6, <3>2, <3>3
  <2>2. \A j \in DOMAIN session'.log : j \in DOMAIN session.log /\ session'.log[j] = session.log[j]
    BY <1>3, <1>6
  <2>. QED
    BY <1>1, <1>2, <1>3, <1>6, <2>1, <2>2 DEF LogByCall
<1>10. ~unanswered => \A j \in DOMAIN session'.log : session'.log[j] \notin failed
  BY <1>3, <1>6, InvParts DEF NoFailedWork
<1>. QED
  BY <1>1, <1>8, <1>9, <1>10, SameStack

(* A call that begins has a number above all others and begins where the    *)
(* log ends.                                                                *)
LEMMA EnterKeepsOrder ==
    ASSUME Inv, Disciplined, Enter, calls < MaxCalls,
           \A k \in 1 .. Len(frames) : frames[k].base <= Len(session.log)
    PROVE  /\ StackOrder'
           /\ Len(frames') = Len(frames) + 1 /\ calls' = calls + 1 /\ ctl' = "fn" /\ frames' # <<>>
           /\ failed' = failed /\ unanswered' = unanswered
           /\ \A k \in 1 .. Len(frames) : frames'[k] = frames[k]
           /\ frames'[Len(frames) + 1].id = calls + 1
           /\ frames'[Len(frames) + 1].base = Len(session.log)
<1>1. /\ Len(frames) \in Nat /\ calls \in Nat /\ StackOrder /\ TypeOK
      /\ \A k \in 1 .. Len(frames) : frames[k].id \in Nat /\ frames[k].base \in Nat
      /\ Len(session.log) \in Nat /\ failed \subseteq Nat
  BY InvParts
<1>2. /\ Len(frames') = Len(frames) + 1 /\ calls' = calls + 1 /\ ctl' = "fn" /\ frames' # <<>>
      /\ failed' = failed /\ unanswered' = unanswered
      /\ \A k \in 1 .. Len(frames) : frames'[k] = frames[k]
      /\ frames'[Len(frames) + 1] = [id |-> calls + 1, base |-> Len(session.log)]
  BY <1>1, EnterTypes
<1>3. Len(frames) <= calls /\ failed \subseteq 1 .. calls
  BY <1>1 DEF StackOrder
<1>4. \A k \in 1 .. (Len(frames) + 1) : k \in 1 .. Len(frames) \/ k = Len(frames) + 1
  BY <1>1
<1>5. \A k \in 1 .. Len(frames) : frames[k].id \in (1 .. calls) \ failed
  BY <1>1 DEF StackOrder
<1>6. calls + 1 \notin failed
  BY <1>1, <1>3
<1>7. \A k \in 1 .. Len(frames') : frames'[k].id \in (1 .. calls') \ failed'
  BY <1>1, <1>2, <1>4, <1>5, <1>6
<1>8. ASSUME NEW j \in 1 .. Len(frames'), NEW k \in 1 .. Len(frames'), j < k
      PROVE  frames'[j].id < frames'[k].id /\ frames'[j].base <= frames'[k].base
  <2>1. j \in 1 .. Len(frames) /\ frames'[j] = frames[j]
    BY <1>1, <1>2, <1>8
  <2>2. CASE k \in 1 .. Len(frames)
    BY <1>1, <1>2, <1>8, <2>1, <2>2 DEF StackOrder
  <2>3. CASE k = Len(frames) + 1
    BY <1>1, <1>2, <1>5, <2>1, <2>3
  <2>. QED
    BY <1>2, <1>4, <2>2, <2>3
<1>9. Len(frames') <= calls' /\ calls' <= MaxCalls /\ failed' \subseteq 1 .. calls'
  BY <1>1, <1>2, <1>3, TxAssumption
<1>10. StackOrder'
  BY <1>2, <1>7, <1>8, <1>9 DEF StackOrder
<1>. QED
  BY <1>2, <1>10

(* BeginTx: an empty log and no savepoint. *)
LEMMA RunNewStep ==
    ASSUME Inv, Disciplined, runNew
    PROVE  NestInv'
<1>1. /\ ctl = "idle" /\ frames = <<>> /\ depth = 0 /\ session = EmptySession
      /\ calls = 0 /\ durable = <<>> /\ NoFailedWork
  BY InvParts DEF runNew, Phase, LogByCall, StackOrder, NothingYet
<1>2. /\ Enter /\ sqlTx' = "active" /\ depth' = depth /\ session' = session /\ durable' = durable
  BY DEF runNew, db
<1>3. Len(frames) = 0 /\ Len(session.log) = 0 /\ DOMAIN session.log = {}
  BY <1>1 DEF EmptySession
<1>4. /\ StackOrder' /\ Len(frames') = 1 /\ calls' = 1 /\ failed' = failed /\ unanswered' = unanswered
      /\ frames'[1].base = 0
  BY <1>1, <1>2, <1>3, EnterKeepsOrder, TxAssumption
<1>5. LevelIsNesting' /\ NothingYet'
  BY <1>1, <1>2, <1>4 DEF LevelIsNesting, NothingYet
<1>6. NoFailedWork'
  BY <1>1, <1>2, <1>3, <1>4 DEF NoFailedWork
<1>7. LogByCall'
  BY <1>2, <1>3, <1>4 DEF LogByCall
<1>8. SavepointOfCall' /\ MarksByCall'
  BY <1>4 DEF SavepointOfCall, MarksByCall
<1>. QED
  BY <1>4, <1>5, <1>6, <1>7, <1>8 DEF NestInv

(* Tx.Transaction: the savepoint of the new call is the last, under a name  *)
(* no call below it uses.                                                   *)
LEMMA TransactionStep ==
    ASSUME Inv, Disciplined, Transaction
    PROVE  NestInv'
<1>1. /\ ctl = "fn" /\ calls < MaxCalls /\ sqlTx = "active" /\ session' \in SAVEPOINT(depth)
      /\ depth' = depth + 1 /\ Enter /\ sqlTx' = "active" /\ durable' = durable
  BY DEF Transaction, SavepointExec, savepointName
<1>2. /\ frames # <<>> /\ Len(frames) \in Nat /\ depth = Len(frames) - 1 /\ depth \in Nat
      /\ WellFormed(session) /\ LogByCall /\ SavepointOfCall /\ MarksByCall
      /\ NoFailedWork /\ NothingYet /\ calls \in Nat
      /\ Len(session.log) \in Nat /\ DOMAIN session.log = 1 .. Len(session.log)
      /\ \A k \in 1 .. Len(frames) : frames[k].id \in Nat /\ frames[k].base \in Nat
  BY <1>1, InvParts DEF Phase
<1>3. \A k \in 1 .. Len(frames) : frames[k].base <= Len(session.log)
  BY <1>1, <1>2 DEF LogByCall
<1>4. /\ StackOrder'
      /\ Len(frames') = Len(frames) + 1 /\ calls' = calls + 1 /\ ctl' = "fn" /\ frames' # <<>>
      /\ failed' = failed /\ unanswered' = unanswered
      /\ \A k \in 1 .. Len(frames) : frames'[k] = frames[k]
      /\ frames'[Len(frames) + 1].id = calls + 1
      /\ frames'[Len(frames) + 1].base = Len(session.log)
  BY <1>1, <1>3, EnterKeepsOrder
<1>5. \A k \in 2 .. Len(frames) : k - 2 # depth
  BY <1>2
<1>6. /\ session'.log = session.log
      /\ \A k \in 2 .. Len(frames) : \A i : Latest(session', k - 2, i) <=> i \in Named(k - 2)
      /\ \A i \in DOMAIN session.marks : session'.marks[i].at = session.marks[i].at
      /\ \A i : Latest(session', depth, i) <=> i = Len(session.marks) + 1
      /\ session'.marks[Len(session.marks) + 1].at = Len(session.log)
  BY <1>1, <1>2, <1>5, MarkedKeepsNames
<1>7. /\ \A x : \A i \in Named(x) : i \in DOMAIN session.marks
      /\ \A i \in DOMAIN session.marks : i < Len(session.marks) + 1
  BY <1>2, SessionParts DEF Named
<1>8. PICK n \in Nat : n = Len(frames) + 1
  BY <1>2
<1>9. \A k \in 2 .. n : (k \in 2 .. Len(frames) /\ frames'[k] = frames[k]) \/ (k = n /\ k - 2 = depth)
  BY <1>2, <1>4, <1>8
<1>10. ASSUME NEW k \in 2 .. n
       PROVE  \E i : Latest(session', k - 2, i) /\ session'.marks[i].at = frames'[k].base
  <2>1. CASE k \in 2 .. Len(frames) /\ frames'[k] = frames[k]
    BY <1>1, <1>2, <1>6, <1>7, <2>1 DEF SavepointOfCall
  <2>2. CASE k = n /\ k - 2 = depth
    BY <1>4, <1>6, <1>8, <2>2
  <2>. QED
    BY <1>9, <2>1, <2>2
<1>11. ASSUME NEW j \in 2 .. n, NEW k \in 2 .. n, j < k,
              NEW p, NEW q, Latest(session', j - 2, p), Latest(session', k - 2, q)
       PROVE  p < q
  <2>1. j \in 2 .. Len(frames) /\ p \in Named(j - 2)
    BY <1>2, <1>6, <1>8, <1>11
  <2>2. CASE k \in 2 .. Len(frames)
    BY <1>1, <1>2, <1>6, <1>11, <2>1, <2>2 DEF MarksByCall
  <2>3. CASE k - 2 = depth
    BY <1>6, <1>7, <1>11, <2>1, <2>3
  <2>. QED
    BY <1>9, <2>2, <2>3
<1>12. SavepointOfCall' /\ MarksByCall'
  BY <1>4, <1>8, <1>10, <1>11, MarksAfter
<1>13. LogByCall'
  <2>1. \A i \in DOMAIN session.log : session.log[i] \in 1 .. calls
    BY <1>2 DEF LogByCall
  <2>2. ASSUME NEW k \in 1 .. Len(frames')
        PROVE  /\ frames'[k].base <= Len(session.log)
               /\ \A i \in DOMAIN session.log :
                     i > frames'[k].base <=> session.log[i] >= frames'[k].id
    <3>1. CASE k \in 1 .. Len(frames)
      BY <1>1, <1>2, <1>4, <3>1 DEF LogByCall
    <3>2. CASE k = Len(frames) + 1
      BY <1>2, <1>4, <2>1, <3>2
    <3>. QED
      BY <1>2, <1>4, <3>1, <3>2
  <2>3. \A i \in DOMAIN session.log : session.log[i] \in 1 .. calls'
    BY <1>2, <1>4, <2>1
  <2>. QED
    BY <1>1, <1>6, <2>2, <2>3 DEF LogByCall
<1>14. NoFailedWork' /\ NothingYet'
  BY <1>1, <1>2, <1>4, <1>6 DEF NoFailedWork, NothingYet
<1>15. LevelIsNesting'
  BY <1>1, <1>2, <1>4 DEF LevelIsNesting
<1>. QED
  BY <1>4, <1>12, <1>13, <1>14, <1>15 DEF NestInv
-----------------------------------------------------------------------------
(* The invariant holds at first. *)
LEMMA InitNest ==
    ASSUME Init
    PROVE  NestInv
<1>1. /\ frames = <<>> /\ Len(frames) = 0 /\ calls = 0 /\ failed = {} /\ durable = <<>>
      /\ session = EmptySession /\ sqlTx = "none" /\ depth = 0 /\ ctl = "idle"
  BY DEF Init
<1>2. DOMAIN session.log = {} /\ DOMAIN durable = {}
  BY <1>1 DEF EmptySession
<1>3. LevelIsNesting /\ SavepointOfCall /\ MarksByCall /\ NothingYet
  BY <1>1 DEF LevelIsNesting, SavepointOfCall, MarksByCall, NothingYet
<1>4. StackOrder
  BY <1>1, TxAssumption DEF StackOrder
<1>5. LogByCall /\ NoFailedWork
  BY <1>1, <1>2 DEF LogByCall, NoFailedWork
<1>. QED
  BY <1>3, <1>4, <1>5 DEF NestInv

(* A return or a panic ends the top call: the outermost or an inner one. *)
LEMMA EndStep ==
    ASSUME Inv, Disciplined, FnReturns \/ Unwind
    PROVE  NestInv'
<1>1. /\ TypeOK /\ frames # <<>>
  BY InvParts DEF FnReturns, Unwind, Phase
<1>2. CASE FnReturns
  <2>1. PICK fnErr \in BOOLEAN, err \in BOOLEAN : finishTx(fnErr, err) /\ Leave(err, "fn")
    BY <1>2 DEF FnReturns
  <2>2. CASE fnErr
    <3>1. PICK rb \in BOOLEAN : Rollback(rb) /\ err = TRUE
      BY <2>1, <2>2 DEF finishTx
    <3>2. CASE Len(frames) > 1
      BY <2>1, <3>1, <3>2, InnerEnd
    <3>3. CASE Len(frames) = 1
      BY <2>1, <3>1, <3>3, OuterEnd
    <3>. QED
      BY <1>1, <3>2, <3>3, OneCall
  <2>3. CASE ~fnErr
    <3>1. Commit(err)
      BY <2>1, <2>3 DEF finishTx
    <3>2. CASE Len(frames) > 1
      BY <2>1, <3>1, <3>2, InnerEnd
    <3>3. CASE Len(frames) = 1
      BY <2>1, <3>1, <3>3, OuterEnd
    <3>. QED
      BY <1>1, <3>2, <3>3, OneCall
  <2>. QED
    BY <2>2, <2>3
<1>3. CASE Unwind
  <2>1. PICK rb \in BOOLEAN : IF Len(frames) > 1 THEN Rollback(rb) ELSE rollbackFully(rb)
    BY <1>3 DEF Unwind
  <2>2. Leave(TRUE, "panic")
    BY <1>3 DEF Unwind
  <2>3. CASE Len(frames) > 1
    BY <2>1, <2>2, <2>3, InnerEnd
  <2>4. CASE ~(Len(frames) > 1)
    <3>1. Len(frames) = 1
      BY <1>1, <2>4, OneCall
    <3>. QED
      BY <2>1, <2>2, <2>4, <3>1, OuterEnd
  <2>. QED
    BY <2>3, <2>4
<1>. QED
  BY <1>2, <1>3

(* The steps that touch neither the calls' work nor their savepoints. *)
LEMMA OtherSteps ==
    ASSUME Inv, Disciplined, BeginTxFails \/ FnPanics \/ FnRecovers \/ CtxDone \/ UNCHANGED vars
    PROVE  NestInv'
<1>1. /\ LevelIsNesting /\ SavepointOfCall /\ NoFailedWork /\ StackOrder
      /\ LogByCall /\ MarksByCall /\ NothingYet /\ Phase
  BY InvParts
<1>2. /\ depth' = depth /\ durable' = durable /\ frames' = frames
      /\ calls' = calls /\ failed' = failed /\ unanswered' = unanswered
      /\ ctl' = "idle" => ctl = "idle"
  BY DEF BeginTxFails, FnPanics, FnRecovers, CtxDone, vars, tx, db, hist
<1>3. LevelIsNesting' /\ StackOrder'
  BY <1>1, <1>2 DEF LevelIsNesting, StackOrder
<1>4. NothingYet'
  BY <1>1, <1>2 DEF NothingYet
<1>5. CASE session' = session /\ sqlTx' = sqlTx
  <2>1. \A n : Named(n)' = Named(n)
    BY <1>5 DEF Named
  <2>2. SavepointOfCall' /\ MarksByCall'
    BY <1>1, <1>2, <1>5, <2>1 DEF SavepointOfCall, MarksByCall
  <2>3. LogByCall' /\ NoFailedWork'
    BY <1>1, <1>2, <1>5 DEF LogByCall, NoFailedWork
  <2>. QED
    BY <1>3, <1>4, <2>2, <2>3 DEF NestInv
<1>6. CASE session' = EmptySession /\ sqlTx' = "done"
  <2>1. DOMAIN session'.log = {}
    BY <1>6 DEF EmptySession
  <2>2. SavepointOfCall' /\ MarksByCall'
    BY <1>6 DEF SavepointOfCall, MarksByCall
  <2>3. LogByCall' /\ NoFailedWork'
    BY <1>1, <1>2, <1>6, <2>1 DEF LogByCall, NoFailedWork
  <2>. QED
    BY <1>3, <1>4, <2>2, <2>3 DEF NestInv
<1>. QED
  BY <1>5, <1>6 DEF BeginTxFails, FnPanics, FnRecovers, CtxDone, vars, tx, db, hist

(* Every step keeps the invariant. *)
LEMMA NextNest ==
    ASSUME Inv, [Next]_vars
    PROVE  NestInv'
<1>. SUFFICES ASSUME Disciplined
              PROVE  NestInv'
  BY DEF NestInv
<1>1. CASE runNew
  BY <1>1, RunNewStep
<1>2. CASE Transaction
  BY <1>2, TransactionStep
<1>3. CASE FnReturns \/ Unwind
  BY <1>3, EndStep
<1>4. CASE Exec
  BY <1>4, ExecStep
<1>5. CASE \E n \in UserNames : SavePoint(n) \/ RollbackTo(n)
  BY <1>5, SavePointStep, RollbackToStep
<1>6. CASE ManualEnd
  BY <1>6 DEF ManualEnd
<1>7. CASE BeginTxFails \/ FnPanics \/ FnRecovers \/ CtxDone \/ UNCHANGED vars
  BY <1>7, OtherSteps
<1>. QED
  BY <1>1, <1>2, <1>3, <1>4, <1>5, <1>6, <1>7 DEF Next, Terminated

(* Both invariants together, for every discipline. *)
LEMMA NestInvariant == Spec => []Inv
<1>1. Init => Inv
  BY InitSafe, InitNest DEF Inv
<1>2. Inv /\ [Next]_vars => Inv'
  BY NextSafe, NextNest DEF Inv
<1>. QED
  BY <1>1, <1>2, PTL DEF Spec

(* With disciplined callbacks the level counts the inner calls under way,   *)
(* so what an end of a call names is its own savepoint or, for the          *)
(* outermost call, the transaction (db/tx.go:138-192).                      *)
THEOREM LevelsAreCalls == Spec => []LevelIsNesting
<1>1. Inv /\ Disciplined => LevelIsNesting
  BY InvParts
<1>2. Inv => LevelIsNesting
  BY <1>1 DEF LevelIsNesting
<1>. QED
  BY <1>2, NestInvariant, PTL

(* With disciplined callbacks every inner call under way has its savepoint  *)
(* where it began, in a database that shadows names and in one that         *)
(* replaces them, with RELEASE SAVEPOINT and without                        *)
(* (db/tx.go:164-184, 236-256).                                             *)
THEOREM SavepointsOfCalls == Spec => []SavepointOfCall
<1>1. Inv /\ Disciplined => SavepointOfCall
  BY InvParts
<1>2. Inv => SavepointOfCall
  BY <1>1 DEF SavepointOfCall
<1>. QED
  BY <1>2, NestInvariant, PTL

(* The work of a call that failed, and of the calls inside it, reaches      *)
(* neither its caller nor the database, unless the database failed to       *)
(* answer (db/tx.go:136-160, 275-287).                                      *)
THEOREM FailedWorkUndone == Spec => []NoFailedWork
<1>1. Inv /\ Disciplined => NoFailedWork
  BY InvParts
<1>2. Inv => NoFailedWork
  BY <1>1 DEF NoFailedWork
<1>. QED
  BY <1>2, NestInvariant, PTL

-----------------------------------------------------------------------------
(***************************************************************************)
(* Refinement: the bases of the calls cut the log of the transaction into  *)
(* the units of work of NestedWork, and every step of Tx is a step on those *)
(* units.                                                                   *)
(***************************************************************************)

(* The part of a log after the place a, up to b. *)
Part(log, a, b) == SubSeq(log, a + 1, b)

(* Its length and its elements. *)
LEMMA PartProperties ==
    ASSUME NEW log \in Seq(Nat), NEW a \in Nat, NEW b \in a .. Len(log)
    PROVE  /\ Part(log, a, b) \in Seq(Nat) /\ Len(Part(log, a, b)) = b - a
           /\ \A i \in 1 .. (b - a) : Part(log, a, b)[i] = log[a + i]
<1>1. a \in Nat /\ b \in Nat /\ a <= b /\ b <= Len(log) /\ Len(log) \in Nat
  BY LenProperties
<1>2. \A i \in (a + 1) .. b : log[i] \in Nat
  BY <1>1, ElementOfSeq
<1>3. a + 1 \in Int /\ b \in Int
  BY <1>1
<1>4. /\ SubSeq(log, a + 1, b) \in Seq(Nat)
      /\ Len(SubSeq(log, a + 1, b)) = IF a + 1 <= b THEN b - (a + 1) + 1 ELSE 0
      /\ \A i \in 1 .. b - (a + 1) + 1 : SubSeq(log, a + 1, b)[i] = log[a + 1 + i - 1]
  BY <1>2, <1>3, SubSeqProperties
<1>5. Len(SubSeq(log, a + 1, b)) = b - a
  BY <1>1, <1>4
<1>6. ASSUME NEW i \in 1 .. (b - a)
      PROVE  SubSeq(log, a + 1, b)[i] = log[a + i]
  <2>1. i \in 1 .. b - (a + 1) + 1 /\ a + 1 + i - 1 = a + i
    BY <1>1
  <2>. QED
    BY <1>4, <2>1
<1>. QED
  BY <1>4, <1>5, <1>6 DEF Part

(* Neighbouring parts make one. *)
LEMMA PartsJoin ==
    ASSUME NEW log \in Seq(Nat), NEW a \in Nat, NEW b \in a .. Len(log), NEW c \in b .. Len(log)
    PROVE  Part(log, a, b) \o Part(log, b, c) = Part(log, a, c)
<1>1. a + 1 \in 1 .. Len(log) + 1 /\ b \in (a + 1) - 1 .. Len(log) /\ c \in b .. Len(log)
  BY LenProperties
<1>. QED
  BY <1>1, ConcatAdjacentSubSeq DEF Part

(* What two logs have in common they have in the same parts. *)
LEMMA PartSame ==
    ASSUME NEW log \in Seq(Nat), NEW other \in Seq(Nat), NEW a \in Nat,
           NEW b \in a .. Len(log), b <= Len(other), \A i \in 1 .. b : other[i] = log[i]
    PROVE  Part(other, a, b) = Part(log, a, b)
<1>1. b \in a .. Len(other) /\ b \in Nat
  BY LenProperties
<1>2. /\ Part(log, a, b) \in Seq(Nat) /\ Len(Part(log, a, b)) = b - a
      /\ \A i \in 1 .. (b - a) : Part(log, a, b)[i] = log[a + i]
  BY PartProperties
<1>3. /\ Part(other, a, b) \in Seq(Nat) /\ Len(Part(other, a, b)) = b - a
      /\ \A i \in 1 .. (b - a) : Part(other, a, b)[i] = other[a + i]
  BY <1>1, PartProperties
<1>4. \A i \in 1 .. (b - a) : a + i \in 1 .. b
  <2>1. \A x, y \in Nat : \A i \in 1 .. (y - x) : x + i \in 1 .. y
    OBVIOUS
  <2>. QED
    BY <1>1, <2>1
<1>5. \A i \in 1 .. Len(Part(other, a, b)) : Part(other, a, b)[i] = Part(log, a, b)[i]
  BY <1>2, <1>3, <1>4
<1>. QED
  BY <1>2, <1>3, <1>5, SeqEqual

(* A log that grows adds to its last part. *)
LEMMA PartGrows ==
    ASSUME NEW log \in Seq(Nat), NEW w \in Nat, NEW a \in 0 .. Len(log)
    PROVE  Part(Append(log, w), a, Len(log) + 1) = Append(Part(log, a, Len(log)), w)
<1>1. a \in Nat /\ Len(log) \in a .. Len(log) /\ Len(log) \in Nat /\ a <= Len(log)
  BY LenProperties
<1>2. PICK p : p = Part(log, a, Len(log))
  OBVIOUS
<1>3. /\ p \in Seq(Nat) /\ Len(p) = Len(log) - a
      /\ \A i \in 1 .. (Len(log) - a) : p[i] = log[a + i]
  BY <1>1, <1>2, PartProperties
<1>4. PICK q : q = Append(log, w)
  OBVIOUS
<1>5. /\ q \in Seq(Nat) /\ Len(q) = Len(log) + 1 /\ q[Len(log) + 1] = w
      /\ \A i \in 1 .. Len(log) : q[i] = log[i]
  BY <1>4, AppendProperties
<1>6. PICK e \in a .. Len(q) : e = Len(log) + 1
  BY <1>1, <1>5
<1>7. PICK r : r = Part(q, a, e)
  OBVIOUS
<1>8. /\ r \in Seq(Nat) /\ Len(r) = e - a
      /\ \A i \in 1 .. (e - a) : r[i] = q[a + i]
  BY <1>1, <1>5, <1>7, PartProperties
<1>9. /\ Append(p, w) \in Seq(Nat) /\ Len(Append(p, w)) = Len(p) + 1
      /\ Append(p, w)[Len(p) + 1] = w /\ \A i \in 1 .. Len(p) : Append(p, w)[i] = p[i]
  BY <1>3, AppendProperties
<1>10. ASSUME NEW i \in 1 .. Len(r)
       PROVE  r[i] = Append(p, w)[i]
  <2>1. r[i] = q[a + i]
    BY <1>1, <1>6, <1>8
  <2>2. CASE i \in 1 .. Len(p)
    <3>1. a + i \in 1 .. Len(log) /\ i \in 1 .. (Len(log) - a)
      BY <1>1, <1>3, <2>2
    <3>. QED
      BY <1>3, <1>5, <1>9, <2>1, <2>2, <3>1
  <2>3. CASE i = Len(p) + 1
    <3>1. a + i = Len(log) + 1
      BY <1>1, <1>3, <2>3
    <3>. QED
      BY <1>5, <1>9, <2>1, <2>3, <3>1
  <2>4. i \in 1 .. Len(p) \/ i = Len(p) + 1
    <3>1. Len(p) \in Nat /\ Len(r) = Len(p) + 1
      BY <1>1, <1>3, <1>6, <1>8
    <3>. QED
      BY <3>1
  <2>. QED
    BY <2>2, <2>3, <2>4
<1>11. Len(r) = Len(Append(p, w))
  BY <1>1, <1>3, <1>6, <1>8, <1>9
<1>. QED
  BY <1>2, <1>4, <1>6, <1>7, <1>8, <1>9, <1>10, <1>11, SeqEqual

(* A part of a part. *)
LEMMA PartCut ==
    ASSUME NEW log \in Seq(Nat), NEW a \in Nat, NEW b \in a .. Len(log), NEW n \in 0 .. (b - a)
    PROVE  SubSeq(Part(log, a, b), 1, n) = Part(log, a, a + n)
<1>0. Len(log) \in Nat
  BY LenProperties
<1>1. PICK d \in a .. Len(log) : d = a + n /\ d - a = n
  <2>1. a + n \in a .. Len(log) /\ (a + n) - a = n
    BY <1>0
  <2>. QED
    BY <2>1
<1>2. /\ Part(log, a, b) \in Seq(Nat) /\ Len(Part(log, a, b)) = b - a
      /\ \A i \in 1 .. (b - a) : Part(log, a, b)[i] = log[a + i]
  BY PartProperties
<1>3. /\ Part(log, a, d) \in Seq(Nat) /\ Len(Part(log, a, d)) = n
      /\ \A i \in 1 .. n : Part(log, a, d)[i] = log[a + i]
  <2>1. /\ Part(log, a, d) \in Seq(Nat) /\ Len(Part(log, a, d)) = d - a
        /\ \A i \in 1 .. (d - a) : Part(log, a, d)[i] = log[a + i]
    BY PartProperties
  <2>. QED
    BY <1>1, <2>1
<1>4. /\ Upto(Part(log, a, b), n) \in Seq(Nat) /\ Len(Upto(Part(log, a, b), n)) = n
      /\ \A i \in 1 .. n : Upto(Part(log, a, b), n)[i] = Part(log, a, b)[i]
  BY <1>2, UptoProperties
<1>5. \A i \in 1 .. n : i \in 1 .. (b - a)
  BY <1>0
<1>6. PICK u, v : u = Upto(Part(log, a, b), n) /\ v = Part(log, a, d)
  OBVIOUS
<1>7. u \in Seq(Nat) /\ v \in Seq(Nat) /\ Len(u) = Len(v) /\ \A i \in 1 .. Len(u) : u[i] = v[i]
  BY <1>2, <1>3, <1>4, <1>5, <1>6
<1>8. u = v
  BY <1>7, SeqEqual
<1>. QED
  BY <1>1, <1>6, <1>8 DEF Upto

-----------------------------------------------------------------------------
(* The parts of a log that begin at the bases of a stack of calls. *)
Ends(fr, log, k) == IF k = Len(fr) THEN Len(log) ELSE fr[k + 1].base
Cuts(fr, log)    == [k \in 1 .. Len(fr) |-> Part(log, fr[k].base, Ends(fr, log, k))]

Based(fr, log) ==
    /\ fr \in Seq(Frame) /\ log \in Seq(Nat)
    /\ \A k \in 1 .. Len(fr) : fr[k].base <= Len(log)
    /\ \A j, k \in 1 .. Len(fr) : j < k => fr[j].base <= fr[k].base

(* The calls of g are those of fr but for the last. *)
Popped(g, fr) ==
    g \in Seq(Frame) /\ Len(g) = Len(fr) - 1 /\ \A k \in 1 .. (Len(fr) - 1) : g[k] = fr[k]

(* The log b is a beginning of the log a. *)
Begins(b, a) == b \in Seq(Nat) /\ Len(b) <= Len(a) /\ \A i \in 1 .. Len(b) : b[i] = a[i]

(* Each part is one of the log, and there are as many as calls. *)
LEMMA CutsShape ==
    ASSUME NEW fr, NEW log, Based(fr, log)
    PROVE  /\ Len(fr) \in Nat /\ Len(log) \in Nat /\ log \in Seq(Nat)
           /\ Cuts(fr, log) \in Seq(Seq(Nat)) /\ Len(Cuts(fr, log)) = Len(fr)
           /\ \A k \in 1 .. Len(fr) :
                 /\ fr[k].base \in Nat /\ Ends(fr, log, k) \in fr[k].base .. Len(log)
                 /\ Cuts(fr, log)[k] = Part(log, fr[k].base, Ends(fr, log, k))
<1>1. /\ fr \in Seq(Frame) /\ log \in Seq(Nat) /\ Len(fr) \in Nat /\ Len(log) \in Nat
      /\ \A k \in 1 .. Len(fr) : fr[k].base <= Len(log)
      /\ \A j, k \in 1 .. Len(fr) : j < k => fr[j].base <= fr[k].base
  BY LenProperties DEF Based
<1>2. ASSUME NEW k \in 1 .. Len(fr)
      PROVE  fr[k].base \in Nat
  <2>1. fr[k] \in Frame
    BY <1>1, ElementOfSeq
  <2>. QED
    BY <2>1 DEF Frame
<1>3. ASSUME NEW k \in 1 .. Len(fr)
      PROVE  Ends(fr, log, k) \in fr[k].base .. Len(log)
  <2>1. CASE k = Len(fr)
    BY <1>1, <1>2, <2>1 DEF Ends
  <2>2. CASE k # Len(fr)
    <3>1. k + 1 \in 1 .. Len(fr) /\ k < k + 1
      BY <1>1, <2>2
    <3>2. /\ fr[k].base <= fr[k + 1].base /\ fr[k + 1].base <= Len(log)
          /\ fr[k].base \in Nat /\ fr[k + 1].base \in Nat
      BY <1>1, <1>2, <3>1
    <3>. QED
      BY <1>1, <2>2, <3>2 DEF Ends
  <2>. QED
    BY <2>1, <2>2
<1>4. \A k \in 1 .. Len(fr) : Part(log, fr[k].base, Ends(fr, log, k)) \in Seq(Nat)
  BY <1>1, <1>2, <1>3, PartProperties
<1>5. Cuts(fr, log) \in [1 .. Len(fr) -> Seq(Nat)]
  BY <1>4 DEF Cuts
<1>6. Cuts(fr, log) \in Seq(Seq(Nat)) /\ Len(Cuts(fr, log)) = Len(fr)
  BY <1>1, <1>5, FunctionIsSeq
<1>7. \A k \in 1 .. Len(fr) : Cuts(fr, log)[k] = Part(log, fr[k].base, Ends(fr, log, k))
  BY DEF Cuts
<1>. QED
  BY <1>1, <1>2, <1>3, <1>6, <1>7

(* The last of n + 1 calls ends; c is what each of them has done. *)
Ending(fr, log, g, n, c) ==
    /\ Based(fr, log) /\ Popped(g, fr)
    /\ n \in Nat \ {0} /\ n + 1 = Len(fr) /\ c = Cuts(fr, log)

(* The first n of the parts c, the next one joined to the last of them. *)
Joined(c, n) == [SubSeq(c, 1, n) EXCEPT ![n] = SubSeq(c, 1, n)[n] \o c[n + 1]]

(* It hands its part on when the log stays. *)
LEMMA CutsMerge ==
    ASSUME NEW fr, NEW log, NEW g, NEW n, NEW c, Ending(fr, log, g, n, c)
    PROVE  Cuts(g, log) = Joined(c, n)
<1>0. PICK o : o = SubSeq(c, 1, n)
  OBVIOUS
<1>. /\ Based(fr, log) /\ Popped(g, fr) /\ n \in Nat
     /\ n + 1 = Len(fr) /\ Len(fr) > 1 /\ c = Cuts(fr, log)
  BY DEF Ending
<1>1. /\ Len(fr) \in Nat /\ Len(log) \in Nat /\ log \in Seq(Nat) /\ c \in Seq(Seq(Nat))
      /\ Len(c) = n + 1
      /\ \A k \in 1 .. (n + 1) :
            /\ fr[k].base \in Nat /\ Ends(fr, log, k) \in fr[k].base .. Len(log)
            /\ c[k] = Part(log, fr[k].base, Ends(fr, log, k))
  BY CutsShape
<1>2. /\ n > 0 /\ n \in 1 .. n /\ n + 1 \in 1 .. (n + 1) /\ n \in 1 .. (n + 1)
      /\ n # n + 1 /\ \A k \in 1 .. n : k \in 1 .. (n + 1) /\ k # n + 1
  OBVIOUS
<1>3. Len(g) = n /\ g \in Seq(Frame) /\ \A k \in 1 .. n : g[k] = fr[k]
  BY DEF Popped
<1>4. Based(g, log)
  BY <1>2, <1>3 DEF Based
<1>5. PICK d : d = Cuts(g, log)
  OBVIOUS
<1>6. /\ d \in Seq(Seq(Nat)) /\ Len(d) = n
      /\ \A k \in 1 .. n : d[k] = Part(log, g[k].base, Ends(g, log, k))
  BY <1>3, <1>4, <1>5, CutsShape
<1>7. o \in Seq(Seq(Nat)) /\ Len(o) = n /\ \A k \in 1 .. n : o[k] = c[k]
  <2>1. n \in 0 .. Len(c)
    BY <1>1
  <2>. QED
    BY <1>0, <1>1, <2>1, UptoProperties DEF Upto
<1>8. d[n] = o[n] \o c[n + 1]
  <2>1. d[n] = Part(log, fr[n].base, Len(log))
    BY <1>2, <1>3, <1>6 DEF Ends
  <2>2. o[n] = Part(log, fr[n].base, fr[n + 1].base)
    BY <1>1, <1>2, <1>7 DEF Ends
  <2>3. c[n + 1] = Part(log, fr[n + 1].base, Len(log))
    BY <1>1, <1>2 DEF Ends
  <2>4. /\ fr[n].base \in Nat /\ fr[n + 1].base \in fr[n].base .. Len(log)
        /\ Len(log) \in fr[n + 1].base .. Len(log)
    <3>1. Ends(fr, log, n) = fr[n + 1].base
      BY <1>2 DEF Ends
    <3>2. /\ fr[n].base \in Nat /\ fr[n + 1].base \in fr[n].base .. Len(log)
          /\ fr[n + 1].base \in Nat
      BY <1>1, <1>2, <3>1
    <3>. QED
      BY <1>1, <3>2
  <2>. QED
    BY <1>1, <2>1, <2>2, <2>3, <2>4, PartsJoin
<1>9. ASSUME NEW k \in 1 .. n, k # n
      PROVE  d[k] = o[k]
  <2>1. k + 1 \in 1 .. n /\ k # n + 1 /\ k \in 1 .. (n + 1)
    BY <1>9
  <2>2. Ends(g, log, k) = fr[k + 1].base /\ Ends(fr, log, k) = fr[k + 1].base
    BY <1>3, <1>9, <2>1 DEF Ends
  <2>. QED
    BY <1>1, <1>3, <1>6, <1>7, <2>1, <2>2
<1>10. PICK e : e = o[n] \o c[n + 1]
  OBVIOUS
<1>11. e \in Seq(Nat)
  <2>1. o[n] \in Seq(Nat) /\ c[n + 1] \in Seq(Nat)
    BY <1>1, <1>2, <1>7, ElementOfSeq
  <2>. QED
    BY <1>10, <2>1, ConcatProperties
<1>12. PICK x : x = [o EXCEPT ![n] = e]
  OBVIOUS
<1>13. x \in Seq(Seq(Nat)) /\ Len(x) = n /\ \A k \in 1 .. n : x[k] = IF k = n THEN e ELSE o[k]
  <2>1. PICK S : S = Seq(Nat)
    OBVIOUS
  <2>2. o \in Seq(S) /\ e \in S /\ n \in 1 .. Len(o)
    BY <1>2, <1>7, <1>11, <2>1
  <2>3. PICK z : z = o
    OBVIOUS
  <2>4. z \in Seq(S) /\ e \in S /\ n \in 1 .. Len(z) /\ x = [z EXCEPT ![n] = e]
    BY <1>12, <2>2, <2>3
  <2>5. x \in Seq(S) /\ Len(x) = Len(z) /\ \A k \in 1 .. Len(z) : x[k] = IF k = n THEN e ELSE z[k]
    BY <2>4, ExceptSeq
  <2>. QED
    BY <1>7, <2>1, <2>3, <2>5
<1>14. \A k \in 1 .. Len(d) : d[k] = x[k]
  BY <1>6, <1>8, <1>9, <1>10, <1>13
<1>15. d = x
  BY <1>6, <1>13, <1>14, SeqEqual
<1>16. Cuts(g, log) = [o EXCEPT ![n] = o[n] \o c[n + 1]]
  BY <1>5, <1>10, <1>12, <1>15
<1>. QED
  BY <1>0, <1>16 DEF Joined

(* It is gone when the log goes back to where the call began. *)
LEMMA CutsDiscard ==
    ASSUME NEW fr, NEW log, NEW g, NEW n, NEW c, Ending(fr, log, g, n, c),
           NEW b, Begins(b, log), Len(b) = fr[n + 1].base
    PROVE  Cuts(g, b) = SubSeq(c, 1, n)
<1>. /\ Based(fr, log) /\ Popped(g, fr) /\ n \in Nat
     /\ n + 1 = Len(fr) /\ Len(fr) > 1 /\ c = Cuts(fr, log)
  BY DEF Ending
<1>1. /\ Len(fr) \in Nat /\ Len(log) \in Nat /\ log \in Seq(Nat) /\ c \in Seq(Seq(Nat))
      /\ Len(c) = n + 1
      /\ \A k \in 1 .. (n + 1) :
            /\ fr[k].base \in Nat /\ Ends(fr, log, k) \in fr[k].base .. Len(log)
            /\ c[k] = Part(log, fr[k].base, Ends(fr, log, k))
  BY CutsShape
<1>2. /\ n > 0 /\ n + 1 \in 1 .. (n + 1)
      /\ \A k \in 1 .. n : k \in 1 .. (n + 1) /\ k # n + 1 /\ k < n + 1 /\ k + 1 \in 1 .. (n + 1)
  OBVIOUS
<1>3. Len(g) = n /\ g \in Seq(Frame) /\ \A k \in 1 .. n : g[k] = fr[k]
  BY DEF Popped
<1>4. b \in Seq(Nat) /\ Len(b) <= Len(log) /\ \A i \in 1 .. Len(b) : b[i] = log[i]
  BY DEF Begins
<1>5. Based(g, b)
  BY <1>2, <1>3, <1>4 DEF Based
<1>6. PICK d : d = Cuts(g, b)
  OBVIOUS
<1>7. /\ d \in Seq(Seq(Nat)) /\ Len(d) = n
      /\ \A k \in 1 .. n : d[k] = Part(b, g[k].base, Ends(g, b, k))
      /\ \A k \in 1 .. n : Ends(g, b, k) \in g[k].base .. Len(b)
  BY <1>3, <1>5, <1>6, CutsShape
<1>8. PICK o : o = SubSeq(c, 1, n)
  OBVIOUS
<1>9. o \in Seq(Seq(Nat)) /\ Len(o) = n /\ \A k \in 1 .. n : o[k] = c[k]
  <2>1. n \in 0 .. Len(c)
    BY <1>1
  <2>. QED
    BY <1>1, <1>8, <2>1, UptoProperties DEF Upto
<1>10. ASSUME NEW k \in 1 .. n
       PROVE  d[k] = o[k]
  <2>1. Ends(fr, log, k) = fr[k + 1].base
    BY <1>2 DEF Ends
  <2>2. Ends(g, b, k) = fr[k + 1].base
    <3>1. CASE k = n
      BY <1>3, <3>1 DEF Ends
    <3>2. CASE k # n
      <4>1. k + 1 \in 1 .. n
        BY <3>2
      <4>. QED
        BY <1>3, <3>2, <4>1 DEF Ends
    <3>. QED
      BY <3>1, <3>2
  <2>3. PICK a, e : a = fr[k].base /\ e = fr[k + 1].base
    OBVIOUS
  <2>4. a \in Nat /\ e \in a .. Len(log) /\ e \in a .. Len(b)
    BY <1>1, <1>2, <1>3, <1>7, <2>1, <2>2, <2>3
  <2>5. e <= Len(b) /\ \A i \in 1 .. e : b[i] = log[i]
    <3>1. Len(b) \in Nat /\ a \in Nat /\ e \in Nat /\ e <= Len(b)
      BY <1>4, <2>4, LenProperties
    <3>2. \A i \in 1 .. e : i \in 1 .. Len(b)
      BY <3>1
    <3>. QED
      BY <1>4, <3>1, <3>2
  <2>6. Part(b, a, e) = Part(log, a, e)
    BY <1>1, <1>4, <2>4, <2>5, PartSame
  <2>7. d[k] = Part(b, a, e) /\ o[k] = Part(log, a, e)
    BY <1>1, <1>2, <1>3, <1>7, <1>9, <2>1, <2>2, <2>3
  <2>. QED
    BY <2>6, <2>7
<1>11. d = o
  BY <1>7, <1>9, <1>10, SeqEqual
<1>. QED
  BY <1>6, <1>8, <1>11

(* A change of the log after the last call began changes its part only. *)
LEMMA CutsTop ==
    ASSUME NEW fr, NEW log, Based(fr, log), NEW n \in Nat \ {0}, n = Len(fr),
           NEW b, Based(fr, b), NEW at, at = fr[n].base, \A i \in 1 .. at : b[i] = log[i],
           NEW c, c = Cuts(fr, log)
    PROVE  /\ at \in Nat /\ at <= Len(log) /\ at <= Len(b) /\ c[n] = Part(log, at, Len(log))
           /\ c \in Seq(Seq(Nat)) /\ Len(c) = n
           /\ Cuts(fr, b) = [c EXCEPT ![n] = Part(b, at, Len(b))]
<1>1. /\ Len(log) \in Nat /\ log \in Seq(Nat) /\ c \in Seq(Seq(Nat)) /\ Len(c) = n
      /\ \A k \in 1 .. n :
            /\ fr[k].base \in Nat /\ Ends(fr, log, k) \in fr[k].base .. Len(log)
            /\ c[k] = Part(log, fr[k].base, Ends(fr, log, k))
  BY CutsShape
<1>2. PICK d : d = Cuts(fr, b)
  OBVIOUS
<1>3. /\ Len(b) \in Nat /\ b \in Seq(Nat) /\ d \in Seq(Seq(Nat)) /\ Len(d) = n
      /\ \A k \in 1 .. n :
            /\ Ends(fr, b, k) \in fr[k].base .. Len(b)
            /\ d[k] = Part(b, fr[k].base, Ends(fr, b, k))
  BY <1>2, CutsShape
<1>4. n \in 1 .. n /\ Ends(fr, log, n) = Len(log) /\ Ends(fr, b, n) = Len(b)
  BY DEF Ends
<1>5. /\ at \in Nat /\ at <= Len(log) /\ at <= Len(b)
      /\ c[n] = Part(log, at, Len(log)) /\ d[n] = Part(b, at, Len(b))
  <2>1. at \in Nat
    BY <1>1, <1>4
  <2>2. Len(log) \in at .. Len(log) /\ Len(b) \in at .. Len(b)
    BY <1>1, <1>3, <1>4
  <2>3. at <= Len(log) /\ at <= Len(b)
    BY <1>1, <1>3, <2>1, <2>2
  <2>. QED
    BY <1>1, <1>3, <1>4, <2>1, <2>3
<1>6. ASSUME NEW k \in 1 .. n, k # n
      PROVE  d[k] = c[k]
  <2>1. k + 1 \in 1 .. n
    BY <1>6
  <2>2. Ends(fr, log, k) = fr[k + 1].base /\ Ends(fr, b, k) = fr[k + 1].base
    BY <1>6 DEF Ends
  <2>3. PICK x, e : x = fr[k].base /\ e = fr[k + 1].base
    OBVIOUS
  <2>4. x \in Nat /\ e \in x .. Len(log) /\ e \in Nat /\ e <= at /\ e <= Len(b)
    <3>1. x \in Nat /\ e \in Nat /\ e \in x .. Len(log) /\ e \in x .. Len(b)
      BY <1>1, <1>3, <2>1, <2>2, <2>3
    <3>2. e <= at
      <4>1. CASE k + 1 = n
        BY <1>5, <2>3, <4>1
      <4>2. CASE k + 1 # n
        <5>1. k + 1 < n
          BY <2>1, <4>2
        <5>. QED
          BY <1>4, <2>1, <2>3, <5>1 DEF Based
      <4>. QED
        BY <4>1, <4>2
    <3>. QED
      BY <1>3, <3>1, <3>2
  <2>5. \A i \in 1 .. e : b[i] = log[i]
    <3>1. \A i \in 1 .. e : i \in 1 .. at
      BY <1>5, <2>4
    <3>. QED
      BY <3>1
  <2>6. Part(b, x, e) = Part(log, x, e)
    BY <1>1, <1>3, <2>4, <2>5, PartSame
  <2>. QED
    BY <1>1, <1>3, <2>2, <2>3, <2>6
<1>7. PICK p : p = Part(b, at, Len(b))
  OBVIOUS
<1>8. p \in Seq(Nat)
  <2>1. Len(b) \in at .. Len(b)
    BY <1>3, <1>5
  <2>. QED
    BY <1>3, <1>5, <1>7, <2>1, PartProperties
<1>9. PICK y : y = [c EXCEPT ![n] = p]
  OBVIOUS
<1>10. y \in Seq(Seq(Nat)) /\ Len(y) = n /\ \A k \in 1 .. n : y[k] = IF k = n THEN p ELSE c[k]
  <2>1. PICK S : S = Seq(Nat)
    OBVIOUS
  <2>2. c \in Seq(S) /\ p \in S /\ n \in 1 .. Len(c)
    BY <1>1, <1>8, <2>1
  <2>3. y \in Seq(S) /\ Len(y) = Len(c) /\ \A k \in 1 .. Len(c) : y[k] = IF k = n THEN p ELSE c[k]
    BY <1>9, <2>2, ExceptSeq
  <2>. QED
    BY <1>1, <2>1, <2>3
<1>11. \A k \in 1 .. Len(d) : d[k] = y[k]
  BY <1>3, <1>5, <1>6, <1>7, <1>10
<1>12. d = y
  BY <1>3, <1>10, <1>11, SeqEqual
<1>. QED
  BY <1>1, <1>2, <1>5, <1>7, <1>9, <1>12

(* c is what each of n calls has done. *)
Standing(fr, log, n, c) ==
    Based(fr, log) /\ n \in Nat \ {0} /\ n = Len(fr) /\ c = Cuts(fr, log)

(* A write. *)
LEMMA CutsWork ==
    ASSUME NEW fr, NEW log, NEW n, NEW c, Standing(fr, log, n, c), NEW w \in Nat
    PROVE  Cuts(fr, Append(log, w)) = [c EXCEPT ![n] = Append(c[n], w)]
<1>. Based(fr, log) /\ n \in Nat \ {0} /\ n = Len(fr) /\ c = Cuts(fr, log)
  BY DEF Standing
<1>1. PICK b : b = Append(log, w)
  OBVIOUS
<1>2. log \in Seq(Nat) /\ Len(log) \in Nat
  BY CutsShape
<1>3. /\ b \in Seq(Nat) /\ Len(b) = Len(log) + 1
      /\ \A i \in 1 .. Len(log) : b[i] = log[i]
  BY <1>1, <1>2, AppendProperties
<1>4. Based(fr, b)
  <2>1. \A k \in 1 .. Len(fr) : fr[k].base \in Nat /\ fr[k].base <= Len(log)
    BY CutsShape DEF Based
  <2>2. \A k \in 1 .. Len(fr) : fr[k].base <= Len(b)
    BY <1>2, <1>3, <2>1
  <2>. QED
    BY <1>3, <2>2 DEF Based
<1>5. PICK at : at = fr[n].base
  OBVIOUS
<1>6. at \in Nat /\ at <= Len(log)
  <2>1. n \in 1 .. Len(fr)
    OBVIOUS
  <2>. QED
    BY <1>5, <2>1, CutsShape DEF Based
<1>7. \A i \in 1 .. at : b[i] = log[i]
  <2>1. \A i \in 1 .. at : i \in 1 .. Len(log)
    BY <1>2, <1>6
  <2>. QED
    BY <1>3, <2>1
<1>8. /\ c[n] = Part(log, at, Len(log))
      /\ Cuts(fr, b) = [c EXCEPT ![n] = Part(b, at, Len(b))]
  BY <1>4, <1>5, <1>7, CutsTop
<1>9. Part(b, at, Len(b)) = Append(c[n], w)
  <2>1. at \in 0 .. Len(log)
    BY <1>2, <1>6
  <2>2. Part(Append(log, w), at, Len(log) + 1) = Append(Part(log, at, Len(log)), w)
    BY <1>2, <2>1, PartGrows
  <2>. QED
    BY <1>1, <1>3, <1>8, <2>2
<1>. QED
  BY <1>1, <1>8, <1>9

(* The last call undoes a part of its work. *)
LEMMA CutsUndo ==
    ASSUME NEW fr, NEW log, NEW n, NEW c, Standing(fr, log, n, c),
           NEW b, Begins(b, log), fr[n].base <= Len(b)
    PROVE  \E d \in 0 .. Len(c[n]) : Cuts(fr, b) = [c EXCEPT ![n] = SubSeq(c[n], 1, d)]
<1>. Based(fr, log) /\ n \in Nat \ {0} /\ n = Len(fr) /\ c = Cuts(fr, log)
  BY DEF Standing
<1>1. /\ log \in Seq(Nat) /\ Len(log) \in Nat
      /\ b \in Seq(Nat) /\ Len(b) <= Len(log) /\ \A i \in 1 .. Len(b) : b[i] = log[i]
  BY CutsShape DEF Begins
<1>2. Len(b) \in Nat
  BY <1>1, LenProperties
<1>3. PICK at : at = fr[n].base
  OBVIOUS
<1>4. n \in 1 .. Len(fr) /\ at \in Nat
  <2>1. n \in 1 .. Len(fr)
    OBVIOUS
  <2>. QED
    BY <1>3, <2>1, CutsShape
<1>5. Based(fr, b)
  <2>1. ASSUME NEW k \in 1 .. Len(fr)
        PROVE  fr[k].base <= Len(b)
    <3>1. fr[k].base \in Nat /\ (k = n \/ k < n)
      BY <1>4, CutsShape
    <3>2. k < n => fr[k].base <= at
      BY <1>3, <1>4 DEF Based
    <3>3. at <= Len(b)
      BY <1>3
    <3>. QED
      BY <1>2, <1>3, <1>4, <3>1, <3>2, <3>3
  <2>. QED
    BY <1>1, <2>1 DEF Based
<1>6. \A i \in 1 .. at : b[i] = log[i]
  <2>1. \A i \in 1 .. at : i \in 1 .. Len(b)
    BY <1>2, <1>3, <1>4
  <2>. QED
    BY <1>1, <2>1
<1>7. /\ at <= Len(log) /\ at <= Len(b) /\ c[n] = Part(log, at, Len(log))
      /\ Cuts(fr, b) = [c EXCEPT ![n] = Part(b, at, Len(b))]
  BY <1>3, <1>5, <1>6, CutsTop
<1>8. PICK m, d : m = Len(log) /\ d = Len(b) - at
  OBVIOUS
<1>9. /\ m \in at .. Len(log) /\ d \in 0 .. (m - at) /\ at + d = Len(b) /\ Len(b) \in at .. Len(log)
  BY <1>1, <1>2, <1>4, <1>7, <1>8
<1>10. SubSeq(Part(log, at, m), 1, d) = Part(log, at, at + d)
  BY <1>1, <1>4, <1>9, PartCut
<1>11. Part(b, at, Len(b)) = Part(log, at, Len(b))
  <2>1. PICK e : e = Len(b)
    OBVIOUS
  <2>2. e \in at .. Len(log) /\ e <= Len(b) /\ \A i \in 1 .. e : b[i] = log[i]
    BY <1>1, <1>2, <1>9, <2>1
  <2>3. Part(b, at, e) = Part(log, at, e)
    BY <1>1, <1>4, <2>2, PartSame
  <2>. QED
    BY <2>1, <2>3
<1>12. Len(c[n]) = m - at
  <2>1. Len(Part(log, at, m)) = m - at
    BY <1>1, <1>4, <1>9, PartProperties
  <2>. QED
    BY <1>7, <1>8, <2>1
<1>13. Part(b, at, Len(b)) = SubSeq(c[n], 1, d)
  BY <1>7, <1>8, <1>9, <1>10, <1>11
<1>14. d \in 0 .. Len(c[n])
  BY <1>9, <1>12
<1>. QED
  BY <1>7, <1>13, <1>14

(* g has one call more than fr, and it begins where the log ends. *)
Pushed(fr, log, g) ==
    /\ Based(fr, log) /\ g \in Seq(Frame)
    /\ \E n \in Nat : /\ n = Len(fr) /\ Len(g) = n + 1 /\ \A k \in 1 .. n : g[k] = fr[k]
                      /\ g[n + 1].base = Len(log)

(* The new call has done nothing. *)
LEMMA CutsEnter ==
    ASSUME NEW fr, NEW log, NEW g, Pushed(fr, log, g)
    PROVE  Cuts(g, log) = Append(Cuts(fr, log), <<>>)
<1>a. PICK n \in Nat : /\ n = Len(fr) /\ Len(g) = n + 1 /\ \A k \in 1 .. n : g[k] = fr[k]
                      /\ g[n + 1].base = Len(log)
  BY DEF Pushed
<1>b. PICK c : c = Cuts(fr, log)
  OBVIOUS
<1>. /\ Based(fr, log) /\ g \in Seq(Frame) /\ c = Cuts(fr, log)
     /\ n = Len(fr) /\ Len(g) = n + 1 /\ \A k \in 1 .. n : g[k] = fr[k]
     /\ g[n + 1].base = Len(log)
  BY <1>a, <1>b DEF Pushed
<1>1. /\ Len(log) \in Nat /\ log \in Seq(Nat) /\ c \in Seq(Seq(Nat)) /\ Len(c) = n
      /\ \A k \in 1 .. n :
            /\ fr[k].base \in Nat /\ c[k] = Part(log, fr[k].base, Ends(fr, log, k))
  BY CutsShape
<1>2. \A k \in 1 .. (n + 1) : k \in 1 .. n \/ k = n + 1
  OBVIOUS
<1>3. \A k \in 1 .. n : fr[k].base <= Len(log)
  BY DEF Based
<1>4. Based(g, log)
  <2>1. ASSUME NEW k \in 1 .. (n + 1)
        PROVE  g[k].base <= Len(log)
    <3>1. CASE k \in 1 .. n
      <4>1. g[k] = fr[k] /\ fr[k].base <= Len(log)
        BY <1>3, <3>1
      <4>. QED
        BY <4>1
    <3>2. CASE k = n + 1
      <4>1. g[k].base = Len(log)
        BY <3>2
      <4>. QED
        BY <1>1, <4>1
    <3>. QED
      BY <1>2, <3>1, <3>2
  <2>2. ASSUME NEW j \in 1 .. Len(g), NEW k \in 1 .. Len(g), j < k
        PROVE  g[j].base <= g[k].base
    <3>1. j \in 1 .. n
      BY <2>2
    <3>2. CASE k \in 1 .. n
      BY <2>2, <3>1, <3>2 DEF Based
    <3>3. CASE k = n + 1
      BY <1>3, <3>1, <3>3
    <3>. QED
      BY <1>2, <3>2, <3>3
  <2>. QED
    BY <1>1, <2>1, <2>2 DEF Based
<1>5. PICK d : d = Cuts(g, log)
  OBVIOUS
<1>6. /\ d \in Seq(Seq(Nat)) /\ Len(d) = n + 1
      /\ \A k \in 1 .. (n + 1) : d[k] = Part(log, g[k].base, Ends(g, log, k))
  BY <1>4, <1>5, CutsShape
<1>7. PICK y : y = Append(c, <<>>)
  OBVIOUS
<1>8. y \in Seq(Seq(Nat)) /\ Len(y) = n + 1 /\ y[n + 1] = <<>> /\ \A k \in 1 .. n : y[k] = c[k]
  <2>1. PICK S : S = Seq(Nat)
    OBVIOUS
  <2>2. PICK e : e = <<>>
    OBVIOUS
  <2>3. c \in Seq(S) /\ e \in S
    BY <1>1, <2>1, <2>2
  <2>4. /\ Append(c, e) \in Seq(S) /\ Len(Append(c, e)) = Len(c) + 1
        /\ \A i \in 1 .. Len(c) : Append(c, e)[i] = c[i]
        /\ Append(c, e)[Len(c) + 1] = e
    BY <2>3, AppendProperties
  <2>. QED
    BY <1>1, <1>7, <2>1, <2>2, <2>4
<1>9. d[n + 1] = <<>>
  <2>1. n + 1 \in 1 .. (n + 1) /\ Ends(g, log, n + 1) = Len(log)
    BY DEF Ends
  <2>2. d[n + 1] = SubSeq(log, Len(log) + 1, Len(log))
    BY <1>6, <2>1 DEF Part
  <2>3. Len(log) + 1 \in Int /\ Len(log) \in Int /\ Len(log) < Len(log) + 1
    BY <1>1
  <2>. QED
    BY <2>2, <2>3, SubSeqEmpty
<1>10. ASSUME NEW k \in 1 .. n
       PROVE  d[k] = c[k]
  <2>1. k \in 1 .. (n + 1) /\ k # n + 1
    OBVIOUS
  <2>2. Ends(g, log, k) = g[k + 1].base
    BY <2>1 DEF Ends
  <2>3. Ends(fr, log, k) = g[k + 1].base
    <3>1. CASE k = n
      BY <3>1 DEF Ends
    <3>2. CASE k # n
      <4>1. k + 1 \in 1 .. n
        BY <3>2
      <4>. QED
        BY <3>2, <4>1 DEF Ends
    <3>. QED
      BY <3>1, <3>2
  <2>. QED
    BY <1>1, <1>6, <2>1, <2>2, <2>3
<1>11. \A k \in 1 .. Len(d) : d[k] = y[k]
  BY <1>2, <1>6, <1>8, <1>9, <1>10
<1>12. d = y
  BY <1>6, <1>8, <1>11, SeqEqual
<1>. QED
  BY <1>5, <1>7, <1>12

-----------------------------------------------------------------------------
(* The units of work that the calls stand for. *)
Units    == [k \in 1 .. Len(frames) |-> Unit(k)]
Blank(n) == [k \in 1 .. n |-> <<>>]

(* They cut the log of an active transaction; an ended one has no work. *)
LEMMA UnitsAre ==
    /\ sqlTx = "active" => Units = Cuts(frames, session.log)
    /\ sqlTx # "active" => Units = Blank(Len(frames))
    /\ sqlTx' = "active" => Units' = Cuts(frames', session'.log)
    /\ sqlTx' # "active" => Units' = Blank(Len(frames'))
BY DEF Units, Unit, Cuts, Part, Ends, Blank

(* The steps of NestedWork in terms of them: a call begins. *)
LEMMA MapsBegin ==
    ASSUME Units = <<>>, result = "none", sqlTx # "done",
           Units' = << <<>> >>, UNCHANGED <<durable, result>>, sqlTx' # "done"
    PROVE  NW!Begin
BY DEF NW!Begin, Units

(* BeginTx fails. *)
LEMMA MapsBeginFails ==
    ASSUME Units = <<>>, result = "none", Units' = Units, result' = "err",
           UNCHANGED <<durable, sqlTx>>
    PROVE  NW!BeginFails
BY DEF NW!BeginFails, Units

(* The innermost call does a piece of work. *)
LEMMA MapsWork ==
    ASSUME Units # <<>>, sqlTx = "active", NEW w \in 1 .. MaxCalls, NEW n, n = Len(Units),
           Units' = [Units EXCEPT ![n] = Append(Units[n], w)], UNCHANGED <<durable, result, sqlTx>>
    PROVE  NW!Work
BY DEF NW!Work, NW!Depth, Units

(* The innermost call undoes the end of its work. *)
LEMMA MapsUndo ==
    ASSUME Units # <<>>, sqlTx = "active", NEW n, n = Len(Units), NEW d \in 0 .. Len(Units[n]),
           Units' = [Units EXCEPT ![n] = SubSeq(Units[n], 1, d)],
           UNCHANGED <<durable, result, sqlTx>>
    PROVE  NW!Undo
BY DEF NW!Undo, NW!Depth, NW!Innermost, Units

(* A call begins in the innermost one. *)
LEMMA MapsEnter ==
    ASSUME Units # <<>>, sqlTx = "active", Units' = Append(Units, <<>>),
           UNCHANGED <<durable, result, sqlTx>>
    PROVE  NW!Enter
BY DEF NW!Enter, Units

(* The innermost unit joined to the one it runs in. *)
Merged == [SubSeq(Units, 1, Len(Units) - 1) EXCEPT ![Len(Units) - 1] =
             SubSeq(Units, 1, Len(Units) - 1)[Len(Units) - 1] \o Units[Len(Units)]]

(* A call succeeds and hands its work to its caller. *)
LEMMA MapsMerge ==
    ASSUME Len(Units) > 1, Units' = Merged, result' = "nil", UNCHANGED <<durable, sqlTx>>
    PROVE  NW!Merge
BY DEF NW!Merge, NW!Outer, NW!Innermost, NW!Depth, Units, Merged

(* A call fails and the database refuses to undo its work. *)
LEMMA MapsStuck ==
    ASSUME Len(Units) > 1, Units' = Merged, result' = "err", UNCHANGED <<durable, sqlTx>>,
           "refuse" \in Faults, sqlTx = "active"
    PROVE  NW!Stuck
BY DEF NW!Stuck, NW!Outer, NW!Innermost, NW!Depth, Units, Merged

(* A call fails and its work is undone. *)
LEMMA MapsDiscard ==
    ASSUME Len(Units) > 1, Units' = SubSeq(Units, 1, Len(Units) - 1), result' = "err",
           UNCHANGED <<durable, sqlTx>>
    PROVE  NW!Discard
BY DEF NW!Discard, NW!Outer, NW!Depth, Units

(* The outermost call succeeds. *)
LEMMA MapsCommit ==
    ASSUME Len(Units) = 1, sqlTx = "active", Units' = <<>>, durable' = Units[1],
           result' = "nil", sqlTx' = "done"
    PROVE  NW!Commit
BY DEF NW!Commit, NW!Innermost, NW!Depth, Units

(* The outermost call fails. *)
LEMMA MapsAbort ==
    ASSUME Len(Units) = 1, Units' = <<>>, result' = "err", sqlTx' = "done",
           \/ durable' = durable
           \/ "lost" \in Faults /\ sqlTx = "active" /\ durable' = Units[1]
    PROVE  NW!Abort
BY DEF NW!Abort, NW!Innermost, NW!Depth, Units

(* The database drops the transaction. *)
LEMMA MapsDropped ==
    ASSUME Units # <<>>, sqlTx = "active", Units' = Blank(Len(Units)), sqlTx' = "done",
           UNCHANGED <<durable, result>>
    PROVE  NW!Dropped
BY DEF NW!Dropped, NW!Depth, Units, Blank

(* Nothing changes that NestedWork sees. *)
LEMMA MapsStutter ==
    ASSUME Units' = Units, UNCHANGED <<durable, result, sqlTx>>
    PROVE  UNCHANGED NW!vars
BY DEF NW!vars, Units

-----------------------------------------------------------------------------
(* The units of an ended transaction are empty. *)
LEMMA BlankShape ==
    ASSUME NEW n \in Nat
    PROVE  /\ Blank(n) \in Seq(Seq(Nat)) /\ Len(Blank(n)) = n
           /\ \A k \in 1 .. n : Blank(n)[k] = <<>>
           /\ n = 0 => Blank(n) = <<>>
<1>1. PICK S, e : S = Seq(Nat) /\ e = <<>>
  OBVIOUS
<1>2. e \in S
  BY <1>1
<1>3. PICK f : f = [k \in 1 .. n |-> e]
  OBVIOUS
<1>4. f \in [1 .. n -> S] /\ \A k \in 1 .. n : f[k] = e
  BY <1>2, <1>3
<1>5. f \in Seq(S) /\ Len(f) = n
  BY <1>4, FunctionIsSeq
<1>6. n = 0 => f = <<>>
  BY <1>5, EmptySeq
<1>7. f = Blank(n)
  BY <1>1, <1>3 DEF Blank
<1>. QED
  BY <1>1, <1>4, <1>5, <1>6, <1>7

(* They stay so when the last call ends, *)
LEMMA BlankPops ==
    ASSUME NEW n \in Nat
    PROVE  SubSeq(Blank(n + 1), 1, n) = Blank(n)
<1>1. PICK a, m : a = Blank(m) /\ m = n + 1
  OBVIOUS
<1>2. a \in Seq(Seq(Nat)) /\ Len(a) = m /\ \A k \in 1 .. m : a[k] = <<>>
  BY <1>1, BlankShape
<1>3. PICK b : b = Blank(n)
  OBVIOUS
<1>4. b \in Seq(Seq(Nat)) /\ Len(b) = n /\ \A k \in 1 .. n : b[k] = <<>>
  BY <1>3, BlankShape
<1>5. PICK S : S = Seq(Nat)
  OBVIOUS
<1>6. n \in 0 .. Len(a) /\ \A k \in 1 .. n : k \in 1 .. m
  BY <1>1, <1>2
<1>7. PICK u : u = Upto(a, n)
  OBVIOUS
<1>8. u \in Seq(S) /\ Len(u) = n /\ \A k \in 1 .. n : u[k] = a[k]
  BY <1>2, <1>5, <1>6, <1>7, UptoProperties
<1>9. \A k \in 1 .. Len(u) : u[k] = b[k]
  BY <1>2, <1>4, <1>6, <1>8
<1>10. u = b
  BY <1>4, <1>5, <1>8, <1>9, SeqEqual
<1>. QED
  BY <1>1, <1>3, <1>7, <1>10 DEF Upto

(* whether or not its work is joined to its caller's. *)
LEMMA BlankMerges ==
    ASSUME NEW n \in Nat \ {0}
    PROVE  Joined(Blank(n + 1), n) = Blank(n)
<1>0. PICK o, c : o = Blank(n) /\ c = Blank(n + 1)
  OBVIOUS
<1>1. o \in Seq(Seq(Nat)) /\ Len(o) = n /\ \A k \in 1 .. n : o[k] = <<>>
  BY <1>0, BlankShape
<1>2. PICK m : m = n + 1
  OBVIOUS
<1>3. m \in Nat /\ m \in 1 .. m /\ c = Blank(m)
  BY <1>0, <1>2
<1>4. c[m] = <<>>
  BY <1>3, BlankShape
<1>5. n \in 1 .. n
  OBVIOUS
<1>6. o[n] \o c[n + 1] = o[n]
  <2>1. o[n] = <<>> /\ c[n + 1] = <<>>
    BY <1>1, <1>2, <1>4, <1>5
  <2>2. <<>> \o <<>> = <<>>
    OBVIOUS
  <2>. QED
    BY <2>1, <2>2
<1>7. DOMAIN o = 1 .. n /\ o = [k \in DOMAIN o |-> o[k]]
  BY <1>0 DEF Blank
<1>8. PICK v : v = o[n]
  OBVIOUS
<1>9. [o EXCEPT ![n] = v] = o
  BY <1>7, <1>8
<1>10. SubSeq(c, 1, n) = o
  BY <1>0, BlankPops
<1>. QED
  BY <1>0, <1>6, <1>8, <1>9, <1>10 DEF Joined

(* A stack of calls as the invariants have it is one of units. *)
LEMMA UnitsShape ==
    ASSUME Inv, Disciplined
    PROVE  /\ Units \in Seq(Seq(Nat)) /\ Len(Units) = Len(frames) /\ Len(frames) \in Nat
           /\ Units = <<>> <=> frames = <<>>
           /\ sqlTx = "active" => Based(frames, session.log)
<1>1. /\ frames \in Seq(Frame) /\ Len(frames) \in Nat /\ session.log \in Seq(Nat)
      /\ StackOrder /\ LogByCall
  BY InvParts, SessionParts
<1>2. sqlTx = "active" => Based(frames, session.log)
  BY <1>1 DEF Based, LogByCall, StackOrder
<1>3. CASE sqlTx = "active"
  <2>1. PICK fr, log, c : fr = frames /\ log = session.log /\ c = Cuts(fr, log)
    OBVIOUS
  <2>2. c \in Seq(Seq(Nat)) /\ Len(c) = Len(fr)
    BY <1>2, <1>3, <2>1, CutsShape
  <2>3. Units = c
    BY <1>3, <2>1, UnitsAre
  <2>. QED
    BY <1>1, <1>2, <2>1, <2>2, <2>3, EmptySeq
<1>4. CASE sqlTx # "active"
  <2>1. PICK n \in Nat : n = Len(frames)
    BY <1>1
  <2>2. Blank(n) \in Seq(Seq(Nat)) /\ Len(Blank(n)) = n
    BY BlankShape
  <2>3. Units = Blank(n)
    BY <1>4, <2>1, UnitsAre
  <2>. QED
    BY <1>1, <1>4, <2>1, <2>2, <2>3, EmptySeq
<1>. QED
  BY <1>3, <1>4

-----------------------------------------------------------------------------
(* ROLLBACK TO leaves a beginning of the log, up to the savepoint. *)
LEMMA RolledBackBegins ==
    ASSUME NEW s, WellFormed(s), NEW i \in DOMAIN s.marks, NEW r, r = RolledBackTo(s, i)
    PROVE  Begins(r.log, s.log) /\ Len(r.log) = s.marks[i].at
<1>1. /\ WellFormed(r) /\ s.marks[i].at \in 0 .. Len(s.log) /\ Len(r.log) = s.marks[i].at
      /\ \A j \in 1 .. s.marks[i].at : r.log[j] = s.log[j]
  BY RolledBackToProperties
<1>2. r.log \in Seq(Nat) /\ Len(s.log) \in Nat
  BY <1>1, SessionParts
<1>. QED
  BY <1>1, <1>2 DEF Begins

(* How the end of an inner call leaves the log of an active transaction. *)
LEMMA InnerEndLog ==
    ASSUME Inv, Disciplined, Len(frames) > 1, NEW err \in BOOLEAN, NEW rb \in BOOLEAN,
           \/ Commit(rb) /\ err = rb
           \/ Rollback(rb) /\ err = TRUE
    PROVE  /\ sqlTx' = sqlTx /\ durable' = durable
           /\ \/ sqlTx # "active"
              \/ ~err /\ session'.log = session.log
              \/ err /\ "refuse" \in Faults /\ session'.log = session.log
              \/ err /\ Begins(session'.log, session.log) /\ Len(session'.log) = Top.base
<1>1. depth > 0 /\ frames # <<>> /\ WellFormed(session)
  BY InvParts, EmptySeq
<1>2. sqlTx' = sqlTx /\ durable' = durable
  BY InnerEndSession
<1>3. CASE sqlTx # "active"
  BY <1>2, <1>3
<1>4. CASE sqlTx = "active"
  <2>1. PICK i \in DOMAIN session.marks :
              Named(depth - 1) = {i} /\ session.marks[i].at = Top.base
    BY <1>4, TopMark
  <2>2. RELEASE(depth - 1) # {} /\ ROLLBACKTO(depth - 1) # {}
    BY <2>1 DEF RELEASE, ROLLBACKTO
  <2>3. CASE Commit(rb) /\ err = rb
    <3>1. \/ ~rb /\ session' = session
          \/ ~rb /\ session' \in RELEASE(depth - 1)
          \/ rb /\ "refuse" \in Faults /\ session' = session
      BY <1>1, <1>4, <2>2, <2>3 DEF Commit, SavepointExec, savepointName
    <3>2. session' \in RELEASE(depth - 1) => session'.log = session.log
      <4>1. session' \in RELEASE(depth - 1) => session' = Released(session, i)
        BY <2>1 DEF RELEASE
      <4>. QED
        BY <1>1, <2>1, <4>1, ReleasedProperties
    <3>. QED
      BY <1>2, <2>3, <3>1, <3>2
  <2>4. CASE Rollback(rb) /\ err = TRUE
    <3>1. \/ session' \in ROLLBACKTO(depth - 1)
          \/ "refuse" \in Faults /\ session' = session
      BY <1>1, <1>4, <2>2, <2>4 DEF Rollback, SavepointExec, savepointName
    <3>2. CASE session' \in ROLLBACKTO(depth - 1)
      <4>1. session' = RolledBackTo(session, i)
        BY <2>1, <3>2 DEF ROLLBACKTO
      <4>2. Begins(session'.log, session.log) /\ Len(session'.log) = Top.base
        BY <1>1, <2>1, <4>1, RolledBackBegins
      <4>. QED
        BY <1>2, <2>4, <4>2
    <3>. QED
      BY <1>2, <2>4, <3>1, <3>2
  <2>. QED
    BY <2>3, <2>4
<1>. QED
  BY <1>3, <1>4

(* The top call has left the stack. *)
LEMMA LeavePops ==
    ASSUME Inv, Disciplined, frames # <<>>, NEW err \in BOOLEAN, NEW resume \in {"fn", "panic"},
           Leave(err, resume)
    PROVE  /\ Popped(frames', frames)
           /\ result' = (IF err THEN "err" ELSE "nil")
           /\ Len(frames') = Len(frames) - 1
           /\ Len(frames) = 1 => frames' = <<>>
<1>1. TypeOK
  BY InvParts
<1>2. /\ frames' \in Seq(Frame) /\ Len(frames') = Len(frames) - 1
      /\ \A k \in 1 .. (Len(frames) - 1) : frames'[k] = frames[k]
      /\ Len(frames) = 1 => frames' = <<>>
  BY <1>1, LeaveTypes
<1>3. result' = IF err THEN "err" ELSE "nil"
  BY DEF Leave
<1>. QED
  BY <1>2, <1>3 DEF Popped

(* An inner call hands its work to its caller, keeps it there though it has *)
(* failed, or loses it.                                                     *)
LEMMA InnerEndRefines ==
    ASSUME Inv, Disciplined, Len(frames) > 1, NEW err \in BOOLEAN, NEW rb \in BOOLEAN,
           \/ Commit(rb) /\ err = rb
           \/ Rollback(rb) /\ err = TRUE,
           NEW resume \in {"fn", "panic"}, Leave(err, resume)
    PROVE  NW!Next
<1>1. /\ Units \in Seq(Seq(Nat)) /\ Len(Units) = Len(frames) /\ Len(frames) \in Nat
      /\ frames # <<>>
      /\ sqlTx = "active" => Based(frames, session.log)
  BY UnitsShape, EmptySeq
<1>2. /\ Popped(frames', frames) /\ Len(frames') = Len(frames) - 1
      /\ err => result' = "err"
      /\ ~err => result' = "nil"
  BY <1>1, LeavePops
<1>3. /\ sqlTx' = sqlTx /\ durable' = durable
      /\ \/ sqlTx # "active"
         \/ ~err /\ session'.log = session.log
         \/ err /\ "refuse" \in Faults /\ session'.log = session.log
         \/ err /\ Begins(session'.log, session.log) /\ Len(session'.log) = Top.base
  BY InnerEndLog
<1>4. PICK n \in Nat \ {0} : n + 1 = Len(frames) /\ n = Len(frames) - 1 /\ n = Len(Units) - 1
  <2>1. Len(frames) - 1 \in Nat \ {0} /\ Len(frames) - 1 + 1 = Len(frames)
    BY <1>1
  <2>. QED
    BY <1>1, <2>1
<1>5. PICK c, o : c = Units /\ o = SubSeq(c, 1, n)
  OBVIOUS
<1>6. Merged = Joined(c, n)
  BY <1>1, <1>4, <1>5 DEF Merged, Joined
<1>7. Len(Units) > 1 /\ UNCHANGED <<durable, sqlTx>>
  BY <1>1, <1>3
<1>8. CASE sqlTx # "active"
  <2>1. Units = Blank(n + 1)
    BY <1>4, <1>8, UnitsAre
  <2>2. Units' = Blank(n)
    <3>1. sqlTx' # "active" /\ Len(frames') = n
      BY <1>2, <1>3, <1>4, <1>8
    <3>. QED
      BY <3>1, UnitsAre
  <2>3. o = Blank(n)
    BY <1>5, <2>1, BlankPops
  <2>4. Merged = o
    BY <1>5, <1>6, <2>1, <2>3, BlankMerges
  <2>5. CASE err
    <3>1. Units' = SubSeq(Units, 1, Len(Units) - 1)
      BY <1>4, <1>5, <2>2, <2>3
    <3>2. NW!Discard
      BY <1>2, <1>7, <2>5, <3>1, MapsDiscard
    <3>. QED
      BY <3>2 DEF NW!Next
  <2>6. CASE ~err
    <3>1. NW!Merge
      BY <1>2, <1>7, <2>2, <2>3, <2>4, <2>6, MapsMerge
    <3>. QED
      BY <3>1 DEF NW!Next
  <2>. QED
    BY <2>5, <2>6
<1>9. ASSUME sqlTx = "active", session'.log = session.log
      PROVE  Units' = Merged
  <2>1. PICK fr, g, log : fr = frames /\ g = frames' /\ log = session.log
    OBVIOUS
  <2>2. Ending(fr, log, g, n, c)
    BY <1>1, <1>2, <1>4, <1>5, <1>9, <2>1, UnitsAre DEF Ending
  <2>3. Cuts(g, log) = Joined(c, n)
    BY <2>2, CutsMerge
  <2>4. Units' = Cuts(g, log)
    BY <1>3, <1>9, <2>1, UnitsAre
  <2>. QED
    BY <1>6, <2>3, <2>4
<1>10. CASE sqlTx = "active" /\ ~err /\ session'.log = session.log
  <2>1. NW!Merge
    BY <1>2, <1>7, <1>9, <1>10, MapsMerge
  <2>. QED
    BY <2>1 DEF NW!Next
<1>11. CASE sqlTx = "active" /\ err /\ "refuse" \in Faults /\ session'.log = session.log
  <2>1. NW!Stuck
    BY <1>2, <1>7, <1>9, <1>11, MapsStuck
  <2>. QED
    BY <2>1 DEF NW!Next
<1>12. CASE sqlTx = "active" /\ err /\ Begins(session'.log, session.log)
               /\ Len(session'.log) = Top.base
  <2>1. PICK fr, g, log, b : fr = frames /\ g = frames' /\ log = session.log /\ b = session'.log
    OBVIOUS
  <2>2. Ending(fr, log, g, n, c) /\ Begins(b, log) /\ Len(b) = fr[n + 1].base
    BY <1>1, <1>2, <1>4, <1>5, <1>12, <2>1, UnitsAre DEF Top, Ending
  <2>3. Cuts(g, b) = SubSeq(c, 1, n)
    BY <2>2, CutsDiscard
  <2>4. Units' = Cuts(g, b)
    BY <1>3, <1>12, <2>1, UnitsAre
  <2>5. Units' = SubSeq(Units, 1, Len(Units) - 1)
    BY <1>4, <1>5, <2>3, <2>4
  <2>6. NW!Discard
    BY <1>2, <1>7, <1>12, <2>5, MapsDiscard
  <2>. QED
    BY <2>6 DEF NW!Next
<1>. QED
  BY <1>3, <1>8, <1>10, <1>11, <1>12

(* Before runNew has begun nothing has been returned, and the outermost     *)
(* call begins with an empty log.                                           *)
Beginning ==
    Disciplined =>
        /\ ctl = "idle" => result = "none"
        /\ frames # <<>> => frames[1].base = 0

(* The outermost call ends: the whole log becomes durable, or nothing. *)
LEMMA OuterEndRefines ==
    ASSUME Inv, Beginning, Disciplined, Len(frames) = 1, NEW err \in BOOLEAN, NEW rb \in BOOLEAN,
           \/ Commit(rb) /\ err = rb
           \/ (Rollback(rb) \/ rollbackFully(rb)) /\ err = TRUE,
           NEW resume \in {"fn", "panic"}, Leave(err, resume)
    PROVE  NW!Next
<1>1. /\ Len(Units) = 1 /\ frames # <<>>
      /\ sqlTx = "active" => Based(frames, session.log)
  <2>1. Len(<<>>) = 0
    OBVIOUS
  <2>2. frames # <<>>
    BY <2>1
  <2>. QED
    BY <2>2, UnitsShape
<1>2. /\ depth = 0 /\ session.log \in Seq(Nat) /\ Len(session.log) \in Nat
  <2>1. depth = Len(frames) - 1 /\ WellFormed(session)
    BY <1>1, InvParts
  <2>2. session.log \in Seq(Nat) /\ Len(session.log) \in Nat
    BY <2>1, SessionParts
  <2>. QED
    BY <2>1, <2>2
<1>3. /\ frames' = <<>>
      /\ err => result' = "err"
      /\ ~err => result' = "nil"
  BY <1>1, LeavePops
<1>4. /\ sqlTx' = "done"
      /\ \/ sqlTx = "active" /\ ~err /\ durable' = session.log
         \/ err /\ durable' = durable
         \/ err /\ sqlTx = "active" /\ "lost" \in Faults /\ durable' = session.log
  <2>1. CASE Commit(rb) /\ err = rb
    <3>1. SqlCommit(rb)
      BY <1>2, <2>1 DEF Commit
    <3>. QED
      BY <2>1, <3>1 DEF SqlCommit, SqlEnd
  <2>2. CASE (Rollback(rb) \/ rollbackFully(rb)) /\ err = TRUE
    <3>1. SqlRollback(rb)
      BY <1>2, <2>2 DEF Rollback, rollbackFully
    <3>. QED
      BY <2>2, <3>1 DEF SqlRollback, SqlEnd
  <2>. QED
    BY <2>1, <2>2
<1>5. Units' = <<>>
  <2>1. Len(frames') = 0
    BY <1>3, EmptySeq
  <2>2. Units' = Blank(0)
    BY <1>4, <2>1, UnitsAre
  <2>. QED
    BY <2>2, BlankShape
<1>6. sqlTx = "active" => Units[1] = session.log
  <2>. SUFFICES ASSUME sqlTx = "active"
                PROVE  Units[1] = session.log
    OBVIOUS
  <2>1. PICK fr, log : fr = frames /\ log = session.log
    OBVIOUS
  <2>2. Based(fr, log) /\ Len(fr) = 1 /\ fr[1].base = 0 /\ Units = Cuts(fr, log)
    <3>1. Units = Cuts(frames, session.log)
      BY UnitsAre
    <3>2. frames[1].base = 0
      BY <1>1 DEF Beginning
    <3>. QED
      BY <1>1, <2>1, <3>1, <3>2
  <2>3. Cuts(fr, log)[1] = Part(log, 0, Len(log))
    BY <2>2 DEF Cuts, Ends
  <2>4. Part(log, 0, Len(log)) = log
    BY <1>2, <2>1, SubSeqFull DEF Part
  <2>. QED
    BY <2>1, <2>2, <2>3, <2>4
<1>7. CASE sqlTx = "active" /\ ~err /\ durable' = session.log
  <2>1. durable' = Units[1] /\ result' = "nil"
    BY <1>3, <1>6, <1>7
  <2>2. NW!Commit
    BY <1>1, <1>4, <1>5, <1>7, <2>1, MapsCommit
  <2>. QED
    BY <2>2 DEF NW!Next
<1>8. CASE err /\ (\/ durable' = durable
                   \/ sqlTx = "active" /\ "lost" \in Faults /\ durable' = session.log)
  <2>1. /\ result' = "err"
        /\ \/ durable' = durable
           \/ "lost" \in Faults /\ sqlTx = "active" /\ durable' = Units[1]
    BY <1>3, <1>6, <1>8
  <2>2. NW!Abort
    BY <1>1, <1>4, <1>5, <2>1, MapsAbort
  <2>. QED
    BY <2>2 DEF NW!Next
<1>. QED
  BY <1>4, <1>7, <1>8

(* The end of a call, by return or by panic. *)
LEMMA EndRefines ==
    ASSUME Inv, Beginning, Disciplined, FnReturns \/ Unwind
    PROVE  NW!Next
<1>1. TypeOK /\ frames # <<>>
  BY InvParts DEF FnReturns, Unwind, Phase
<1>2. CASE FnReturns
  <2>1. PICK fnErr \in BOOLEAN, err \in BOOLEAN : finishTx(fnErr, err) /\ Leave(err, "fn")
    BY <1>2 DEF FnReturns
  <2>2. PICK rb \in BOOLEAN : \/ Commit(rb) /\ err = rb
                              \/ Rollback(rb) /\ err = TRUE
    BY <2>1 DEF finishTx
  <2>3. CASE Len(frames) > 1
    BY <2>1, <2>2, <2>3, InnerEndRefines
  <2>4. CASE Len(frames) = 1
    BY <2>1, <2>2, <2>4, OuterEndRefines
  <2>. QED
    BY <1>1, <2>3, <2>4, OneCall
<1>3. CASE Unwind
  <2>1. PICK rb \in BOOLEAN : IF Len(frames) > 1 THEN Rollback(rb) ELSE rollbackFully(rb)
    BY <1>3 DEF Unwind
  <2>2. Leave(TRUE, "panic")
    BY <1>3 DEF Unwind
  <2>3. CASE Len(frames) > 1
    BY <2>1, <2>2, <2>3, InnerEndRefines
  <2>4. CASE ~(Len(frames) > 1)
    <3>1. Len(frames) = 1
      BY <1>1, <2>4, OneCall
    <3>. QED
      BY <2>1, <2>2, <2>4, <3>1, OuterEndRefines
  <2>. QED
    BY <2>3, <2>4
<1>. QED
  BY <1>2, <1>3

(* runNew begins the outermost unit. *)
LEMMA RunNewRefines ==
    ASSUME Inv, Beginning, Disciplined, runNew
    PROVE  NW!Next
<1>1. /\ frames = <<>> /\ sqlTx = "none" /\ session = EmptySession /\ result = "none" /\ TypeOK
      /\ Units = <<>>
  BY InvParts, UnitsShape DEF runNew, Phase, LogByCall, Beginning
<1>2. Enter /\ sqlTx' = "active" /\ session' = session /\ durable' = durable
  BY DEF runNew, db
<1>3. /\ frames' \in Seq(Frame) /\ Len(frames') = 1 /\ result' = result
      /\ frames'[1].base = 0
  <2>1. Len(frames) = 0 /\ Len(session.log) = 0
    BY <1>1 DEF EmptySession
  <2>. QED
    BY <1>1, <1>2, <2>1, EnterTypes
<1>4. PICK g, log, c : g = frames' /\ log = session'.log /\ c = Cuts(g, log)
  OBVIOUS
<1>5. log = <<>> /\ Len(log) = 0
  BY <1>1, <1>2, <1>4 DEF EmptySession
<1>6. c = << <<>> >>
  <2>1. c = [k \in 1 .. 1 |-> Part(log, g[k].base, Ends(g, log, k))]
    BY <1>3, <1>4 DEF Cuts
  <2>2. Part(log, g[1].base, Ends(g, log, 1)) = <<>>
    <3>1. g[1].base = 0 /\ Ends(g, log, 1) = 0
      BY <1>3, <1>4, <1>5 DEF Ends
    <3>2. SubSeq(log, 0 + 1, 0) = <<>>
      BY SubSeqEmpty
    <3>. QED
      BY <3>1, <3>2 DEF Part
  <2>3. c = [k \in 1 .. 1 |-> <<>>]
    BY <2>1, <2>2
  <2>. QED
    BY <2>3
<1>7. Units' = << <<>> >>
  BY <1>2, <1>4, <1>6, UnitsAre
<1>8. NW!Begin
  BY <1>1, <1>2, <1>3, <1>7, MapsBegin
<1>. QED
  BY <1>8 DEF NW!Next

(* Transaction begins a unit in the one under way. *)
LEMMA TransactionRefines ==
    ASSUME Inv, Disciplined, Transaction
    PROVE  NW!Next
<1>1. /\ ctl = "fn" /\ sqlTx = "active" /\ session' \in SAVEPOINT(depth)
      /\ Enter /\ sqlTx' = "active" /\ durable' = durable
  BY DEF Transaction, SavepointExec, savepointName
<1>2. /\ TypeOK /\ depth \in Nat /\ Units # <<>>
      /\ Based(frames, session.log) /\ Len(frames) \in Nat
  BY <1>1, InvParts, UnitsShape DEF Phase
<1>3. session'.log = session.log
  <2>1. \A k \in 2 .. 0 : k - 2 # depth
    OBVIOUS
  <2>. QED
    BY <1>1, <1>2, <2>1, MarkedKeepsNames
<1>4. /\ frames' \in Seq(Frame) /\ Len(frames') = Len(frames) + 1 /\ result' = result
      /\ \A k \in 1 .. Len(frames) : frames'[k] = frames[k]
      /\ frames'[Len(frames) + 1].base = Len(session.log)
  BY <1>1, <1>2, EnterTypes
<1>5. PICK fr, g, log : fr = frames /\ g = frames' /\ log = session.log
  OBVIOUS
<1>6. Pushed(fr, log, g)
  BY <1>2, <1>4, <1>5 DEF Pushed
<1>7. Cuts(g, log) = Append(Cuts(fr, log), <<>>)
  BY <1>6, CutsEnter
<1>8. Units = Cuts(fr, log) /\ Units' = Cuts(g, log)
  BY <1>1, <1>3, <1>5, UnitsAre
<1>9. NW!Enter
  BY <1>1, <1>2, <1>4, <1>7, <1>8, MapsEnter
<1>. QED
  BY <1>9 DEF NW!Next

(* A write is a piece of work of the call that runs. *)
LEMMA ExecRefines ==
    ASSUME Inv, Disciplined, Exec
    PROVE  NW!Next
<1>1. /\ sqlTx = "active" /\ ctl = "fn" /\ session' = Written(session, Top.id)
      /\ UNCHANGED <<durable, result, sqlTx, frames>>
  BY DEF Exec, tx
<1>2. /\ TypeOK /\ StackOrder /\ frames # <<>> /\ Units # <<>> /\ Len(Units) = Len(frames)
      /\ Based(frames, session.log) /\ WellFormed(session) /\ calls \in Nat
      /\ Len(frames) \in Nat \ {0}
  BY <1>1, InvParts, UnitsShape, EmptySeq DEF Phase
<1>3. PICK w : w = Top.id
  OBVIOUS
<1>4. w \in Nat /\ w \in 1 .. MaxCalls
  <2>1. Len(frames) \in 1 .. Len(frames)
    BY <1>2
  <2>2. w \in 1 .. calls /\ calls <= MaxCalls
    BY <1>2, <1>3, <2>1 DEF Top, StackOrder
  <2>. QED
    BY <1>2, <2>2, TxAssumption
<1>5. session'.log = Append(session.log, w)
  BY <1>1, <1>2, <1>3, <1>4, WrittenProperties
<1>6. PICK fr, log, n, c : fr = frames /\ log = session.log /\ n = Len(fr) /\ c = Cuts(fr, log)
  OBVIOUS
<1>7. Standing(fr, log, n, c)
  BY <1>2, <1>6 DEF Standing
<1>8. Cuts(fr, Append(log, w)) = [c EXCEPT ![n] = Append(c[n], w)]
  BY <1>4, <1>7, CutsWork
<1>9. Units = c /\ Units' = Cuts(fr, Append(log, w))
  BY <1>1, <1>5, <1>6, UnitsAre
<1>10. n = Len(Units) /\ Units' = [Units EXCEPT ![n] = Append(Units[n], w)]
  BY <1>2, <1>6, <1>8, <1>9
<1>11. NW!Work
  BY <1>1, <1>2, <1>4, <1>10, MapsWork
<1>. QED
  BY <1>11 DEF NW!Next

(* ROLLBACK TO a savepoint of its own undoes a part of the call's work. *)
LEMMA RollbackToRefines ==
    ASSUME Inv, Disciplined, NEW m \in UserNames, RollbackTo(m)
    PROVE  NW!Next
<1>1. /\ sqlTx = "active" /\ ctl = "fn" /\ session' \in ROLLBACKTO(m)
      /\ UNCHANGED <<durable, result, sqlTx, frames>>
      /\ \A i \in Named(m) : session.marks[i].at >= Top.base
  BY DEF RollbackTo, SavepointExec, OfThisCall, tx
<1>2. /\ frames # <<>> /\ Units # <<>> /\ Len(Units) = Len(frames)
      /\ Based(frames, session.log) /\ WellFormed(session)
      /\ Len(frames) \in Nat \ {0} /\ TypeOK
  BY <1>1, InvParts, UnitsShape, EmptySeq DEF Phase
<1>3. PICK i \in DOMAIN session.marks :
            session' = RolledBackTo(session, i) /\ session.marks[i].at >= Top.base
  BY <1>1 DEF ROLLBACKTO, Named
<1>4. Begins(session'.log, session.log) /\ Len(session'.log) = session.marks[i].at
  BY <1>2, <1>3, RolledBackBegins
<1>5. Top.base <= Len(session'.log)
  <2>1. Top.base \in Nat /\ session.marks[i].at \in Nat
    BY <1>2, <1>3, TopType, SessionParts
  <2>. QED
    BY <1>3, <1>4, <2>1
<1>6. PICK fr, log, n, c, b :
         fr = frames /\ log = session.log /\ n = Len(fr) /\ c = Cuts(fr, log) /\ b = session'.log
  OBVIOUS
<1>7. Standing(fr, log, n, c) /\ Begins(b, log) /\ fr[n].base <= Len(b)
  BY <1>2, <1>4, <1>5, <1>6 DEF Standing, Top
<1>8. PICK d \in 0 .. Len(c[n]) : Cuts(fr, b) = [c EXCEPT ![n] = SubSeq(c[n], 1, d)]
  BY <1>7, CutsUndo
<1>9. Units = c /\ Units' = Cuts(fr, b)
  BY <1>1, <1>6, UnitsAre
<1>10. /\ n = Len(Units) /\ d \in 0 .. Len(Units[n])
       /\ Units' = [Units EXCEPT ![n] = SubSeq(Units[n], 1, d)]
  BY <1>2, <1>6, <1>8, <1>9
<1>11. NW!Undo
  BY <1>1, <1>2, <1>10, MapsUndo
<1>. QED
  BY <1>11 DEF NW!Next

(* The database drops the transaction, and with it the work of every call. *)
LEMMA CtxDoneRefines ==
    ASSUME Inv, Disciplined, CtxDone
    PROVE  NW!Next
<1>1. /\ sqlTx = "active" /\ sqlTx' = "done" /\ UNCHANGED <<durable, result, frames>>
  BY DEF CtxDone
<1>2. /\ TypeOK /\ Phase /\ ReturnedReleases /\ Len(Units) = Len(frames)
      /\ Units = <<>> <=> frames = <<>>
  BY InvParts, UnitsShape
<1>3. Units # <<>>
  BY <1>1, <1>2 DEF TypeOK, Phase, ReturnedReleases
<1>4. Units' = Blank(Len(Units))
  BY <1>1, <1>2, UnitsAre
<1>5. NW!Dropped
  BY <1>1, <1>3, <1>4, MapsDropped
<1>. QED
  BY <1>5 DEF NW!Next

(* The steps that no unit of work sees. *)
LEMMA OthersStutter ==
    ASSUME Inv, Disciplined,
           \/ FnPanics \/ FnRecovers \/ UNCHANGED vars
           \/ \E m \in UserNames : SavePoint(m)
    PROVE  UNCHANGED NW!vars
<1>1. /\ sqlTx' = sqlTx /\ frames' = frames /\ durable' = durable /\ result' = result
  BY DEF FnPanics, FnRecovers, SavePoint, vars, tx, db
<1>2. session'.log = session.log
  <2>1. CASE \E m \in UserNames : SavePoint(m)
    <3>1. PICK m \in UserNames : SavePoint(m)
      BY <2>1
    <3>2. session' \in SAVEPOINT(m) /\ m \in Nat
      BY <3>1, TxAssumption DEF SavePoint, SavepointExec
    <3>3. \A k \in 2 .. 0 : k - 2 # m
      OBVIOUS
    <3>. QED
      BY <3>2, <3>3, MarkedKeepsNames
  <2>2. CASE ~(\E m \in UserNames : SavePoint(m))
    BY <2>2 DEF FnPanics, FnRecovers, vars, db
  <2>. QED
    BY <2>1, <2>2
<1>3. Units' = Units
  BY <1>1, <1>2, UnitsAre
<1>. QED
  BY <1>1, <1>3, MapsStutter

-----------------------------------------------------------------------------
(* Beginning holds at first. *)
LEMMA InitBeginning ==
    ASSUME Init
    PROVE  Beginning
BY DEF Init, Beginning

(* Every step keeps it. *)
LEMMA NextBeginning ==
    ASSUME Inv, Beginning, [Next]_vars
    PROVE  Beginning'
<1>. SUFFICES ASSUME Disciplined
              PROVE  Beginning'
  BY DEF Beginning
<1>1. /\ TypeOK /\ Len(frames) \in Nat /\ (ctl = "idle" => frames = <<>> /\ session = EmptySession)
      /\ frames # <<>> => frames[1].base = 0
      /\ ctl = "idle" => result = "none"
  BY InvParts DEF Beginning, Phase, LogByCall
<1>2. CASE runNew
  <2>1. Enter /\ ctl = "idle"
    BY <1>2 DEF runNew
  <2>2. Len(frames) = 0 /\ Len(session.log) = 0
    BY <1>1, <2>1 DEF EmptySession
  <2>3. ctl' = "fn" /\ frames'[1].base = 0
    BY <1>1, <2>1, <2>2, EnterTypes
  <2>. QED
    BY <2>3 DEF Beginning
<1>3. CASE Transaction
  <2>1. Enter /\ ctl = "fn"
    BY <1>3 DEF Transaction
  <2>2. frames # <<>> /\ 1 \in 1 .. Len(frames)
    BY <1>1, <2>1, InvParts, EmptySeq DEF Phase
  <2>3. ctl' = "fn" /\ frames'[1] = frames[1]
    BY <1>1, <2>1, <2>2, EnterTypes
  <2>. QED
    BY <1>1, <2>2, <2>3 DEF Beginning
<1>4. CASE FnReturns \/ Unwind
  <2>1. PICK err \in BOOLEAN, resume \in {"fn", "panic"} : Leave(err, resume)
    BY <1>4 DEF FnReturns, Unwind
  <2>2. frames # <<>>
    BY <1>4, InvParts DEF FnReturns, Unwind, Phase
  <2>3. ctl' # "idle"
    BY <1>1, <2>1, <2>2, LeaveTypes
  <2>4. CASE Len(frames) = 1
    BY <1>1, <2>1, <2>2, <2>3, <2>4, LeaveTypes DEF Beginning
  <2>5. CASE Len(frames) > 1
    <3>1. 1 \in 1 .. (Len(frames) - 1)
      BY <1>1, <2>5
    <3>2. frames'[1] = frames[1]
      BY <1>1, <2>1, <2>2, <3>1, LeaveTypes
    <3>. QED
      BY <1>1, <2>2, <2>3, <3>2 DEF Beginning
  <2>. QED
    BY <1>1, <2>2, <2>4, <2>5, OneCall
<1>5. CASE BeginTxFails
  <2>1. ctl' = "returned" /\ frames' = frames
    BY <1>5 DEF BeginTxFails
  <2>. QED
    BY <1>1, <2>1 DEF Beginning
<1>6. CASE \/ FnPanics \/ FnRecovers \/ Exec \/ CtxDone \/ UNCHANGED vars
           \/ \E n \in UserNames : SavePoint(n) \/ RollbackTo(n)
  <2>1. frames' = frames /\ result' = result /\ (ctl' = "idle" => ctl = "idle")
    BY <1>6 DEF FnPanics, FnRecovers, Exec, CtxDone, SavePoint, RollbackTo, vars
  <2>. QED
    BY <1>1, <2>1 DEF Beginning
<1>7. CASE ManualEnd
  BY <1>7 DEF ManualEnd
<1>. QED
  BY <1>2, <1>3, <1>4, <1>5, <1>6, <1>7 DEF Next, Terminated

(* Every step is one of NestedWork or changes none of its variables. *)
LEMMA NextRefines ==
    ASSUME Inv, Beginning, Disciplined, [Next]_vars
    PROVE  [NW!Next]_NW!vars
<1>1. CASE BeginTxFails
  <2>1. /\ ctl = "idle" /\ result' = "err" /\ UNCHANGED <<durable, sqlTx, frames, session>>
    BY <1>1 DEF BeginTxFails, tx, db
  <2>2. Units = <<>> /\ result = "none"
    BY <2>1, InvParts, UnitsShape DEF Phase, Beginning
  <2>3. Units' = Units
    BY <2>1, UnitsAre
  <2>4. NW!BeginFails
    BY <2>1, <2>2, <2>3, MapsBeginFails
  <2>. QED
    BY <2>4 DEF NW!Next
<1>2. CASE runNew
  BY <1>2, RunNewRefines
<1>3. CASE Transaction
  BY <1>3, TransactionRefines
<1>4. CASE FnReturns \/ Unwind
  BY <1>4, EndRefines
<1>5. CASE Exec
  BY <1>5, ExecRefines
<1>6. CASE \E m \in UserNames : RollbackTo(m)
  BY <1>6, RollbackToRefines
<1>7. CASE CtxDone
  BY <1>7, CtxDoneRefines
<1>8. CASE FnPanics \/ FnRecovers \/ UNCHANGED vars \/ \E m \in UserNames : SavePoint(m)
  BY <1>8, OthersStutter
<1>9. CASE ManualEnd
  BY <1>9 DEF ManualEnd
<1>. QED
  BY <1>1, <1>2, <1>3, <1>4, <1>5, <1>6, <1>7, <1>8, <1>9 DEF Next, Terminated

(* The initial states are initial states of NestedWork. *)
LEMMA InitRefines ==
    ASSUME Init
    PROVE  NW!Init
<1>1. frames = <<>> /\ Len(frames) = 0 /\ sqlTx = "none" /\ durable = <<>> /\ result = "none"
  BY DEF Init
<1>2. Units = Blank(0)
  BY <1>1, UnitsAre
<1>3. Units = <<>>
  BY <1>2, BlankShape
<1>. QED
  BY <1>1, <1>3 DEF NW!Init, Units

(* With disciplined callbacks Transaction calls are nested units of work:   *)
(* a call that fails leaves the work of its caller as it was, one that      *)
(* succeeds becomes part of it, and the outermost one becomes durable whole *)
(* or not at all (db/tx.go:69, 136-192).                                    *)
THEOREM NestedUnits ==
    ASSUME Disciplined
    PROVE  Spec => ImplementsNestedWork
<1>1. Init => Inv /\ Beginning /\ NW!Init
  BY InitSafe, InitNest, InitBeginning, InitRefines DEF Inv
<1>2. Inv /\ Beginning /\ [Next]_vars => Inv' /\ Beginning'
  BY NextSafe, NextNest, NextBeginning DEF Inv
<1>3. Inv /\ Beginning /\ [Next]_vars => [NW!Next]_NW!vars
  BY NextRefines
<1>. QED
  BY <1>1, <1>2, <1>3, PTL DEF Spec, ImplementsNestedWork, NW!Spec
=============================================================================
