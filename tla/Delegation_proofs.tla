-------------------------- MODULE Delegation_proofs --------------------------
EXTENDS Delegation, SequenceLemmas

Results == [job : Nat, run : Nat, result : {"responses", "exit", "error", "none"}]
Entries == [kind : {"tool", "critical"}, fut : Nat, value : Seq(Results), message : Nat]
JobRecords ==
    [status : {"READY", "STARTED", "DONE"}, failed : BOOLEAN, exit : BOOLEAN,
     runs : Seq({"succeeded", "failed"}), parent : Nat, adapter : BOOLEAN, sub : BOOLEAN,
     outcome : {"none", "COMPLETED", "ERROR"}, handlers : Seq(Entries), accepted : Nat,
     log : Seq(Nat)]
FutureRecords ==
    [kind : {"task", "mute", "any", "all", "elem"}, job : Nat, parts : Seq(Nat), by : Nat,
     pending : BOOLEAN]
DgTypes ==
    /\ uses \in DgSetups
    /\ jobs \in Seq(JobRecords) /\ futures \in Seq(FutureRecords)
    /\ called \in Seq([job : Nat, entry : Entries]) /\ sent \in Nat

(* A future is made of older ones, or waits for a job that exists; a job     *)
(* that finished has a run to show, and remembers whether one failed.       *)
PartsAreOlder ==
    \A f \in DOMAIN futures :
        /\ \A i \in DOMAIN futures[f].parts : futures[f].parts[i] \in 1..f - 1
        /\ IF futures[f].kind \in {"task", "mute"} THEN futures[f].job \in DOMAIN jobs
           ELSE futures[f].parts # <<>>
RunsKept(job) ==
    /\ job.status = "DONE" => job.runs # <<>>
    /\ job.failed <=> "failed" \in Range(job.runs)
RunsAreKept == \A j \in DOMAIN jobs : RunsKept(jobs[j])
FutureInv == DgTypes /\ PartsAreOlder /\ RunsAreKept

LEMMA PickedElements ==
    ASSUME NEW T, NEW seq \in Seq(T), NEW at, at \subseteq DOMAIN seq
    PROVE  /\ Cardinality(at) \in Nat /\ Picked(seq, at) \in Seq(T)
           /\ Len(Picked(seq, at)) = Cardinality(at)
           /\ DOMAIN Picked(seq, at) = 1..Cardinality(at)
           /\ at # {} => Picked(seq, at) # <<>>
           /\ \A i \in 1..Cardinality(at) :
                 /\ Nth(at, i) \in at /\ Picked(seq, at)[i] = seq[Nth(at, i)]
                 /\ \A k \in 1..Cardinality(at) : Nth(at, i) = Nth(at, k) => i = k
<1>1. Len(seq) \in Nat /\ at \subseteq 1..Len(seq)
    OBVIOUS
<1>2. /\ Cardinality(at) \in Nat
      /\ \A k \in 1..Cardinality(at) :
            Nth(at, k) \in at /\ \A m \in 1..k - 1 : Nth(at, m) < Nth(at, k)
      /\ \A p \in at : \E k \in 1..Cardinality(at) : Nth(at, k) = p
    BY <1>1, NthOf
<1>3. ASSUME NEW i \in 1..Cardinality(at), NEW k \in 1..Cardinality(at),
             Nth(at, i) = Nth(at, k)
      PROVE  i = k
  <2>1. ~(Nth(at, i) < Nth(at, k)) /\ ~(Nth(at, k) < Nth(at, i))
    BY <1>1, <1>2, <1>3
  <2>2. i \notin 1..k - 1 /\ k \notin 1..i - 1
    BY <1>2, <2>1
  <2>3. QED
    BY <1>2, <2>2
<1>4. Picked(seq, at) \in Seq(T)
    BY <1>1, PickedIs
<1>5. /\ Len(Picked(seq, at)) = Cardinality(at) /\ DOMAIN Picked(seq, at) = 1..Cardinality(at)
      /\ \A i \in 1..Cardinality(at) : Picked(seq, at)[i] = seq[Nth(at, i)]
    BY <1>2 DEF Picked
<1>6. at # {} => Picked(seq, at) # <<>>
    BY <1>2, <1>5
<1>7. QED
    BY <1>2, <1>3, <1>4, <1>5, <1>6

-----------------------------------------------------------------------------
(* Reads: the recursion has a solution, since parts are older.              *)
LEMMA ReadEquation ==
    ASSUME FutureInv
    PROVE  \A f \in DOMAIN futures :
              Read[f] = ReadFrom(f, [i \in DOMAIN futures[f].parts |-> Read[futures[f].parts[i]]])
<1> DEFINE N == Len(futures)
           Reads(r, n) == r = [f \in 1..n |->
                        ReadFrom(f, [i \in DOMAIN futures[f].parts |-> r[futures[f].parts[i]]])]
           S == {n \in Nat : n <= N => \E r : Reads(r, n)}
<1>1. N \in Nat /\ DOMAIN futures = 1..N
    BY DEF FutureInv, DgTypes
<1>2. 0 \in S
  <2>1. Reads([f \in 1..0 |-> f], 0)
    OBVIOUS
  <2>2. QED
    BY <2>1
<1>3. ASSUME NEW n \in Nat, n \in S PROVE n + 1 \in S
  <2>1. SUFFICES ASSUME n + 1 <= N PROVE \E r : Reads(r, n + 1)
    OBVIOUS
  <2>2. PICK r : Reads(r, n)
    <3>1. n <= N
      BY <1>1, <2>1
    <3> HIDE DEF Reads, N
    <3>2. QED
      BY <1>3, <3>1
  <2> DEFINE Prior(f, g) == [i \in DOMAIN futures[f].parts |-> g[futures[f].parts[i]]]
             q == [f \in 1..n + 1 |-> IF f <= n THEN r[f] ELSE ReadFrom(f, Prior(f, r))]
  <2>3. ASSUME NEW f \in 1..n + 1 PROVE Prior(f, q) = Prior(f, r)
    <3>1. f \in DOMAIN futures
      BY <1>1, <2>1
    <3>2. ASSUME NEW i \in DOMAIN futures[f].parts
          PROVE  q[futures[f].parts[i]] = r[futures[f].parts[i]]
      <4>1. futures[f].parts[i] \in 1..f - 1
        BY <3>1 DEF FutureInv, PartsAreOlder
      <4>2. futures[f].parts[i] \in 1..n + 1 /\ futures[f].parts[i] <= n
        BY <4>1
      <4>3. QED
        BY <4>2
    <3>3. QED
      BY <3>2
  <2>4. ASSUME NEW f \in 1..n + 1 PROVE q[f] = ReadFrom(f, Prior(f, q))
    <3>1. CASE f <= n
      <4>1. f \in 1..n
        BY <3>1
      <4>2. r[f] = ReadFrom(f, Prior(f, r))
        BY <2>2, <4>1
      <4>3. q[f] = r[f]
        BY <3>1
      <4>4. QED
        BY <2>3, <4>2, <4>3
    <3>2. CASE ~(f <= n)
      <4>1. q[f] = ReadFrom(f, Prior(f, r))
        BY <3>2
      <4>2. QED
        BY <2>3, <4>1
    <3>3. QED
      BY <3>1, <3>2
  <2>5. Reads(q, n + 1)
    BY <2>4
  <2>6. QED
    <3> HIDE DEF Reads, q
    <3>1. QED
      BY <2>5
<1>4. N \in S
  <2> HIDE DEF S, N
  <2>1. QED
    BY <1>1, <1>2, <1>3, NumberInduction
<1> DEFINE read == CHOOSE r : Reads(r, N)
<1>5. Reads(read, N)
  <2>1. N <= N
    BY <1>1
  <2> HIDE DEF Reads, N
  <2>2. \E r : Reads(r, N)
    BY <1>4, <2>1
  <2>3. QED
    BY <2>2
<1>6. Read = read
    BY <1>1 DEF Read
<1> HIDE DEF read
<1>7. \A f \in DOMAIN futures :
         read[f] = ReadFrom(f, [i \in DOMAIN futures[f].parts |-> read[futures[f].parts[i]]])
    BY <1>1, <1>5
<1>8. QED
    BY <1>6, <1>7

(* What is read from finished parts is the results of finished runs.        *)
FinishedResults == {r \in Results : r.run >= 1}
GoodRead(read, done) ==
    /\ read.done \in BOOLEAN
    /\ read.done => read.value \in Seq(FinishedResults) /\ read.value # <<>>
    /\ read.through \in Seq(done)

LEMMA FinishedSequence ==
    ASSUME NEW v \in Seq(FinishedResults)
    PROVE  v \in Seq(Results) /\ \A k \in DOMAIN v : v[k].run >= 1
<1>1. FinishedResults \subseteq Results /\ \A r \in FinishedResults : r.run >= 1
    BY DEF FinishedResults
<1> HIDE DEF FinishedResults, Results
<1>2. QED
    BY <1>1

LEMMA ReadPartsGood ==
    ASSUME NEW f, NEW Done, NEW parts, Len(parts) \in Nat \ {0}, parts \in Seq(Range(parts)),
           \A i \in 1..Len(parts) : GoodRead(parts[i], Done),
           ReadParts(f, parts).done => f \in Done
    PROVE  GoodRead(ReadParts(f, parts), Done)
<1> DEFINE kind == futures[f].kind
           inner == Picked(parts, Fetched(kind, parts))
           done == IF kind = "any" THEN inner # <<>> ELSE Len(inner) = Len(parts)
           Values == [i \in DOMAIN inner |-> inner[i].value]
           Throughs == [i \in DOMAIN inner |-> inner[i].through]
           values == FlattenSeq(Values)
           through == FlattenSeq(Throughs)
           C == Cardinality(Fetched(kind, parts))
<1>1. Fetched(kind, parts) \subseteq DOMAIN parts /\ DOMAIN parts = 1..Len(parts)
    BY DEF Fetched
<1>2. /\ C \in Nat /\ Len(inner) = C /\ DOMAIN inner = 1..C
      /\ \A i \in 1..C : Nth(Fetched(kind, parts), i) \in Fetched(kind, parts)
                         /\ inner[i] = parts[Nth(Fetched(kind, parts), i)]
    BY <1>1, PickedElements
<1> HIDE DEF inner, C
<1>3. \A p \in Fetched(kind, parts) : parts[p].done /\ p \in 1..Len(parts)
  <2>1. ASSUME NEW p \in Fetched(kind, parts) PROVE parts[p].done
    <3>1. p \in 1..Len(parts) /\ p \in 1..p
      BY <1>1
    <3>2. QED
      BY <3>1 DEF Fetched
  <2>2. QED
    BY <1>1, <2>1
<1>4. \A i \in 1..C : /\ inner[i].value \in Seq(FinishedResults) /\ inner[i].value # <<>>
                      /\ inner[i].through \in Seq(Done)
  <2>1. ASSUME NEW i \in 1..C
        PROVE  /\ inner[i].value \in Seq(FinishedResults) /\ inner[i].value # <<>>
               /\ inner[i].through \in Seq(Done)
    <3>1. PICK p \in Fetched(kind, parts) : inner[i] = parts[p]
      BY <1>2
    <3>2. GoodRead(parts[p], Done) /\ parts[p].done
      BY <1>3, <3>1
    <3>3. QED
      BY <3>1, <3>2 DEF GoodRead
  <2>2. QED
    BY <2>1
<1>5. Values \in Seq(Seq(FinishedResults)) /\ Len(Values) = C
      /\ Throughs \in Seq(Seq(Done)) /\ DOMAIN Values = 1..C
    BY <1>2, <1>4
<1>6. values \in Seq(FinishedResults) /\ through \in Seq(Done)
  <2> HIDE DEF Values, Throughs
  <2>1. QED
    BY <1>5, FlattenType
<1>7. ASSUME done PROVE values # <<>>
  <2>1. C # 0
    <3>1. inner # <<>> \/ Len(inner) # 0
      BY <1>7
    <3>2. QED
      BY <1>2, <3>1
  <2>2. Values # <<>> /\ \A i \in DOMAIN Values : Values[i] # <<>>
    BY <1>2, <1>4, <1>5, <2>1
  <2> HIDE DEF Values
  <2>3. QED
    BY <1>5, <2>2, FlattenType
<1>8. /\ ReadParts(f, parts).done = done
      /\ ReadParts(f, parts).value = IF done /\ kind = "elem" THEN <<values[1]>> ELSE values
      /\ ReadParts(f, parts).through = IF done THEN Append(through, f) ELSE through
    BY DEF ReadParts, inner
<1> HIDE DEF done, values, through
<1>9. done \in BOOLEAN
    BY DEF done
<1>10. ReadParts(f, parts).done =>
          /\ ReadParts(f, parts).value \in Seq(FinishedResults)
          /\ ReadParts(f, parts).value # <<>>
    BY <1>6, <1>7, <1>8
<1>11. ReadParts(f, parts).through \in Seq(Done)
    BY <1>6, <1>8
<1>12. QED
    BY <1>8, <1>9, <1>10, <1>11 DEF GoodRead

LEMMA TaskRead ==
    ASSUME FutureInv, NEW f \in DOMAIN futures, futures[f].kind \in {"task", "mute"}
    PROVE  /\ ReadTask(f).done <=> jobs[futures[f].job].status = "DONE"
           /\ ReadTask(f).value = TaskValue(f)
           /\ GoodRead(ReadTask(f), IF ReadTask(f).done THEN {f} ELSE {})
<1> DEFINE c == futures[f].job
<1>1. c \in DOMAIN jobs /\ futures[f] \in FutureRecords
    BY DEF FutureInv, DgTypes, PartsAreOlder
<1>2. jobs[c] \in JobRecords
    BY <1>1 DEF FutureInv, DgTypes
<1>3. jobs[c].status = "DONE" => jobs[c].runs # <<>>
    BY <1>1 DEF FutureInv, RunsAreKept, RunsKept
<1>4. Len(jobs[c].runs) \in Nat /\ (jobs[c].runs # <<>> => Len(jobs[c].runs) >= 1)
    BY <1>2 DEF JobRecords
<1>5. c \in Nat /\ MuteResult(jobs[c]) \in {"responses", "exit", "error"}
    BY <1>1 DEF FutureRecords, MuteResult
<1>6. TaskValue(f) \in Seq(Results) /\ TaskValue(f) # <<>>
    BY <1>4, <1>5 DEF TaskValue, Results
<1>7. jobs[c].status = "DONE" => TaskValue(f) \in Seq(FinishedResults)
    BY <1>3, <1>4, <1>5 DEF TaskValue, Results, FinishedResults
<1>8. /\ ReadTask(f).done <=> jobs[c].status = "DONE"
      /\ ReadTask(f).value = TaskValue(f)
      /\ ReadTask(f).through = IF jobs[c].status = "DONE" THEN <<f>> ELSE <<>>
      /\ ReadTask(f).done \in BOOLEAN
    BY DEF ReadTask
<1>9. ReadTask(f).through \in Seq(IF ReadTask(f).done THEN {f} ELSE {})
  <2>1. CASE jobs[c].status = "DONE"
    <3>1. <<f>> \in Seq({f})
      OBVIOUS
    <3>2. QED
      BY <1>8, <2>1, <3>1
  <2>2. CASE jobs[c].status # "DONE"
    <3>1. ReadTask(f).through = <<>> /\ ReadTask(f).done = FALSE
      BY <1>8, <2>2
    <3>2. QED
      BY <3>1
  <2>3. QED
    BY <2>1, <2>2
<1>10. QED
    BY <1>6, <1>7, <1>8, <1>9 DEF GoodRead

LEMMA ReadGood ==
    ASSUME FutureInv
    PROVE  \A f \in DOMAIN futures : GoodRead(Read[f], {g \in DOMAIN futures : Read[g].done})
<1> DEFINE Done == {g \in DOMAIN futures : Read[g].done}
           S == {n \in Nat : n + 1 \in DOMAIN futures => GoodRead(Read[n + 1], Done)}
<1>1. DOMAIN futures = 1..Len(futures) /\ Len(futures) \in Nat
    BY DEF FutureInv, DgTypes
<1>2. ASSUME NEW n \in Nat, \A m \in 0..n - 1 : m \in S PROVE n \in S
  <2> DEFINE f == n + 1
             parts == [i \in DOMAIN futures[f].parts |-> Read[futures[f].parts[i]]]
  <2>1. SUFFICES ASSUME f \in DOMAIN futures PROVE GoodRead(Read[f], Done)
    OBVIOUS
  <2>2. Read[f] = ReadFrom(f, parts)
    BY <2>1, ReadEquation
  <2>3. CASE futures[f].kind \in {"task", "mute"}
    <3>1. Read[f] = ReadTask(f)
      BY <2>2, <2>3 DEF ReadFrom
    <3>2. GoodRead(ReadTask(f), IF ReadTask(f).done THEN {f} ELSE {})
      BY <2>1, <2>3, TaskRead
    <3>3. (IF ReadTask(f).done THEN {f} ELSE {}) \subseteq Done
      BY <2>1, <3>1
    <3>4. QED
      BY <3>1, <3>2, <3>3 DEF GoodRead
  <2>4. CASE futures[f].kind \notin {"task", "mute"}
    <3>1. Read[f] = ReadParts(f, parts)
      BY <2>2, <2>4 DEF ReadFrom
    <3>2. /\ futures[f].parts \in Seq(Nat) /\ futures[f].parts # <<>>
          /\ \A i \in DOMAIN futures[f].parts : futures[f].parts[i] \in 1..f - 1
      <4>1. futures[f] \in FutureRecords
        BY <2>1 DEF FutureInv, DgTypes
      <4>2. futures[f].parts \in Seq(Nat)
        BY <4>1 DEF FutureRecords
      <4>3. QED
        BY <2>1, <2>4, <4>2 DEF FutureInv, PartsAreOlder
    <3>3. Len(parts) \in Nat \ {0} /\ DOMAIN parts = 1..Len(parts)
          /\ DOMAIN futures[f].parts = 1..Len(parts)
      BY <3>2
    <3>4. ASSUME NEW i \in 1..Len(parts) PROVE GoodRead(parts[i], Done)
      <4> DEFINE p == futures[f].parts[i]
      <4>1. p \in 1..f - 1 /\ parts[i] = Read[p]
        BY <3>2, <3>3
      <4>2. p \in DOMAIN futures /\ p - 1 \in 0..n - 1 /\ (p - 1) + 1 = p
        BY <1>1, <2>1, <4>1
      <4>3. p - 1 \in S
        BY <1>2, <4>2
      <4>4. QED
        BY <4>1, <4>2, <4>3
    <3>5. parts \in Seq(Range(parts))
      BY <3>3 DEF Range
    <3>6. ReadParts(f, parts).done => f \in Done
      BY <2>1, <3>1
    <3> HIDE DEF parts, Done
    <3>7. QED
      BY <3>1, <3>3, <3>4, <3>5, <3>6, ReadPartsGood
  <2>5. QED
    BY <2>3, <2>4
<1>3. Nat \subseteq S
  <2> HIDE DEF S
  <2>1. QED
    BY <1>2, StrongInduction
<1>4. ASSUME NEW f \in DOMAIN futures PROVE GoodRead(Read[f], Done)
  <2>1. f - 1 \in Nat /\ (f - 1) + 1 = f
    BY <1>1
  <2>2. f - 1 \in S
    BY <1>3, <2>1
  <2>3. QED
    BY <2>1, <2>2
<1>5. QED
    BY <1>4

-----------------------------------------------------------------------------
(* What the operations make of a job.                                       *)
LEMMA NewJobMade ==
    ASSUME NEW parent \in Nat, NEW adapter \in BOOLEAN, NEW sub \in BOOLEAN,
           NEW inherited \in Seq(Entries), NEW job, job = NewJob(parent, adapter, sub, inherited)
    PROVE  /\ job \in JobRecords /\ RunsKept(job)
           /\ job.handlers = inherited /\ job.accepted = NoMessage /\ job.log = <<>>
           /\ job.parent = parent /\ job.outcome = "none" /\ job.sub = sub
           /\ job.status = "READY"
<1>1. Range(<<>>) = {} /\ <<>> \in Seq({"succeeded", "failed"}) /\ <<>> \in Seq(Nat)
    BY DEF Range
<1> HIDE DEF Entries
<1>2. QED
    BY <1>1 DEF NewJob, JobRecords, RunsKept, NoMessage

LEMMA JobReopened ==
    ASSUME NEW job \in JobRecords
    PROVE  LET new == Reopened(job)
           IN  /\ new \in JobRecords /\ (RunsKept(job) => RunsKept(new))
               /\ new.status # "DONE"
               /\ new.handlers = job.handlers /\ new.accepted = job.accepted
               /\ new.log = job.log /\ new.parent = job.parent
               /\ new.outcome = job.outcome /\ new.sub = job.sub
<1>1. CASE job.status = "DONE"
  <2>1. Reopened(job) = [job EXCEPT !.status = "STARTED", !.exit = FALSE]
    BY <1>1 DEF Reopened
  <2>2. QED
    BY <2>1 DEF JobRecords, RunsKept
<1>2. CASE job.status # "DONE"
    BY <1>2 DEF Reopened
<1>3. QED
    BY <1>1, <1>2

(* A binding replaces the critical one, and keeps the others.               *)
LEMMA BindingMade ==
    ASSUME NEW job \in JobRecords, NEW message \in Nat
    PROVE  /\ Bound(job, message) \in Seq(Entries)
           /\ \A i \in DOMAIN Bound(job, message) :
                 LET h == Bound(job, message)[i]
                 IN  \/ h = [kind |-> "critical", fut |-> 0, value |-> <<>>, message |-> message]
                     \/ ~IsCritical(h) /\ \E k \in DOMAIN job.handlers : h = job.handlers[k]
           /\ /\ \A i, k \in DOMAIN job.handlers :
                    job.handlers[i].fut = job.handlers[k].fut => i = k
              /\ \A i \in DOMAIN job.handlers :
                    ~IsCritical(job.handlers[i]) => job.handlers[i].fut # 0
              => \A i, k \in DOMAIN Bound(job, message) :
                    Bound(job, message)[i].fut = Bound(job, message)[k].fut => i = k
<1> DEFINE at == {i \in DOMAIN job.handlers : ~IsCritical(job.handlers[i])}
           others == Picked(job.handlers, at)
           binding == [kind |-> "critical", fut |-> 0, value |-> <<>>, message |-> message]
           C == Cardinality(at)
<1>1. job.handlers \in Seq(Entries)
  <2> HIDE DEF Entries
  <2>1. QED
    BY DEF JobRecords
<1>2. binding \in Entries
  <2>1. <<>> \in Seq(Results)
    OBVIOUS
  <2> HIDE DEF Results
  <2>2. QED
    BY <2>1 DEF Entries
<1>3. /\ C \in Nat /\ others \in Seq(Entries) /\ Len(others) = C /\ DOMAIN others = 1..C
      /\ \A i \in 1..C : /\ Nth(at, i) \in at /\ others[i] = job.handlers[Nth(at, i)]
                         /\ \A k \in 1..C : Nth(at, i) = Nth(at, k) => i = k
  <2>1. at \subseteq DOMAIN job.handlers
    OBVIOUS
  <2> HIDE DEF at, Entries
  <2>2. QED
    BY <1>1, <2>1, PickedElements
<1>4. \A p \in at : p \in DOMAIN job.handlers /\ ~IsCritical(job.handlers[p])
    OBVIOUS
<1>5. Bound(job, message) = Append(others, binding) \/ Bound(job, message) = others
    BY DEF Bound
<1> HIDE DEF others, binding, at, C, Entries
<1>6. Bound(job, message) \in Seq(Entries)
    BY <1>2, <1>3, <1>5
<1>7. ASSUME NEW i \in DOMAIN Bound(job, message)
      PROVE  \/ i = C + 1 /\ Bound(job, message)[i] = binding
             \/ i \in 1..C /\ Bound(job, message)[i] = others[i]
  <2>1. CASE Bound(job, message) = Append(others, binding)
    <3>1. i \in 1..C + 1 /\ Len(others) = C
      BY <1>3, <2>1
    <3>2. CASE i = C + 1
      BY <1>3, <2>1, <3>2
    <3>3. CASE i \in 1..C
      BY <1>3, <2>1, <3>3
    <3>4. QED
      BY <1>3, <3>1, <3>2, <3>3
  <2>2. CASE Bound(job, message) = others
    BY <1>3, <2>2
  <2>3. QED
    BY <1>5, <2>1, <2>2
<1>8. ASSUME NEW i \in DOMAIN Bound(job, message)
      PROVE  LET h == Bound(job, message)[i]
             IN  \/ h = binding
                 \/ ~IsCritical(h) /\ \E k \in DOMAIN job.handlers : h = job.handlers[k]
    BY <1>3, <1>4, <1>7
<1>9. ASSUME \A i, k \in DOMAIN job.handlers :
                 job.handlers[i].fut = job.handlers[k].fut => i = k,
             \A i \in DOMAIN job.handlers :
                 ~IsCritical(job.handlers[i]) => job.handlers[i].fut # 0,
             NEW i \in DOMAIN Bound(job, message), NEW k \in DOMAIN Bound(job, message),
             Bound(job, message)[i].fut = Bound(job, message)[k].fut
      PROVE  i = k
  <2>1. binding.fut = 0
    BY DEF binding
  <2>2. \A m \in 1..C : others[m].fut # 0
    BY <1>3, <1>4, <1>9
  <2>3. CASE i \in 1..C /\ k \in 1..C
    <3>1. i # C + 1 /\ k # C + 1
      BY <1>3, <2>3
    <3>2. others[i].fut = others[k].fut
      BY <1>7, <1>9, <3>1
    <3>3. Nth(at, i) = Nth(at, k)
      BY <1>3, <1>4, <1>9, <2>3, <3>2
    <3>4. QED
      BY <1>3, <2>3, <3>3
  <2>4. CASE ~(i \in 1..C /\ k \in 1..C)
    BY <1>7, <1>9, <2>1, <2>2, <2>4
  <2>5. QED
    BY <2>3, <2>4
<1>10. QED
    BY <1>6, <1>8, <1>9 DEF binding

LEMMA MessageAccepted ==
    ASSUME NEW job \in JobRecords, NEW message \in Nat
    PROVE  LET new == Accepted(job, message)
           IN  /\ new \in JobRecords /\ (RunsKept(job) => RunsKept(new))
               /\ new.handlers = Bound(job, message) /\ new.accepted = message
               /\ new.log = job.log /\ new.parent = job.parent
               /\ new.outcome = job.outcome /\ new.sub = job.sub
<1> DEFINE old == Reopened(job)
           bound == Bound(job, message)
<1>1. bound \in Seq(Entries)
    BY BindingMade
<1>2. /\ old \in JobRecords /\ (RunsKept(job) => RunsKept(old))
      /\ old.log = job.log /\ old.parent = job.parent
      /\ old.outcome = job.outcome /\ old.sub = job.sub
    BY JobReopened
<1>3. Accepted(job, message) = [old EXCEPT !.accepted = message, !.handlers = bound]
    BY DEF Accepted
<1> DEFINE new == [old EXCEPT !.accepted = message, !.handlers = bound]
<1> HIDE DEF old, bound, Entries
<1>4. new \in JobRecords
    BY <1>1, <1>2 DEF JobRecords
<1>5. /\ new.status = old.status /\ new.runs = old.runs /\ new.failed = old.failed
      /\ new.log = old.log /\ new.parent = old.parent /\ new.outcome = old.outcome
      /\ new.sub = old.sub /\ new.accepted = message /\ new.handlers = bound
    BY <1>2 DEF JobRecords
<1> HIDE DEF new
<1>6. RunsKept(old) => RunsKept(new)
    BY <1>5 DEF RunsKept
<1>7. new = Accepted(job, message)
    BY <1>3 DEF new
<1>8. QED
    BY <1>2, <1>4, <1>5, <1>6, <1>7 DEF bound

LEMMA RunAdded ==
    ASSUME NEW runs \in Seq({"succeeded", "failed"}), NEW outcome \in {"succeeded", "failed"}
    PROVE  /\ Append(runs, outcome) \in Seq({"succeeded", "failed"})
           /\ Append(runs, outcome) # <<>>
           /\ "failed" \in Range(Append(runs, outcome)) <=>
                 outcome = "failed" \/ "failed" \in Range(runs)
<1>1. /\ Append(runs, outcome) \in Seq({"succeeded", "failed"})
      /\ Append(runs, outcome) # <<>>
      /\ DOMAIN Append(runs, outcome) = 1..Len(runs) + 1
      /\ DOMAIN runs = 1..Len(runs) /\ Len(runs) \in Nat
      /\ Append(runs, outcome)[Len(runs) + 1] = outcome
    OBVIOUS
<1>2. \A i \in DOMAIN runs : i \in DOMAIN Append(runs, outcome)
                           /\ Append(runs, outcome)[i] = runs[i]
    OBVIOUS
<1>3. ASSUME NEW i \in DOMAIN Append(runs, outcome)
      PROVE  i \in DOMAIN runs \/ i = Len(runs) + 1
    BY <1>1
<1>4. Len(runs) + 1 \in DOMAIN Append(runs, outcome)
    BY <1>1
<1>5. "failed" \in Range(Append(runs, outcome)) <=> outcome = "failed" \/ "failed" \in Range(runs)
    BY <1>1, <1>2, <1>3, <1>4 DEF Range
<1>6. QED
    BY <1>1, <1>5

LEMMA RunEnds ==
    ASSUME NEW job \in JobRecords, RunsKept(job), NEW exit \in BOOLEAN
    PROVE  LET good == Succeeded(job, exit)
               bad == Failed(job, exit)
           IN  /\ good \in JobRecords /\ bad \in JobRecords /\ RunsKept(good) /\ RunsKept(bad)
               /\ good.handlers = job.handlers /\ bad.handlers = <<>>
               /\ good.accepted = job.accepted /\ bad.accepted = job.accepted
               /\ good.log = job.log /\ bad.log = job.log
               /\ good.parent = job.parent /\ bad.parent = job.parent
               /\ good.outcome = job.outcome /\ bad.outcome = job.outcome
               /\ good.sub = job.sub /\ bad.sub = job.sub
<1> DEFINE more(o) == Append(job.runs, o)
<1>1. job.runs \in Seq({"succeeded", "failed"})
    BY DEF JobRecords
<1>2. \A o \in {"succeeded", "failed"} :
         /\ more(o) \in Seq({"succeeded", "failed"}) /\ more(o) # <<>>
         /\ "failed" \in Range(more(o)) <=> o = "failed" \/ "failed" \in Range(job.runs)
    BY <1>1, RunAdded
<1>3. (job.exit \/ exit) \in BOOLEAN /\ <<>> \in Seq(Entries)
    OBVIOUS
<1> HIDE DEF more, Entries
<1>4. Succeeded(job, exit)
        = [job EXCEPT !.status = "DONE", !.exit = exit, !.runs = more("succeeded")]
    BY DEF more, Succeeded
<1>5. Failed(job, exit) = [job EXCEPT !.status = "DONE", !.failed = TRUE,
                               !.exit = job.exit \/ exit, !.runs = more("failed"), !.handlers = <<>>]
    BY DEF more, Failed, JobRecords
<1>6. PICK good, bad : good = Succeeded(job, exit) /\ bad = Failed(job, exit)
    OBVIOUS
<1>7. PICK won, lost : won = more("succeeded") /\ lost = more("failed")
    OBVIOUS
<1>8. /\ good \in JobRecords /\ good.handlers = job.handlers /\ good.accepted = job.accepted
      /\ good.log = job.log /\ good.parent = job.parent /\ good.outcome = job.outcome
      /\ good.sub = job.sub /\ good.failed = job.failed /\ good.runs = won
  <2>1. good = [job EXCEPT !.status = "DONE", !.exit = exit, !.runs = won]
    BY <1>4, <1>6, <1>7
  <2>2. won \in Seq({"succeeded", "failed"})
    BY <1>2, <1>7
  <2> QED
    BY <2>1, <2>2 DEF JobRecords
<1>9. /\ bad \in JobRecords /\ bad.handlers = <<>> /\ bad.accepted = job.accepted
      /\ bad.log = job.log /\ bad.parent = job.parent /\ bad.outcome = job.outcome
      /\ bad.sub = job.sub /\ bad.failed /\ bad.runs = lost
  <2>1. bad = [job EXCEPT !.status = "DONE", !.failed = TRUE, !.exit = job.exit \/ exit,
                          !.runs = lost, !.handlers = <<>>]
    BY <1>5, <1>6, <1>7
  <2>2. lost \in Seq({"succeeded", "failed"})
    BY <1>2, <1>7
  <2> QED
    BY <1>3, <2>1, <2>2 DEF JobRecords
<1>10. RunsKept(good) /\ RunsKept(bad)
    BY <1>2, <1>7, <1>8, <1>9 DEF RunsKept
<1> QED
    BY <1>6, <1>8, <1>9, <1>10

-----------------------------------------------------------------------------
(* The handlers of a job: what each is bound to exists and is no longer     *)
(* waited for; no two are bound to the same; none was told already; the     *)
(* critical one has the message accepted last.                              *)
Rooted(h) ==
    IF IsCritical(h) THEN h.fut = 0 /\ h.message \in 1..sent
    ELSE h.fut \in DOMAIN futures /\ ~futures[h.fut].pending /\ h.message = NoMessage
Available(h) ==
    ~IsCritical(h) => h.value # <<>> /\ \A k \in DOMAIN h.value : h.value[k].run >= 1
Repeats(h, g) == h.fut = g.fut /\ h.message = g.message
HandlersOf(j) ==
    /\ \A i \in DOMAIN jobs[j].handlers :
          /\ Rooted(jobs[j].handlers[i]) /\ Available(jobs[j].handlers[i])
          /\ IsCritical(jobs[j].handlers[i]) /\ jobs[j].accepted # NoMessage =>
                jobs[j].handlers[i].message = jobs[j].accepted
          /\ \A k \in DOMAIN called :
                called[k].job = j => ~Repeats(jobs[j].handlers[i], called[k].entry)
    /\ \A i, k \in DOMAIN jobs[j].handlers :
          jobs[j].handlers[i].fut = jobs[j].handlers[k].fut => i = k
ToldApart ==
    \A i \in DOMAIN called :
        /\ called[i].job \in DOMAIN jobs /\ Rooted(called[i].entry)
        /\ \A k \in DOMAIN called :
              called[i].job = called[k].job /\ Repeats(called[i].entry, called[k].entry) => i = k
HandlerInv == ToldApart /\ \A j \in DOMAIN jobs : HandlersOf(j)

FuturesGrow ==
    /\ DOMAIN futures \subseteq DOMAIN futures' /\ sent <= sent'
    /\ \A f \in DOMAIN futures : futures'[f].pending => futures[f].pending

LEMMA RootedStays ==
    ASSUME DgTypes, DgTypes', FuturesGrow, NEW h, Rooted(h)
    PROVE  Rooted(h)'
<1>1. sent \in Nat /\ sent' \in Nat /\ sent <= sent'
    BY DEF DgTypes, FuturesGrow
<1>2. CASE IsCritical(h)
  <2>1. h.message \in 1..sent'
    BY <1>1, <1>2 DEF Rooted
  <2>2. QED
    BY <1>2, <2>1 DEF Rooted, IsCritical
<1>3. CASE ~IsCritical(h)
    BY <1>3 DEF Rooted, IsCritical, FuturesGrow
<1>4. QED
    BY <1>2, <1>3

LEMMA RootedFuture ==
    ASSUME DgTypes, NEW h, Rooted(h)
    PROVE  (IsCritical(h) <=> h.fut = 0) /\ (IsCritical(h) => h.message \in 1..sent)
<1>1. 0 \notin DOMAIN futures
    BY DEF DgTypes
<1>2. QED
    BY <1>1 DEF Rooted

LEMMA CalledStay ==
    ASSUME DgTypes, DgTypes', FuturesGrow, ToldApart, UNCHANGED called,
           DOMAIN jobs \subseteq DOMAIN jobs'
    PROVE  ToldApart'
<1>1. \A i \in DOMAIN called : Rooted(called[i].entry)'
  <2>1. ASSUME NEW i \in DOMAIN called PROVE Rooted(called[i].entry)'
    <3>1. PICK h : h = called[i].entry
      OBVIOUS
    <3>2. Rooted(h)
      BY <3>1 DEF ToldApart
    <3>3. Rooted(h)'
      BY <3>2, RootedStays
    <3>4. h = called'[i].entry
      BY <3>1
    <3>5. QED
      BY <3>3, <3>4 DEF Rooted, IsCritical
  <2>2. QED
    BY <2>1
<1>2. QED
    BY <1>1 DEF ToldApart, Repeats

LEMMA HandlersStay ==
    ASSUME DgTypes, DgTypes', FuturesGrow, NEW j \in DOMAIN jobs, HandlersOf(j),
           jobs'[j].handlers = jobs[j].handlers, jobs'[j].accepted = jobs[j].accepted,
           \A k \in DOMAIN called' : called'[k].job = j =>
               k \in DOMAIN called /\ called'[k] = called[k]
    PROVE  HandlersOf(j)'
<1>1. ASSUME NEW i \in DOMAIN jobs[j].handlers PROVE Rooted(jobs[j].handlers[i])'
  <2>1. PICK h : h = jobs[j].handlers[i]
    OBVIOUS
  <2>2. Rooted(h)'
    BY <2>1, RootedStays DEF HandlersOf
  <2>3. h = jobs'[j].handlers[i]
    BY <2>1
  <2>4. QED
    BY <2>2, <2>3 DEF Rooted, IsCritical
<1>2. QED
    BY <1>1 DEF HandlersOf, Available, IsCritical, Repeats

(* A new job may have the handlers of the one that created it.              *)
LEMMA HandlersInherited ==
    ASSUME DgTypes, DgTypes', FuturesGrow, ToldApart, UNCHANGED called, NEW j, j \notin DOMAIN jobs,
           jobs'[j].accepted = NoMessage,
           \/ jobs'[j].handlers = <<>>
           \/ \E p \in DOMAIN jobs : HandlersOf(p) /\ jobs'[j].handlers = jobs[p].handlers
    PROVE  HandlersOf(j)'
<1>1. \A k \in DOMAIN called : called[k].job # j
    BY DEF ToldApart
<1>2. CASE jobs'[j].handlers = <<>>
  <2>1. DOMAIN jobs'[j].handlers = {}
    BY <1>2
  <2>2. QED
    BY <2>1 DEF HandlersOf
<1>3. CASE \E p \in DOMAIN jobs : HandlersOf(p) /\ jobs'[j].handlers = jobs[p].handlers
  <2>1. PICK p \in DOMAIN jobs : HandlersOf(p) /\ jobs'[j].handlers = jobs[p].handlers
    BY <1>3
  <2>2. ASSUME NEW i \in DOMAIN jobs[p].handlers PROVE Rooted(jobs[j].handlers[i])'
    <3>1. PICK h : h = jobs[p].handlers[i]
      OBVIOUS
    <3>2. Rooted(h)'
      BY <2>1, <3>1, RootedStays DEF HandlersOf
    <3>3. h = jobs'[j].handlers[i]
      BY <2>1, <3>1
    <3>4. QED
      BY <3>2, <3>3 DEF Rooted, IsCritical
  <2>3. QED
    BY <1>1, <2>1, <2>2 DEF HandlersOf, Available, IsCritical
<1>4. QED
    BY <1>2, <1>3

(* A job that accepts a message binds it in place of the one before.        *)
LEMMA HandlersBound ==
    ASSUME DgTypes, DgTypes', UNCHANGED called, ToldApart, NEW j, NEW p \in DOMAIN jobs,
           HandlersOf(p), p = j \/ j \notin DOMAIN jobs, NEW job \in JobRecords,
           job.handlers = jobs[p].handlers, FuturesGrow, sent' = sent + 1,
           jobs'[j].handlers = Bound(job, sent + 1), jobs'[j].accepted = sent + 1
    PROVE  HandlersOf(j)'
<1>9. PICK bound : bound = Bound(job, sent + 1)
    OBVIOUS
<1>1. sent \in Nat /\ sent + 1 \in Nat
    BY DEF DgTypes
<1>2. PICK b : b = [kind |-> "critical", fut |-> 0, value |-> <<>>, message |-> sent + 1]
    OBVIOUS
<1>3. \A i \in DOMAIN jobs[p].handlers :
         /\ Rooted(jobs[p].handlers[i]) /\ Available(jobs[p].handlers[i])
         /\ ~IsCritical(jobs[p].handlers[i]) => jobs[p].handlers[i].fut # 0
    BY RootedFuture DEF HandlersOf
<1>4. /\ \A i \in DOMAIN bound :
             \/ bound[i] = b
             \/ ~IsCritical(bound[i]) /\ \E k \in DOMAIN jobs[p].handlers : bound[i] = jobs[p].handlers[k]
      /\ \A i, k \in DOMAIN bound : bound[i].fut = bound[k].fut => i = k
  <2>1. \A i, k \in DOMAIN job.handlers : job.handlers[i].fut = job.handlers[k].fut => i = k
    BY DEF HandlersOf
  <2>2. \A i \in DOMAIN job.handlers : ~IsCritical(job.handlers[i]) => job.handlers[i].fut # 0
    BY <1>3
  <2>3. \A i \in DOMAIN Bound(job, sent + 1) :
           \/ Bound(job, sent + 1)[i] = b
           \/ /\ ~IsCritical(Bound(job, sent + 1)[i])
              /\ \E k \in DOMAIN job.handlers : Bound(job, sent + 1)[i] = job.handlers[k]
    BY <1>1, <1>2, BindingMade
  <2>4. \A i, k \in DOMAIN Bound(job, sent + 1) :
           Bound(job, sent + 1)[i].fut = Bound(job, sent + 1)[k].fut => i = k
    BY <1>1, <2>1, <2>2, BindingMade
  <2>5. QED
    BY <1>9, <2>3, <2>4
<1>5. jobs'[j].handlers = bound
    BY <1>9
<1>6. ASSUME NEW i \in DOMAIN bound
      PROVE  /\ Rooted(bound[i])' /\ Available(bound[i])
             /\ IsCritical(bound[i]) => bound[i].message = sent + 1
             /\ \A k \in DOMAIN called : called[k].job = j => ~Repeats(bound[i], called[k].entry)
  <2>1. PICK h : h = bound[i]
    OBVIOUS
  <2>2. CASE h = b
    <3>1. IsCritical(h) /\ h.fut = 0 /\ h.message = sent + 1
      BY <1>2, <2>2 DEF IsCritical
    <3>2. Rooted(h)'
      BY <1>1, <3>1 DEF Rooted, IsCritical
    <3>3. ASSUME NEW k \in DOMAIN called PROVE ~Repeats(h, called[k].entry)
      <4>1. Rooted(called[k].entry)
        BY DEF ToldApart
      <4>2. called[k].entry.fut = 0 => called[k].entry.message \in 1..sent
        BY <4>1, RootedFuture
      <4>3. QED
        BY <1>1, <3>1, <4>2 DEF Repeats
    <3>4. QED
      BY <2>1, <3>1, <3>2, <3>3 DEF Available, Rooted, IsCritical
  <2>3. CASE h # b
    <3>1. PICK k \in DOMAIN jobs[p].handlers : h = jobs[p].handlers[k] /\ ~IsCritical(h)
      BY <1>4, <2>1, <2>3
    <3>2. Rooted(h) /\ Available(h)
      BY <1>3, <3>1
    <3>3. Rooted(h)'
      BY <3>2, RootedStays
    <3>4. ASSUME NEW m \in DOMAIN called, called[m].job = j PROVE ~Repeats(h, called[m].entry)
      <4>1. p = j
        BY <3>4 DEF ToldApart
      <4>2. QED
        BY <3>1, <3>4, <4>1 DEF HandlersOf
    <3>5. QED
      BY <2>1, <3>1, <3>2, <3>3, <3>4 DEF Rooted, IsCritical
  <2>4. QED
    BY <2>2, <2>3
<1>7. ASSUME NEW i \in DOMAIN bound
      PROVE  Rooted(jobs[j].handlers[i])' /\ Available(jobs[j].handlers[i])'
  <2>1. PICK h : h = bound[i] /\ h = jobs'[j].handlers[i]
    BY <1>5
  <2>2. QED
    BY <1>6, <2>1 DEF Rooted, Available, IsCritical
<1>8. QED
    BY <1>4, <1>5, <1>6, <1>7 DEF HandlersOf, IsCritical, Repeats

(* A fetch adds handlers, each once, for values that it made available.     *)
Fresh(h, seq) ==
    /\ ~IsCritical(h) /\ Available(h) /\ h.message = NoMessage
    /\ h.fut \in DOMAIN futures /\ futures[h.fut].pending /\ h.fut \in Range(seq)

LEMMA ThroughIsFinished ==
    ASSUME FutureInv, NEW f \in DOMAIN futures
    PROVE  /\ Read[f].through \in Seq(DOMAIN futures)
           /\ \A i \in DOMAIN Read[f].through :
                 LET g == Read[f].through[i]
                 IN  Read[g].value \in Seq(FinishedResults) /\ Read[g].value # <<>>
<1> DEFINE Done == {g \in DOMAIN futures : Read[g].done}
<1>1. Read[f].through \in Seq(Done)
    BY ReadGood DEF GoodRead
<1>2. \A g \in Done : g \in DOMAIN futures /\ Read[g].value \in Seq(FinishedResults)
                      /\ Read[g].value # <<>>
    BY ReadGood DEF GoodRead
<1> HIDE DEF Done
<1>3. QED
    BY <1>1, <1>2

LEMMA HandlersAdded ==
    ASSUME FutureInv, NEW f \in DOMAIN futures, NEW j \in DOMAIN jobs
    PROVE  LET old == jobs[j]
               new == WithHandlers(j, Read[f].through)
           IN  /\ new \in JobRecords /\ RunsKept(new)
               /\ new.log = old.log /\ new.parent = old.parent /\ new.outcome = old.outcome
               /\ new.sub = old.sub /\ new.accepted = old.accepted
               /\ \A i \in DOMAIN new.handlers :
                     \/ i \in DOMAIN old.handlers /\ new.handlers[i] = old.handlers[i]
                     \/ i \notin DOMAIN old.handlers /\ Fresh(new.handlers[i], Read[f].through)
               /\ \A i, k \in DOMAIN new.handlers \ DOMAIN old.handlers :
                     new.handlers[i].fut = new.handlers[k].fut => i = k
<1> DEFINE seq == Read[f].through
           at == Registered(j, seq)
           fs == Picked(seq, at)
           added == [i \in DOMAIN fs |-> [kind |-> "tool", fut |-> fs[i],
                                          value |-> Read[fs[i]].value, message |-> NoMessage]]
           C == Cardinality(at)
           old == jobs[j].handlers
           all == old \o added
<1>1. /\ seq \in Seq(DOMAIN futures)
      /\ \A i \in DOMAIN seq : Read[seq[i]].value \in Seq(FinishedResults) /\ Read[seq[i]].value # <<>>
    BY ThroughIsFinished
<1>2. /\ jobs[j] \in JobRecords /\ RunsKept(jobs[j]) /\ DOMAIN futures \subseteq Nat
    BY DEF FutureInv, DgTypes, RunsAreKept
<1>3. old \in Seq(Entries)
  <2> HIDE DEF Entries
  <2>1. QED
    BY <1>2 DEF JobRecords
<1>4. /\ C \in Nat /\ Len(fs) = C /\ DOMAIN fs = 1..C
      /\ \A i \in 1..C : /\ Nth(at, i) \in at /\ fs[i] = seq[Nth(at, i)]
                         /\ \A k \in 1..C : Nth(at, i) = Nth(at, k) => i = k
  <2>1. at \subseteq DOMAIN seq
    BY DEF Registered
  <2> HIDE DEF seq, at
  <2>2. QED
    BY <1>1, <2>1, PickedElements
<1>5. \A p \in at : /\ p \in DOMAIN seq /\ futures[seq[p]].pending
                     /\ \A k \in 1..p - 1 : seq[k] # seq[p]
    BY DEF Registered
<1>6. ASSUME NEW i \in 1..C
      PROVE  /\ fs[i] \in DOMAIN futures /\ fs[i] \in Range(seq) /\ futures[fs[i]].pending
             /\ Read[fs[i]].value \in Seq(FinishedResults) /\ Read[fs[i]].value # <<>>
  <2>1. PICK p \in at : fs[i] = seq[p]
    BY <1>4
  <2>2. p \in DOMAIN seq /\ seq[p] \in DOMAIN futures
    BY <1>1, <1>5, <2>1
  <2>3. QED
    BY <1>1, <1>5, <2>1, <2>2 DEF Range
<1>7. ASSUME NEW i \in 1..C, NEW k \in 1..C, fs[i] = fs[k] PROVE i = k
  <2>1. PICK p \in at, q \in at : p = Nth(at, i) /\ q = Nth(at, k) /\ seq[p] = seq[q]
    BY <1>4, <1>7
  <2>2. p \in Nat /\ q \in Nat /\ 1 <= p /\ 1 <= q
    BY <1>1, <1>5
  <2>3. ~(p < q) /\ ~(q < p)
    BY <1>5, <2>1, <2>2
  <2>4. p = q
    BY <2>2, <2>3
  <2>5. QED
    BY <1>4, <2>1, <2>4
<1> HIDE DEF seq, at, fs, C
<1>8. added \in Seq(Entries) /\ Len(added) = C /\ DOMAIN added = 1..C
  <2>1. ASSUME NEW i \in 1..C PROVE added[i] \in Entries
    <3>1. Read[fs[i]].value \in Seq(Results)
      BY <1>6, FinishedSequence
    <3>2. fs[i] \in Nat /\ NoMessage \in Nat
      BY <1>2, <1>6 DEF NoMessage
    <3> HIDE DEF Results
    <3>3. QED
      BY <1>4, <3>1, <3>2 DEF Entries
  <2> HIDE DEF Entries
  <2>2. QED
    BY <1>4, <2>1
<1>9. \A i \in 1..C : added[i].fut = fs[i] /\ Fresh(added[i], seq)
  <2>1. ASSUME NEW i \in 1..C PROVE added[i].fut = fs[i] /\ Fresh(added[i], seq)
    <3>1. /\ ~IsCritical(added[i]) /\ added[i].message = NoMessage /\ added[i].fut = fs[i]
          /\ added[i].value = Read[fs[i]].value
      BY <1>4 DEF IsCritical
    <3>2. \A k \in DOMAIN Read[fs[i]].value : Read[fs[i]].value[k].run >= 1
      BY <1>6, FinishedSequence
    <3>3. Available(added[i])
      BY <1>6, <3>1, <3>2 DEF Available
    <3> HIDE DEF added
    <3>4. QED
      BY <1>6, <3>1, <3>3 DEF Fresh
  <2>2. QED
    BY <2>1
<1> HIDE DEF added, Entries
<1>10. /\ all \in Seq(Entries) /\ DOMAIN all = 1..Len(old) + C /\ Len(old) \in Nat
       /\ DOMAIN old = 1..Len(old)
       /\ \A i \in 1..Len(old) : all[i] = old[i]
       /\ \A i \in Len(old) + 1..Len(old) + C : i - Len(old) \in 1..C /\ all[i] = added[i - Len(old)]
    BY <1>3, <1>4, <1>8
<1>11. WithHandlers(j, seq) = [jobs[j] EXCEPT !.handlers = all]
  <2>1. jobs[j].handlers = old
    OBVIOUS
  <2>2. QED
    BY <2>1 DEF WithHandlers, added, fs, at
<1> HIDE DEF all
<1>12. /\ WithHandlers(j, seq) \in JobRecords /\ WithHandlers(j, seq).handlers = all
       /\ RunsKept(WithHandlers(j, seq))
       /\ WithHandlers(j, seq).log = jobs[j].log /\ WithHandlers(j, seq).parent = jobs[j].parent
       /\ WithHandlers(j, seq).outcome = jobs[j].outcome
       /\ WithHandlers(j, seq).sub = jobs[j].sub
       /\ WithHandlers(j, seq).accepted = jobs[j].accepted
    BY <1>2, <1>10, <1>11 DEF JobRecords, RunsKept
<1>13. \A i \in DOMAIN all :
          \/ i \in DOMAIN old /\ all[i] = old[i]
          \/ i \notin DOMAIN old /\ Fresh(all[i], seq)
  <2>1. ASSUME NEW i \in DOMAIN all, i \notin DOMAIN old PROVE Fresh(all[i], seq)
    <3>1. i \in Len(old) + 1..Len(old) + C
      BY <1>4, <1>10, <2>1
    <3>2. QED
      BY <1>9, <1>10, <3>1
  <2>2. QED
    BY <1>10, <2>1
<1>14. ASSUME NEW i \in DOMAIN all \ DOMAIN old, NEW k \in DOMAIN all \ DOMAIN old,
              all[i].fut = all[k].fut
       PROVE  i = k
  <2>1. i \in Len(old) + 1..Len(old) + C /\ k \in Len(old) + 1..Len(old) + C
    BY <1>4, <1>10
  <2>2. fs[i - Len(old)] = fs[k - Len(old)]
    BY <1>9, <1>10, <1>14, <2>1
  <2>3. i - Len(old) = k - Len(old)
    BY <1>7, <1>10, <2>1, <2>2
  <2>4. QED
    BY <1>4, <1>10, <2>1, <2>3, SMTT(30)
<1>15. QED
    BY <1>12, <1>13, <1>14 DEF seq

LEMMA HandlersFetched ==
    ASSUME FutureInv, DgTypes', HandlerInv, NEW f \in DOMAIN futures, NEW j \in DOMAIN jobs,
           UNCHANGED <<called, sent>>, FuturesGrow,
           \A g \in Range(Read[f].through) : ~futures'[g].pending,
           jobs'[j] = WithHandlers(j, Read[f].through)
    PROVE  HandlersOf(j)'
<1> DEFINE old == jobs[j].handlers
<1>1. PICK new, seq : new = jobs'[j].handlers /\ seq = Read[f].through
    OBVIOUS
<1>2. /\ \A i \in DOMAIN new :
            \/ i \in DOMAIN old /\ new[i] = old[i]
            \/ i \notin DOMAIN old /\ Fresh(new[i], seq)
      /\ \A i, k \in DOMAIN new \ DOMAIN old : new[i].fut = new[k].fut => i = k
      /\ jobs'[j].accepted = jobs[j].accepted
    BY <1>1, HandlersAdded
<1>3. DgTypes /\ HandlersOf(j)
    BY DEF FutureInv, HandlerInv
<1>4. ASSUME NEW h, Fresh(h, seq), NEW g, Rooted(g) PROVE h.fut # g.fut
  <2>1. CASE IsCritical(g)
    <3>1. g.fut = 0 /\ 0 \notin DOMAIN futures
      BY <1>3, <1>4, <2>1 DEF Rooted, DgTypes
    <3>2. QED
      BY <1>4, <3>1 DEF Fresh
  <2>2. CASE ~IsCritical(g)
    BY <1>4, <2>2 DEF Fresh, Rooted
  <2>3. QED
    BY <2>1, <2>2
<1>5. ASSUME NEW i \in DOMAIN new
      PROVE  /\ Rooted(jobs[j].handlers[i])' /\ Available(new[i])
             /\ IsCritical(new[i]) /\ jobs[j].accepted # NoMessage =>
                   new[i].message = jobs[j].accepted
             /\ \A k \in DOMAIN called : called[k].job = j => ~Repeats(new[i], called[k].entry)
  <2>1. PICK h : h = new[i]
    OBVIOUS
  <2>2. CASE i \in DOMAIN old /\ h = old[i]
    <3>1. Rooted(h) /\ Available(h)
      BY <1>3, <2>2 DEF HandlersOf
    <3>2. Rooted(h)'
      BY <1>3, <3>1, RootedStays
    <3>3. QED
      BY <1>1, <1>3, <2>1, <2>2, <3>1, <3>2 DEF HandlersOf, Rooted, IsCritical
  <2>3. CASE Fresh(h, seq)
    <3>1. Rooted(h)'
      BY <1>1, <2>3 DEF Fresh, Rooted, IsCritical, FuturesGrow
    <3>2. \A k \in DOMAIN called : ~Repeats(h, called[k].entry)
      BY <1>4, <2>3 DEF HandlerInv, ToldApart, Repeats
    <3>3. ~IsCritical(h) /\ Available(h)
      BY <2>3 DEF Fresh
    <3>4. Rooted(jobs[j].handlers[i])'
      BY <1>1, <2>1, <3>1 DEF Rooted, IsCritical
    <3>5. QED
      BY <2>1, <3>2, <3>3, <3>4
  <2>4. QED
    BY <1>2, <2>1, <2>2, <2>3
<1>6. ASSUME NEW i \in DOMAIN new, NEW k \in DOMAIN new, new[i].fut = new[k].fut PROVE i = k
  <2>1. CASE i \in DOMAIN old /\ k \in DOMAIN old
    BY <1>2, <1>3, <1>6, <2>1 DEF HandlersOf
  <2>2. CASE i \notin DOMAIN old /\ k \notin DOMAIN old
    BY <1>2, <1>6, <2>2
  <2>3. CASE i \in DOMAIN old /\ k \notin DOMAIN old
    <3>1. Rooted(new[i]) /\ Fresh(new[k], seq)
      BY <1>2, <1>3, <2>3 DEF HandlersOf
    <3>2. QED
      BY <1>4, <1>6, <3>1
  <2>4. CASE i \notin DOMAIN old /\ k \in DOMAIN old
    <3>1. Rooted(new[k]) /\ Fresh(new[i], seq)
      BY <1>2, <1>3, <2>4 DEF HandlersOf
    <3>2. QED
      BY <1>4, <1>6, <3>1
  <2>5. QED
    BY <2>1, <2>2, <2>3, <2>4
<1>7. ASSUME NEW i \in DOMAIN new PROVE Available(jobs[j].handlers[i])'
  <2>1. PICK h : h = new[i]
    OBVIOUS
  <2>2. QED
    BY <1>1, <1>5, <2>1 DEF Available, IsCritical
<1>8. QED
    BY <1>1, <1>2, <1>5, <1>6, <1>7 DEF HandlersOf, IsCritical, Repeats

LEMMA HandlersTold ==
    ASSUME DgTypes, DgTypes', HandlerInv, NEW j \in DOMAIN jobs, UNCHANGED <<futures, sent>>,
           DOMAIN jobs' = DOMAIN jobs, called' = called \o Invoked(j)
    PROVE  /\ ToldApart'
           /\ \A k \in DOMAIN called' :
                 called'[k].job # j => k \in DOMAIN called /\ called'[k] = called[k]
<1> DEFINE handlers == jobs[j].handlers
           N == Len(called)
<1>1. /\ N \in Nat /\ DOMAIN called = 1..N
      /\ Len(handlers) \in Nat /\ DOMAIN handlers = 1..Len(handlers)
  <2>1. jobs[j] \in JobRecords
    BY DEF DgTypes
  <2>2. handlers \in Seq(Entries)
    <3> HIDE DEF Entries
    <3>1. QED
      BY <2>1 DEF JobRecords
  <2>3. QED
    BY <2>2 DEF DgTypes
<1>9. \A k \in DOMAIN handlers : handlers[k] \in Entries
  <2>1. jobs[j] \in JobRecords
    BY DEF DgTypes
  <2>2. handlers \in Seq(Entries)
    <3> HIDE DEF Entries
    <3>1. QED
      BY <2>1 DEF JobRecords
  <2> HIDE DEF handlers, Entries
  <2>3. QED
    BY <2>2
<1>2. HandlersOf(j) /\ ToldApart
    BY DEF HandlerInv
<1>3. /\ DOMAIN called' = 1..N + Len(handlers)
      /\ \A k \in 1..N : called'[k] = called[k]
      /\ \A k \in N + 1..N + Len(handlers) :
            /\ k - N \in DOMAIN handlers
            /\ called'[k] = [job |-> j, entry |-> handlers[k - N]]
  <2> DEFINE A == [job : Nat, entry : Entries]
  <2>1. PICK new : new = Invoked(j)
    OBVIOUS
  <2>2. /\ DOMAIN new = 1..Len(handlers)
        /\ \A k \in DOMAIN handlers : new[k] = [job |-> j, entry |-> handlers[k]]
    BY <1>1, <2>1 DEF Invoked
  <2>3. new \in Seq(A) /\ Len(new) = Len(handlers)
    <3>1. \A k \in DOMAIN handlers : handlers[k] \in Entries
      BY <1>9
    <3>2. j \in Nat
      BY DEF DgTypes
    <3> HIDE DEF Entries, handlers
    <3>3. \A k \in DOMAIN handlers : [job |-> j, entry |-> handlers[k]] \in A
      BY <3>1, <3>2
    <3>4. new = [k \in 1..Len(handlers) |-> [job |-> j, entry |-> handlers[k]]]
      BY <1>1, <2>1 DEF Invoked, handlers
    <3> HIDE DEF A
    <3>5. QED
      BY <1>1, <3>3, <3>4
  <2>4. called \in Seq(A)
    BY DEF DgTypes
  <2> HIDE DEF handlers, A
  <2>5. called' = called \o new
    BY <2>1
  <2>6. /\ DOMAIN called' = 1..N + Len(handlers)
        /\ \A k \in 1..N : called'[k] = called[k]
        /\ \A k \in N + 1..N + Len(handlers) :
              k - N \in 1..Len(handlers) /\ called'[k] = new[k - N]
    <3>1. PICK old : old = called
      OBVIOUS
    <3>2. PICK all : all = called' /\ all = old \o new
      BY <2>5, <3>1
    <3>3. old \in Seq(A) /\ Len(old) = N
      BY <2>4, <3>1
    <3> HIDE DEF N
    <3>4. Len(all) = N + Len(handlers) /\ all \in Seq(A)
      <4>1. all \in Seq(A) /\ Len(all) = Len(old) + Len(new)
        BY <2>3, <3>2, <3>3, ConcatProperties
      <4>2. QED
        BY <2>3, <3>3, <4>1
    <3>5. \A k \in 1..N : all[k] = old[k]
      BY <1>1, <2>3, <3>2, <3>3
    <3>6. \A k \in N + 1..N + Len(handlers) :
             k - N \in 1..Len(handlers) /\ all[k] = new[k - N]
      BY <1>1, <2>3, <3>2, <3>3
    <3>7. QED
      BY <1>1, <3>1, <3>2, <3>4, <3>5, <3>6
  <2> HIDE DEF N
  <2>7. QED
    BY <1>1, <2>2, <2>6
<1> HIDE DEF N, handlers
<1>4. ASSUME NEW k \in DOMAIN called'
      PROVE  \/ k \in 1..N /\ called'[k] = called[k]
             \/ /\ k \notin 1..N /\ k \in N + 1..N + Len(handlers) /\ k - N \in DOMAIN handlers
                /\ called'[k].job = j /\ called'[k].entry = handlers[k - N]
  <2>1. k \in 1..N \/ (k \in N + 1..N + Len(handlers) /\ k \notin 1..N)
    <3>1. k \in 1..N + Len(handlers)
      BY <1>3
    <3>2. QED
      BY <1>1, <3>1
  <2>2. CASE k \in 1..N
    BY <1>3, <2>2
  <2>3. CASE k \in N + 1..N + Len(handlers) /\ k \notin 1..N
    <3>1. k - N \in DOMAIN handlers
      BY <1>3, <2>3
    <3>2. called'[k] = [job |-> j, entry |-> handlers[k - N]]
      BY <1>3, <2>3
    <3>3. called'[k].job = j /\ called'[k].entry = handlers[k - N]
      BY <3>2
    <3>4. QED
      BY <2>3, <3>1, <3>3
  <2>4. QED
    BY <2>1, <2>2, <2>3
<1>5. ASSUME NEW k \in DOMAIN called' PROVE called'[k].job \in DOMAIN jobs' /\ Rooted(called[k].entry)'
  <2>1. PICK h : h = called'[k].entry
    OBVIOUS
  <2>2. Rooted(h) /\ called'[k].job \in DOMAIN jobs'
    <3>1. CASE k \in 1..N
      BY <1>1, <1>2, <1>4, <2>1, <3>1 DEF ToldApart
    <3>2. CASE k \notin 1..N
      <4>1. k - N \in DOMAIN handlers /\ h = handlers[k - N] /\ called'[k].job = j
        BY <1>4, <2>1, <3>2
      <4>2. QED
        BY <1>2, <4>1 DEF HandlersOf, handlers
    <3>3. QED
      BY <3>1, <3>2
  <2>3. QED
    BY <2>1, <2>2 DEF Rooted, IsCritical
<1>6. ASSUME NEW i \in DOMAIN called', NEW k \in DOMAIN called',
             called'[i].job = called'[k].job, Repeats(called[i].entry, called[k].entry)'
      PROVE  i = k
  <2>1. PICK x, y : x = called'[i] /\ y = called'[k]
    OBVIOUS
  <2>2. x.job = y.job /\ Repeats(x.entry, y.entry) /\ Repeats(y.entry, x.entry)
    BY <1>6, <2>1 DEF Repeats
  <2>3. CASE i \in 1..N /\ k \in 1..N
    BY <1>1, <1>2, <1>4, <2>1, <2>2, <2>3 DEF ToldApart
  <2>4. CASE i \notin 1..N /\ k \notin 1..N
    <3>1. /\ i - N \in DOMAIN handlers /\ x.entry = handlers[i - N]
          /\ k - N \in DOMAIN handlers /\ y.entry = handlers[k - N]
          /\ i \in Int /\ k \in Int
      BY <1>1, <1>3, <1>4, <2>1, <2>4
    <3>2. i - N = k - N
      BY <1>2, <2>2, <3>1 DEF HandlersOf, Repeats, handlers
    <3>3. QED
      BY <1>1, <3>1, <3>2
  <2>5. CASE i \in 1..N /\ k \notin 1..N
    <3>1. /\ x = called[i] /\ i \in DOMAIN called /\ x.job = j
          /\ k - N \in DOMAIN handlers /\ y.entry = handlers[k - N]
      BY <1>1, <1>4, <2>1, <2>2, <2>5
    <3>2. QED
      BY <1>2, <2>2, <3>1 DEF HandlersOf, handlers
  <2>6. CASE i \notin 1..N /\ k \in 1..N
    <3>1. /\ y = called[k] /\ k \in DOMAIN called /\ y.job = j
          /\ i - N \in DOMAIN handlers /\ x.entry = handlers[i - N]
      BY <1>1, <1>4, <2>1, <2>2, <2>6
    <3>2. QED
      BY <1>2, <2>2, <3>1 DEF HandlersOf, handlers
  <2>7. QED
    BY <2>3, <2>4, <2>5, <2>6
<1>7. ToldApart'
    BY <1>5, <1>6 DEF ToldApart
<1>8. QED
    BY <1>1, <1>4, <1>7

-----------------------------------------------------------------------------
(* What a job finds in its log: outcomes of its own sub-tasks, each once.   *)
LogOf(p) ==
    \A i \in DOMAIN jobs[p].log : jobs[p].log[i] # 0 =>
        /\ jobs[p].log[i] \in DOMAIN jobs /\ jobs[jobs[p].log[i]].parent = p
        /\ jobs[jobs[p].log[i]].outcome # "none"
        /\ \A k \in DOMAIN jobs[p].log : jobs[p].log[k] = jobs[p].log[i] => i = k
Told(c) ==
    jobs[c].outcome # "none" /\ jobs[c].parent # 0 =>
        \E i \in DOMAIN jobs[jobs[c].parent].log : jobs[jobs[c].parent].log[i] = c
OutcomeInv ==
    \A j \in DOMAIN jobs : jobs[j].parent \in 0..j - 1 /\ LogOf(j) /\ Told(j)

LEMMA LogsStay ==
    ASSUME DgTypes, DgTypes', OutcomeInv, DOMAIN jobs \subseteq DOMAIN jobs',
           \A j \in DOMAIN jobs : /\ jobs'[j].log = jobs[j].log /\ jobs'[j].parent = jobs[j].parent
                                  /\ jobs'[j].outcome = jobs[j].outcome,
           \A j \in DOMAIN jobs' \ DOMAIN jobs :
               jobs'[j].log = <<>> /\ jobs'[j].parent \in 0..j - 1 /\ jobs'[j].outcome = "none"
    PROVE  OutcomeInv'
<1>1. ASSUME NEW j \in DOMAIN jobs' \ DOMAIN jobs
      PROVE  jobs'[j].parent \in 0..j - 1 /\ LogOf(j)' /\ Told(j)'
  <2>1. DOMAIN jobs'[j].log = {}
    <3>1. jobs'[j].log = <<>>
      OBVIOUS
    <3>2. QED
      BY <3>1
  <2>2. QED
    BY <2>1 DEF LogOf, Told
<1>2. ASSUME NEW j \in DOMAIN jobs PROVE jobs'[j].parent \in 0..j - 1 /\ LogOf(j)' /\ Told(j)'
  <2>1. jobs[j].parent \in 0..j - 1 /\ LogOf(j) /\ Told(j)
    BY DEF OutcomeInv
  <2>2. jobs[j].parent # 0 => jobs[j].parent \in DOMAIN jobs
    BY <2>1 DEF DgTypes
  <2>3. LogOf(j)'
    BY <2>1 DEF LogOf
  <2>4. Told(j)'
    BY <2>1, <2>2 DEF Told
  <2>5. QED
    BY <2>1, <2>3, <2>4
<1>3. QED
    BY <1>1, <1>2 DEF OutcomeInv

-----------------------------------------------------------------------------
(* How a step moves the jobs and the futures.                               *)
DgInv == FutureInv /\ HandlerInv /\ OutcomeInv
CalledRecords == [job : Nat, entry : Entries]

LEMMA JobAppended ==
    ASSUME DgTypes, NEW job \in JobRecords, jobs' = Append(jobs, job)
    PROVE  /\ jobs' \in Seq(JobRecords) /\ Len(jobs) \in Nat /\ DOMAIN jobs = 1..Len(jobs)
           /\ DOMAIN jobs' = DOMAIN jobs \cup {Len(jobs) + 1} /\ Len(jobs) + 1 \notin DOMAIN jobs
           /\ \A j \in DOMAIN jobs : jobs'[j] = jobs[j]
           /\ jobs'[Len(jobs) + 1] = job
<1>1. jobs \in Seq(JobRecords)
    BY DEF DgTypes
<1> HIDE DEF JobRecords
<1>2. jobs' \in Seq(JobRecords) /\ Len(jobs') = Len(jobs) + 1
    BY <1>1
<1>3. \A j \in 1..Len(jobs) : jobs'[j] = jobs[j]
    BY <1>1
<1>4. jobs'[Len(jobs) + 1] = job
    BY <1>1
<1>5. Len(jobs) \in Nat /\ DOMAIN jobs = 1..Len(jobs) /\ DOMAIN jobs' = 1..Len(jobs) + 1
    BY <1>1, <1>2
<1>6. 1..Len(jobs) + 1 = 1..Len(jobs) \cup {Len(jobs) + 1} /\ Len(jobs) + 1 \notin 1..Len(jobs)
    BY <1>5
<1>7. QED
    BY <1>2, <1>3, <1>4, <1>5, <1>6

LEMMA FutureAppended ==
    ASSUME DgTypes, NEW future \in FutureRecords, futures' = Append(futures, future),
           NEW n, n = Len(futures) + 1
    PROVE  /\ futures' \in Seq(FutureRecords) /\ n \in Nat
           /\ DOMAIN futures' = DOMAIN futures \cup {n}
           /\ \A f \in DOMAIN futures : futures'[f] = futures[f] /\ f \in 1..n - 1
           /\ futures'[n] = future
<1>1. futures \in Seq(FutureRecords)
    BY DEF DgTypes
<1> HIDE DEF FutureRecords
<1>2. futures' \in Seq(FutureRecords) /\ Len(futures') = n
    BY <1>1
<1>3. \A f \in 1..n - 1 : futures'[f] = futures[f]
    BY <1>1
<1>4. futures'[n] = future
    BY <1>1
<1>5. n \in Nat \ {0} /\ DOMAIN futures = 1..n - 1 /\ DOMAIN futures' = 1..n
    BY <1>1, <1>2
<1>6. 1..n = 1..n - 1 \cup {n}
    BY <1>5
<1>7. QED
    BY <1>2, <1>3, <1>4, <1>5, <1>6

LEMMA JobChanged ==
    ASSUME DgTypes, NEW j \in DOMAIN jobs, NEW job \in JobRecords, UNCHANGED <<uses, futures>>,
           jobs' = [jobs EXCEPT ![j] = job], sent' \in Nat, sent <= sent',
           called' \in Seq(CalledRecords)
    PROVE  /\ DgTypes' /\ FuturesGrow /\ DOMAIN jobs' = DOMAIN jobs /\ jobs'[j] = job
           /\ \A k \in DOMAIN jobs : k # j => jobs'[k] = jobs[k]
<1>1. jobs \in Seq(JobRecords)
    BY DEF DgTypes
<1>2. jobs' \in Seq(JobRecords) /\ DOMAIN jobs' = DOMAIN jobs
  <2> HIDE DEF JobRecords
  <2>1. QED
    BY <1>1
<1>3. DgTypes'
    BY <1>2 DEF DgTypes, CalledRecords
<1>4. FuturesGrow
    BY DEF FuturesGrow
<1>5. QED
    BY <1>2, <1>3, <1>4

(* A step that appends a job, whose handlers hold, keeps the invariant ...  *)
LEMMA AppendedKeeps ==
    ASSUME DgInv, DgTypes', FuturesGrow, UNCHANGED called, PartsAreOlder',
           NEW job \in JobRecords, jobs' = Append(jobs, job), RunsKept(job),
           job.log = <<>>, job.parent \in 0..Len(jobs), job.outcome = "none",
           NEW n, n = Len(jobs) + 1, HandlersOf(n)'
    PROVE  DgInv'
<1>1. DgTypes /\ OutcomeInv /\ RunsAreKept /\ HandlerInv
    BY DEF DgInv, FutureInv
<1>3. /\ Len(jobs) \in Nat /\ DOMAIN jobs = 1..Len(jobs)
      /\ DOMAIN jobs' = DOMAIN jobs \cup {n} /\ n \notin DOMAIN jobs
      /\ \A j \in DOMAIN jobs : jobs'[j] = jobs[j]
      /\ jobs'[n] = job
    BY <1>1, JobAppended
<1>4. RunsAreKept'
    BY <1>1, <1>3 DEF RunsAreKept, RunsKept
<1>5. OutcomeInv'
  <2>1. job.parent \in 0..n - 1
    BY <1>3
  <2>2. QED
    BY <1>1, <1>3, <2>1, LogsStay
<1>7. ASSUME NEW j \in DOMAIN jobs PROVE HandlersOf(j)'
    BY <1>1, <1>3, HandlersStay DEF HandlerInv
<1>8. ToldApart'
    BY <1>1, <1>3, CalledStay DEF HandlerInv
<1>9. HandlerInv'
    BY <1>3, <1>7, <1>8 DEF HandlerInv
<1>10. QED
    BY <1>4, <1>5, <1>9 DEF DgInv, FutureInv

(* ... and so does one that changes one job.                                *)
LEMMA ChangedKeeps ==
    ASSUME DgInv, DgTypes', FuturesGrow, UNCHANGED futures, NEW j \in DOMAIN jobs,
           DOMAIN jobs' = DOMAIN jobs, \A k \in DOMAIN jobs : k # j => jobs'[k] = jobs[k],
           RunsKept(jobs[j])', HandlersOf(j)', ToldApart', OutcomeInv',
           \A k \in DOMAIN called' :
               called'[k].job # j => k \in DOMAIN called /\ called'[k] = called[k]
    PROVE  DgInv'
<1>1. DgTypes /\ RunsAreKept /\ HandlerInv /\ PartsAreOlder
    BY DEF DgInv, FutureInv
<1>2. RunsAreKept'
    BY <1>1 DEF RunsAreKept, RunsKept
<1>3. PartsAreOlder'
    BY <1>1 DEF PartsAreOlder
<1>4. ASSUME NEW k \in DOMAIN jobs, k # j PROVE HandlersOf(k)'
    BY <1>1, <1>4, HandlersStay DEF HandlerInv
<1>5. HandlerInv'
    BY <1>4 DEF HandlerInv
<1>6. QED
    BY <1>2, <1>3, <1>5 DEF DgInv, FutureInv

-----------------------------------------------------------------------------
LEMMA InitInv == DgInit => DgInv
<1>1. SUFFICES ASSUME DgInit PROVE DgInv
    OBVIOUS
<1> DEFINE first == NewJob(NoParent, FALSE, FALSE, <<>>)
           root == [first EXCEPT !.status = "STARTED"]
<1>2. first \in JobRecords /\ RunsKept(first) /\ first.handlers = <<>> /\ first.log = <<>>
      /\ first.parent = 0 /\ first.outcome = "none"
  <2>1. <<>> \in Seq(Entries) /\ NoParent = 0 /\ NoParent \in Nat /\ FALSE \in BOOLEAN
    BY DEF NoParent
  <2>2. PICK parent \in Nat : parent = NoParent
    BY <2>1
  <2>3. PICK sub \in BOOLEAN : sub = FALSE
    BY <2>1
  <2>4. PICK none \in Seq(Entries) : none = <<>>
    BY <2>1
  <2>5. PICK job : job = NewJob(parent, sub, sub, none)
    OBVIOUS
  <2>6. /\ job \in JobRecords /\ RunsKept(job) /\ job.handlers = none /\ job.log = <<>>
        /\ job.parent = parent /\ job.outcome = "none"
    BY <2>5, NewJobMade
  <2>7. job = first
    BY <2>2, <2>3, <2>4, <2>5
  <2> HIDE DEF first
  <2>8. QED
    BY <2>1, <2>2, <2>4, <2>6, <2>7
<1> HIDE DEF first
<1>3. root \in JobRecords /\ RunsKept(root) /\ root.handlers = <<>> /\ root.log = <<>>
      /\ root.parent = 0 /\ root.outcome = "none"
    BY <1>2 DEF JobRecords, RunsKept
<1>4. jobs = <<root>> /\ futures = <<>> /\ called = <<>> /\ sent = 0 /\ uses \in DgSetups
    BY <1>1 DEF DgInit, first
<1> HIDE DEF root
<1>5. DgTypes
  <2>1. <<root>> \in Seq(JobRecords)
    <3> HIDE DEF JobRecords
    <3>1. QED
      BY <1>3
  <2>2. <<>> \in Seq(FutureRecords) /\ <<>> \in Seq(CalledRecords)
    OBVIOUS
  <2>3. QED
    BY <1>4, <2>1, <2>2 DEF DgTypes, CalledRecords
<1>6. DOMAIN jobs = {1} /\ jobs[1] = root /\ DOMAIN futures = {} /\ DOMAIN called = {}
    BY <1>4
<1>7. DOMAIN root.handlers = {} /\ DOMAIN root.log = {}
    BY <1>3
<1>8. FutureInv
    BY <1>3, <1>5, <1>6 DEF FutureInv, PartsAreOlder, RunsAreKept
<1>9. HandlerInv
    BY <1>6, <1>7 DEF HandlerInv, HandlersOf, ToldApart
<1>10. OutcomeInv
    BY <1>3, <1>6, <1>7 DEF OutcomeInv, LogOf, Told
<1>11. QED
    BY <1>8, <1>9, <1>10 DEF DgInv

(* A future of a kind and parts that exist keeps the futures made of older  *)
(* ones.                                                                    *)
LEMMA FuturesStay ==
    ASSUME DgTypes, PartsAreOlder, NEW future \in FutureRecords,
           futures' = Append(futures, future), DOMAIN jobs \subseteq DOMAIN jobs',
           \A i \in DOMAIN future.parts : future.parts[i] \in DOMAIN futures,
           IF future.kind \in {"task", "mute"} THEN future.job \in DOMAIN jobs'
           ELSE future.parts # <<>>
    PROVE  PartsAreOlder' /\ futures' \in Seq(FutureRecords)
           /\ DOMAIN futures \subseteq DOMAIN futures'
           /\ \A f \in DOMAIN futures : futures'[f] = futures[f]
<1>1. PICK n : n = Len(futures) + 1
    OBVIOUS
<1>2. /\ futures' \in Seq(FutureRecords) /\ n \in Nat
      /\ DOMAIN futures' = DOMAIN futures \cup {n}
      /\ \A f \in DOMAIN futures : futures'[f] = futures[f] /\ f \in 1..n - 1
      /\ futures'[n] = future
    BY <1>1, FutureAppended
<1>3. QED
    BY <1>2 DEF PartsAreOlder

LEMMA DelegateKeeps ==
    ASSUME DgInv, NEW j \in DOMAIN jobs, Delegate(j)
    PROVE  DgInv'
<1>1. DgTypes /\ PartsAreOlder /\ HandlerInv /\ ToldApart
    BY DEF DgInv, FutureInv, HandlerInv
<1>2. PICK kind \in uses.kinds, known \in uses.known, adapter \in Adapters, hasHandler \in BOOLEAN :
         /\ jobs' = Append(jobs, NewJob(IF known THEN j ELSE NoParent, adapter, FALSE,
                                         IF known THEN jobs[j].handlers ELSE <<>>))
         /\ futures' = Append(futures, FutureOf(kind, Len(jobs) + 1, <<>>, j, hasHandler))
    BY DEF Delegate
<1>3. UNCHANGED <<uses, called, sent>>
    BY DEF Delegate
<1>4. kind \in {"task", "mute"} /\ known \in BOOLEAN /\ adapter \in BOOLEAN
    BY <1>1, <1>2, DelegationAssumption DEF DgTypes, Adapters
<1>5. Len(jobs) \in Nat /\ DOMAIN jobs = 1..Len(jobs) /\ j \in Nat /\ jobs[j] \in JobRecords
    BY <1>1 DEF DgTypes
<1>6. jobs[j].handlers \in Seq(Entries)
  <2> HIDE DEF Entries
  <2>1. QED
    BY <1>5 DEF JobRecords
<1>7. PICK n, parent, handlers, job, future :
         /\ n = Len(jobs) + 1 /\ parent = (IF known THEN j ELSE NoParent)
         /\ handlers = (IF known THEN jobs[j].handlers ELSE <<>>)
         /\ job = NewJob(parent, adapter, FALSE, handlers)
         /\ future = FutureOf(kind, n, <<>>, j, hasHandler)
    OBVIOUS
<1>8. parent \in 0..Len(jobs) /\ parent \in Nat /\ handlers \in Seq(Entries)
  <2>1. <<>> \in Seq(Entries)
    OBVIOUS
  <2> HIDE DEF Entries
  <2>2. QED
    BY <1>5, <1>6, <1>7, <2>1 DEF NoParent
<1>9. /\ job \in JobRecords /\ RunsKept(job) /\ job.handlers = handlers
      /\ job.accepted = NoMessage /\ job.log = <<>> /\ job.parent = parent /\ job.outcome = "none"
  <2>1. FALSE \in BOOLEAN
    OBVIOUS
  <2>2. PICK sub \in BOOLEAN : sub = FALSE /\ job = NewJob(parent, adapter, sub, handlers)
    BY <1>7, <2>1
  <2>3. job = NewJob(parent, adapter, sub, handlers)
    BY <2>2
  <2>4. parent \in Nat /\ adapter \in BOOLEAN /\ handlers \in Seq(Entries)
    BY <1>4, <1>8
  <2> HIDE DEF Entries
  <2>5. QED
    BY <2>3, <2>4, NewJobMade
<1>10. future \in FutureRecords /\ future.kind = kind /\ future.parts = <<>> /\ future.job = n
  <2>1. <<>> \in Seq(Nat) /\ n \in Nat
    BY <1>5, <1>7
  <2>2. QED
    BY <1>4, <1>5, <1>7, <2>1 DEF FutureOf, FutureRecords
<1>11. jobs' = Append(jobs, job) /\ futures' = Append(futures, future)
    BY <1>2, <1>7
<1>12. /\ jobs' \in Seq(JobRecords) /\ DOMAIN jobs' = DOMAIN jobs \cup {n} /\ n \notin DOMAIN jobs
       /\ jobs'[n] = job
    BY <1>1, <1>7, <1>9, <1>11, JobAppended
<1>13. /\ PartsAreOlder' /\ futures' \in Seq(FutureRecords)
       /\ DOMAIN futures \subseteq DOMAIN futures'
       /\ \A f \in DOMAIN futures : futures'[f] = futures[f]
  <2>1. DOMAIN future.parts = {}
    BY <1>10
  <2>2. QED
    BY <1>1, <1>4, <1>10, <1>11, <1>12, <2>1, FuturesStay
<1>14. DgTypes' /\ FuturesGrow
    BY <1>1, <1>3, <1>12, <1>13 DEF DgTypes, FuturesGrow
<1>15. HandlersOf(n)'
  <2>1. jobs'[n].handlers = <<>> \/ jobs'[n].handlers = jobs[j].handlers
    BY <1>7, <1>9, <1>12
  <2>2. HandlersOf(j)
    BY <1>1 DEF HandlerInv
  <2>3. QED
    BY <1>1, <1>3, <1>9, <1>12, <1>14, <2>1, <2>2, HandlersInherited
<1>16. QED
    BY <1>3, <1>7, <1>8, <1>9, <1>11, <1>13, <1>14, <1>15, AppendedKeeps

LEMMA StartDialogKeeps ==
    ASSUME DgInv, NEW j \in DOMAIN jobs, StartDialog(j)
    PROVE  DgInv'
<1>1. DgTypes /\ PartsAreOlder /\ HandlerInv /\ ToldApart
    BY DEF DgInv, FutureInv, HandlerInv
<1>2. PICK adapter \in BOOLEAN, hasHandler \in BOOLEAN :
         /\ jobs' = Append(jobs, Accepted(NewJob(j, adapter, FALSE, jobs[j].handlers), sent + 1))
         /\ futures' = Append(futures, FutureOf("mute", Len(jobs) + 1, <<>>, j, hasHandler))
    BY DEF StartDialog
<1>3. UNCHANGED <<uses, called>> /\ sent' = sent + 1 /\ sent \in Nat /\ sent + 1 \in Nat
    BY <1>1 DEF StartDialog, DgTypes
<1>4. /\ Len(jobs) \in Nat /\ DOMAIN jobs = 1..Len(jobs) /\ j \in Nat /\ j \in 0..Len(jobs)
      /\ jobs[j] \in JobRecords
    BY <1>1 DEF DgTypes
<1>5. jobs[j].handlers \in Seq(Entries)
    BY <1>4 DEF JobRecords
<1>17. PICK sub \in BOOLEAN : sub = FALSE
    OBVIOUS
<1>18. PICK message \in Nat : message = sent + 1
    BY <1>3
<1>6. PICK n, first, job, future :
         /\ n = Len(jobs) + 1
         /\ first = NewJob(j, adapter, sub, jobs[j].handlers)
         /\ job = Accepted(first, message)
         /\ future = FutureOf("mute", n, <<>>, j, hasHandler)
    OBVIOUS
<1>7. first = NewJob(j, adapter, sub, jobs[j].handlers)
    BY <1>6
<1>8. /\ first \in JobRecords /\ RunsKept(first) /\ first.handlers = jobs[j].handlers
      /\ first.log = <<>> /\ first.parent = j /\ first.outcome = "none"
    BY <1>4, <1>5, <1>7, NewJobMade
<1>9. /\ job \in JobRecords /\ RunsKept(job) /\ job.handlers = Bound(first, message)
      /\ job.accepted = message /\ job.log = <<>> /\ job.parent = j /\ job.outcome = "none"
    BY <1>6, <1>8, MessageAccepted
<1>10. /\ future \in FutureRecords /\ future.kind = "mute" /\ future.parts = <<>>
       /\ future.job = n
  <2>1. <<>> \in Seq(Nat) /\ n \in Nat
    BY <1>4, <1>6
  <2>2. QED
    BY <1>4, <1>6, <2>1 DEF FutureOf, FutureRecords
<1>11. jobs' = Append(jobs, job) /\ futures' = Append(futures, future)
    BY <1>2, <1>6, <1>17, <1>18
<1>12. /\ jobs' \in Seq(JobRecords) /\ DOMAIN jobs' = DOMAIN jobs \cup {n} /\ n \notin DOMAIN jobs
       /\ jobs'[n] = job
    BY <1>1, <1>6, <1>9, <1>11, JobAppended
<1>13. /\ PartsAreOlder' /\ futures' \in Seq(FutureRecords)
       /\ DOMAIN futures \subseteq DOMAIN futures'
       /\ \A f \in DOMAIN futures : futures'[f] = futures[f]
  <2>1. DOMAIN future.parts = {}
    BY <1>10
  <2>2. QED
    BY <1>1, <1>10, <1>11, <1>12, <2>1, FuturesStay
<1>14. DgTypes' /\ FuturesGrow
    BY <1>1, <1>3, <1>12, <1>13 DEF DgTypes, FuturesGrow
<1>15. HandlersOf(n)'
  <2>1. HandlersOf(j)
    BY <1>1 DEF HandlerInv
  <2>2. jobs'[n].handlers = Bound(first, sent + 1) /\ jobs'[n].accepted = sent + 1
    BY <1>6, <1>9, <1>12, <1>18
  <2>3. QED
    BY <1>1, <1>3, <1>8, <1>12, <1>14, <2>1, <2>2, HandlersBound
<1>16. QED
    BY <1>3, <1>4, <1>6, <1>9, <1>11, <1>13, <1>14, <1>15, AppendedKeeps

LEMMA StartSubTaskKeeps ==
    ASSUME DgInv, NEW j \in DOMAIN jobs, StartSubTask(j)
    PROVE  DgInv'
<1>1. DgTypes /\ PartsAreOlder /\ HandlerInv /\ ToldApart
    BY DEF DgInv, FutureInv, HandlerInv
<1>2. PICK known \in uses.known :
         jobs' = Append(jobs, NewJob(IF known THEN j ELSE NoParent, FALSE, TRUE,
                                     IF known THEN jobs[j].handlers ELSE <<>>))
    BY DEF StartSubTask
<1>3. UNCHANGED <<uses, futures, called, sent>>
    BY DEF StartSubTask
<1>4. known \in BOOLEAN
    BY <1>1, <1>2, DelegationAssumption DEF DgTypes
<1>5. Len(jobs) \in Nat /\ DOMAIN jobs = 1..Len(jobs) /\ j \in Nat /\ jobs[j] \in JobRecords
    BY <1>1 DEF DgTypes
<1>6. jobs[j].handlers \in Seq(Entries) /\ <<>> \in Seq(Entries)
    BY <1>5 DEF JobRecords
<1>15. PICK adapter \in BOOLEAN, sub \in BOOLEAN : adapter = FALSE /\ sub = TRUE
    OBVIOUS
<1>7. PICK n, parent, handlers, job :
         /\ n = Len(jobs) + 1 /\ parent = (IF known THEN j ELSE NoParent)
         /\ handlers = (IF known THEN jobs[j].handlers ELSE <<>>)
         /\ job = NewJob(parent, adapter, sub, handlers)
    OBVIOUS
<1>8. parent \in 0..Len(jobs) /\ parent \in Nat /\ handlers \in Seq(Entries)
    BY <1>5, <1>6, <1>7 DEF NoParent
<1>9. /\ job \in JobRecords /\ RunsKept(job) /\ job.handlers = handlers
      /\ job.accepted = NoMessage /\ job.log = <<>> /\ job.parent = parent /\ job.outcome = "none"
  <2>1. job = NewJob(parent, adapter, sub, handlers)
    BY <1>7
  <2>2. QED
    BY <1>8, <2>1, NewJobMade
<1>10. jobs' = Append(jobs, job)
    BY <1>2, <1>7, <1>15
<1>11. /\ jobs' \in Seq(JobRecords) /\ DOMAIN jobs' = DOMAIN jobs \cup {n} /\ n \notin DOMAIN jobs
       /\ jobs'[n] = job
    BY <1>1, <1>7, <1>9, <1>10, JobAppended
<1>12. DgTypes' /\ FuturesGrow /\ PartsAreOlder'
    BY <1>1, <1>3, <1>11 DEF DgTypes, FuturesGrow, PartsAreOlder
<1>13. HandlersOf(n)'
  <2>1. jobs'[n].handlers = <<>> \/ jobs'[n].handlers = jobs[j].handlers
    BY <1>7, <1>9, <1>11
  <2>2. HandlersOf(j)
    BY <1>1 DEF HandlerInv
  <2>3. QED
    BY <1>1, <1>3, <1>9, <1>11, <1>12, <2>1, <2>2, HandlersInherited
<1>14. QED
    BY <1>3, <1>7, <1>8, <1>9, <1>10, <1>12, <1>13, AppendedKeeps

LEMMA CombineKeeps ==
    ASSUME DgInv, NEW j \in DOMAIN jobs, Combine(j)
    PROVE  DgInv'
<1>1. DgTypes /\ PartsAreOlder /\ HandlerInv /\ OutcomeInv /\ RunsAreKept
    BY DEF DgInv, FutureInv
<1>2. UNCHANGED <<uses, jobs, called, sent>>
    BY DEF Combine
<1>3. j \in Nat /\ DOMAIN futures \subseteq Nat /\ 0 \in Nat
    BY <1>1 DEF DgTypes
<1>4. PICK future \in FutureRecords :
         /\ futures' = Append(futures, future) /\ future.kind \in {"any", "all", "elem"}
         /\ future.parts # <<>> /\ \A i \in DOMAIN future.parts : future.parts[i] \in DOMAIN futures
  <2>1. CASE \E kind \in {"any", "all"}, f, g \in DOMAIN futures, hasHandler \in BOOLEAN :
                futures' = Append(futures, FutureOf(kind, NoParent, <<f, g>>, j, hasHandler))
    <3>1. PICK kind \in {"any", "all"}, f \in DOMAIN futures, g \in DOMAIN futures,
               hasHandler \in BOOLEAN :
             futures' = Append(futures, FutureOf(kind, NoParent, <<f, g>>, j, hasHandler))
      BY <2>1
    <3>2. f \in Nat /\ g \in Nat
      BY <1>3
    <3>3. PICK parts : parts = <<f, g>>
      OBVIOUS
    <3>4. parts \in Seq(Nat) /\ parts # <<>> /\ \A i \in DOMAIN parts : parts[i] \in DOMAIN futures
      BY <3>2, <3>3
    <3>5. PICK future : future = FutureOf(kind, NoParent, parts, j, hasHandler)
      OBVIOUS
    <3>6. future \in FutureRecords /\ future.kind = kind /\ future.parts = parts
      BY <1>3, <3>4, <3>5 DEF FutureOf, FutureRecords, NoParent
    <3>7. QED
      BY <3>1, <3>3, <3>4, <3>5, <3>6
  <2>2. CASE \E f \in DOMAIN futures :
                futures' = Append(futures, FutureOf("elem", NoParent, <<f>>, j, FALSE))
    <3>1. PICK f \in DOMAIN futures :
             futures' = Append(futures, FutureOf("elem", NoParent, <<f>>, j, FALSE))
      BY <2>2
    <3>7. PICK hasHandler \in BOOLEAN : hasHandler = FALSE
      OBVIOUS
    <3>2. PICK parts : parts = <<f>>
      OBVIOUS
    <3>3. parts \in Seq(Nat) /\ parts # <<>> /\ \A i \in DOMAIN parts : parts[i] \in DOMAIN futures
      BY <1>3, <3>2
    <3>4. PICK future : future = FutureOf("elem", NoParent, parts, j, hasHandler)
      OBVIOUS
    <3>5. future \in FutureRecords /\ future.kind = "elem" /\ future.parts = parts
      BY <1>3, <3>3, <3>4 DEF FutureOf, FutureRecords, NoParent
    <3>8. QED
      BY <3>1, <3>2, <3>3, <3>4, <3>5, <3>7
  <2>3. QED
    BY <2>1, <2>2 DEF Combine
<1>5. /\ PartsAreOlder' /\ futures' \in Seq(FutureRecords)
      /\ DOMAIN futures \subseteq DOMAIN futures'
      /\ \A f \in DOMAIN futures : futures'[f] = futures[f]
    BY <1>1, <1>2, <1>4, FuturesStay
<1>6. DgTypes' /\ FuturesGrow
    BY <1>1, <1>2, <1>5 DEF DgTypes, FuturesGrow
<1>7. RunsAreKept' /\ OutcomeInv'
    BY <1>1, <1>2 DEF RunsAreKept, RunsKept, OutcomeInv, LogOf, Told
<1>8. ToldApart'
    BY <1>1, <1>2, <1>6, CalledStay DEF HandlerInv
<1>9. ASSUME NEW k \in DOMAIN jobs PROVE HandlersOf(k)'
    BY <1>1, <1>2, <1>6, HandlersStay DEF HandlerInv
<1>10. HandlerInv'
    BY <1>2, <1>8, <1>9 DEF HandlerInv
<1>11. QED
    BY <1>5, <1>6, <1>7, <1>10 DEF DgInv, FutureInv

LEMMA FetchKeeps ==
    ASSUME DgInv, NEW j \in DOMAIN jobs, NEW f \in DOMAIN futures, Fetch(j, f)
    PROVE  DgInv'
<1>1. DgTypes /\ FutureInv /\ PartsAreOlder /\ HandlerInv /\ OutcomeInv
    BY DEF DgInv, FutureInv
<1>2. PICK through : through = Read[f].through
    OBVIOUS
<1>3. /\ jobs' = [k \in DOMAIN jobs |-> WithHandlers(k, through)]
      /\ futures' = [g \in DOMAIN futures |->
                        IF g \in Range(through) THEN [futures[g] EXCEPT !.pending = FALSE] ELSE futures[g]]
      /\ UNCHANGED <<uses, called, sent>>
    BY <1>2 DEF Fetch
<1>4. /\ Len(jobs) \in Nat /\ DOMAIN jobs = 1..Len(jobs)
      /\ Len(futures) \in Nat /\ DOMAIN futures = 1..Len(futures)
      /\ \A g \in DOMAIN futures : futures[g] \in FutureRecords
    BY <1>1 DEF DgTypes
<1>5. ASSUME NEW k \in DOMAIN jobs
      PROVE  /\ jobs'[k] \in JobRecords /\ RunsKept(jobs'[k])
             /\ jobs'[k].log = jobs[k].log /\ jobs'[k].parent = jobs[k].parent
             /\ jobs'[k].outcome = jobs[k].outcome
    BY <1>1, <1>2, <1>3, HandlersAdded
<1>6. DOMAIN jobs' = DOMAIN jobs /\ jobs' \in Seq(JobRecords)
    BY <1>3, <1>4, <1>5
<1>7. ASSUME NEW g \in DOMAIN futures
      PROVE  /\ futures'[g] \in FutureRecords /\ futures'[g].kind = futures[g].kind
             /\ futures'[g].job = futures[g].job /\ futures'[g].parts = futures[g].parts
             /\ futures'[g].pending => futures[g].pending
             /\ g \in Range(through) => ~futures'[g].pending
  <2>1. futures[g] \in FutureRecords
    BY <1>4
  <2>2. CASE g \in Range(through)
    <3>1. futures'[g] = [futures[g] EXCEPT !.pending = FALSE]
      BY <1>3, <2>2
    <3>2. QED
      BY <2>1, <3>1 DEF FutureRecords
  <2>3. CASE g \notin Range(through)
    BY <1>3, <2>1, <2>3
  <2>4. QED
    BY <2>2, <2>3
<1>8. DOMAIN futures' = DOMAIN futures /\ futures' \in Seq(FutureRecords)
    BY <1>3, <1>4, <1>7
<1>9. DgTypes' /\ FuturesGrow
    BY <1>1, <1>3, <1>6, <1>7, <1>8 DEF DgTypes, FuturesGrow
<1>10. PartsAreOlder'
    BY <1>1, <1>6, <1>7, <1>8 DEF PartsAreOlder
<1>11. RunsAreKept'
    BY <1>5, <1>6 DEF RunsAreKept, RunsKept
<1>12. OutcomeInv'
    BY <1>1, <1>5, <1>6, <1>9, LogsStay
<1>13. ToldApart'
    BY <1>1, <1>3, <1>6, <1>9, CalledStay DEF HandlerInv
<1>14. ASSUME NEW k \in DOMAIN jobs PROVE HandlersOf(k)'
  <2>1. \A g \in Range(Read[f].through) : ~futures'[g].pending
    <3>1. Range(through) \subseteq DOMAIN futures
      BY <1>1, <1>2, ThroughIsFinished DEF Range
    <3>2. QED
      BY <1>2, <1>7, <3>1
  <2>2. jobs'[k] = WithHandlers(k, Read[f].through)
    BY <1>2, <1>3
  <2>3. QED
    BY <1>1, <1>3, <1>9, <2>1, <2>2, HandlersFetched
<1>15. HandlerInv'
    BY <1>6, <1>13, <1>14 DEF HandlerInv
<1>16. QED
    BY <1>9, <1>10, <1>11, <1>12, <1>15 DEF DgInv, FutureInv

LEMMA StartKeeps ==
    ASSUME DgInv, NEW j \in DOMAIN jobs, Start(j)
    PROVE  DgInv'
<1>1. DgTypes /\ HandlerInv /\ OutcomeInv /\ RunsAreKept
    BY DEF DgInv, FutureInv
<1>2. jobs[j] \in JobRecords /\ RunsKept(jobs[j]) /\ HandlersOf(j) /\ ToldApart /\ sent \in Nat
    BY <1>1 DEF DgTypes, RunsAreKept, HandlerInv
<1>3. PICK job : job = [jobs[j] EXCEPT !.status = "STARTED"]
    OBVIOUS
<1>4. /\ job \in JobRecords /\ RunsKept(job) /\ job.handlers = jobs[j].handlers
      /\ job.accepted = jobs[j].accepted /\ job.log = jobs[j].log
      /\ job.parent = jobs[j].parent /\ job.outcome = jobs[j].outcome
    BY <1>2, <1>3 DEF JobRecords, RunsKept
<1>5. jobs' = [jobs EXCEPT ![j] = job] /\ UNCHANGED <<uses, futures, called, sent>>
    BY <1>3 DEF Start
<1>6. called' \in Seq(CalledRecords) /\ sent' \in Nat /\ sent <= sent'
    BY <1>1, <1>2, <1>5 DEF DgTypes, CalledRecords
<1>7. /\ DgTypes' /\ FuturesGrow /\ DOMAIN jobs' = DOMAIN jobs /\ jobs'[j] = job
      /\ \A k \in DOMAIN jobs : k # j => jobs'[k] = jobs[k]
    BY <1>1, <1>4, <1>5, <1>6, JobChanged
<1>8. OutcomeInv'
    BY <1>1, <1>4, <1>7, LogsStay
<1>9. HandlersOf(j)' /\ ToldApart'
    BY <1>1, <1>2, <1>4, <1>5, <1>7, HandlersStay, CalledStay
<1>10. RunsKept(jobs[j])'
    BY <1>4, <1>7 DEF RunsKept
<1>11. QED
    BY <1>5, <1>7, <1>8, <1>9, <1>10, ChangedKeeps

LEMMA CompleteKeeps ==
    ASSUME DgInv, NEW j \in DOMAIN jobs, Complete(j)
    PROVE  DgInv'
<1>1. DgTypes /\ HandlerInv /\ OutcomeInv /\ RunsAreKept
    BY DEF DgInv, FutureInv
<1>2. jobs[j] \in JobRecords /\ RunsKept(jobs[j]) /\ HandlersOf(j) /\ ToldApart /\ sent \in Nat
    BY <1>1 DEF DgTypes, RunsAreKept, HandlerInv
<1>12. PICK exit \in BOOLEAN : jobs' = [jobs EXCEPT ![j] = Succeeded(jobs[j], exit)]
    BY DEF Complete
<1>3. PICK job : job = Succeeded(jobs[j], exit)
    OBVIOUS
<1>4. /\ job \in JobRecords /\ RunsKept(job) /\ job.handlers = jobs[j].handlers
      /\ job.accepted = jobs[j].accepted /\ job.log = jobs[j].log
      /\ job.parent = jobs[j].parent /\ job.outcome = jobs[j].outcome
    BY <1>2, <1>3, RunEnds
<1>5. jobs' = [jobs EXCEPT ![j] = job] /\ UNCHANGED <<uses, futures, called, sent>>
    BY <1>3, <1>12 DEF Complete
<1>6. called' \in Seq(CalledRecords) /\ sent' \in Nat /\ sent <= sent'
    BY <1>1, <1>2, <1>5 DEF DgTypes, CalledRecords
<1>7. /\ DgTypes' /\ FuturesGrow /\ DOMAIN jobs' = DOMAIN jobs /\ jobs'[j] = job
      /\ \A k \in DOMAIN jobs : k # j => jobs'[k] = jobs[k]
    BY <1>1, <1>4, <1>5, <1>6, JobChanged
<1>8. OutcomeInv'
    BY <1>1, <1>4, <1>7, LogsStay
<1>9. HandlersOf(j)' /\ ToldApart'
    BY <1>1, <1>2, <1>4, <1>5, <1>7, HandlersStay, CalledStay
<1>10. RunsKept(jobs[j])'
    BY <1>4, <1>7 DEF RunsKept
<1>11. QED
    BY <1>5, <1>7, <1>8, <1>9, <1>10, ChangedKeeps

LEMMA FailKeeps ==
    ASSUME DgInv, NEW j \in DOMAIN jobs, Fail(j)
    PROVE  DgInv'
<1>1. DgTypes /\ HandlerInv /\ OutcomeInv /\ RunsAreKept
    BY DEF DgInv, FutureInv
<1>2. jobs[j] \in JobRecords /\ RunsKept(jobs[j]) /\ sent \in Nat /\ j \in Nat
    BY <1>1 DEF DgTypes, RunsAreKept
<1>3. PICK harness \in BOOLEAN : jobs' = [jobs EXCEPT ![j] = Failed(jobs[j], harness)]
    BY DEF Fail
<1>4. PICK job : job = Failed(jobs[j], harness)
    OBVIOUS
<1>5. /\ job \in JobRecords /\ RunsKept(job) /\ job.handlers = <<>>
      /\ job.log = jobs[j].log /\ job.parent = jobs[j].parent /\ job.outcome = jobs[j].outcome
    BY <1>2, <1>4, RunEnds
<1>6. jobs' = [jobs EXCEPT ![j] = job] /\ UNCHANGED <<uses, futures, sent>>
      /\ called' = called \o Invoked(j)
    BY <1>3, <1>4 DEF Fail
<1>7. called' \in Seq(CalledRecords)
  <2>1. jobs[j].handlers \in Seq(Entries)
    BY <1>2 DEF JobRecords
  <2>2. PICK handlers : handlers = jobs[j].handlers
    OBVIOUS
  <2>3. \A i \in DOMAIN handlers : [job |-> j, entry |-> handlers[i]] \in CalledRecords
    BY <1>2, <2>1, <2>2 DEF CalledRecords
  <2>4. Len(handlers) \in Nat /\ DOMAIN handlers = 1..Len(handlers)
    BY <2>1, <2>2
  <2>5. Invoked(j) \in Seq(CalledRecords)
    BY <2>2, <2>3, <2>4 DEF Invoked
  <2>6. called \in Seq(CalledRecords)
    BY <1>1 DEF DgTypes, CalledRecords
  <2>7. QED
    BY <1>6, <2>5, <2>6
<1>8. /\ DgTypes' /\ FuturesGrow /\ DOMAIN jobs' = DOMAIN jobs /\ jobs'[j] = job
      /\ \A k \in DOMAIN jobs : k # j => jobs'[k] = jobs[k]
  <2>1. sent' \in Nat /\ sent <= sent' /\ UNCHANGED <<uses, futures>>
    BY <1>2, <1>6
  <2>2. QED
    BY <1>1, <1>5, <1>6, <1>7, <2>1, JobChanged
<1>9. OutcomeInv'
    BY <1>1, <1>5, <1>8, LogsStay
<1>10. /\ ToldApart'
       /\ \A k \in DOMAIN called' :
             called'[k].job # j => k \in DOMAIN called /\ called'[k] = called[k]
    BY <1>1, <1>6, <1>8, HandlersTold
<1>11. HandlersOf(j)'
  <2>1. DOMAIN jobs'[j].handlers = {}
    <3>1. jobs'[j].handlers = <<>>
      BY <1>5, <1>8
    <3>2. QED
      BY <3>1
  <2>2. QED
    BY <2>1 DEF HandlersOf
<1>12. RunsKept(jobs[j])'
    BY <1>5, <1>8 DEF RunsKept
<1>13. QED
    BY <1>6, <1>8, <1>9, <1>10, <1>11, <1>12, ChangedKeeps

LEMMA PushMessageKeeps ==
    ASSUME DgInv, NEW j \in DOMAIN jobs, PushMessage(j)
    PROVE  DgInv'
<1>1. DgTypes /\ HandlerInv /\ OutcomeInv /\ RunsAreKept
    BY DEF DgInv, FutureInv
<1>2. /\ jobs[j] \in JobRecords /\ RunsKept(jobs[j]) /\ HandlersOf(j) /\ ToldApart
      /\ sent \in Nat /\ sent + 1 \in Nat
    BY <1>1 DEF DgTypes, RunsAreKept, HandlerInv
<1>3. PICK old, job : old = jobs[j] /\ job = Accepted(old, sent + 1)
    OBVIOUS
<1>4. /\ job \in JobRecords /\ RunsKept(job) /\ job.handlers = Bound(old, sent + 1)
      /\ job.accepted = sent + 1 /\ job.log = jobs[j].log
      /\ job.parent = jobs[j].parent /\ job.outcome = jobs[j].outcome
    BY <1>2, <1>3, MessageAccepted
<1>5. jobs' = [jobs EXCEPT ![j] = job] /\ UNCHANGED <<uses, futures, called>> /\ sent' = sent + 1
    BY <1>3 DEF PushMessage
<1>6. called' \in Seq(CalledRecords) /\ sent' \in Nat /\ sent <= sent'
    BY <1>1, <1>2, <1>5 DEF DgTypes, CalledRecords
<1>7. /\ DgTypes' /\ FuturesGrow /\ DOMAIN jobs' = DOMAIN jobs /\ jobs'[j] = job
      /\ \A k \in DOMAIN jobs : k # j => jobs'[k] = jobs[k]
    BY <1>1, <1>4, <1>5, <1>6, JobChanged
<1>8. OutcomeInv'
    BY <1>1, <1>4, <1>7, LogsStay
<1>9. HandlersOf(j)' /\ ToldApart'
  <2>1. HandlersOf(j)'
    BY <1>1, <1>2, <1>3, <1>4, <1>5, <1>7, HandlersBound
  <2>2. QED
    BY <1>1, <1>2, <1>5, <1>7, <2>1, CalledStay
<1>10. RunsKept(jobs[j])'
    BY <1>4, <1>7 DEF RunsKept
<1>11. QED
    BY <1>5, <1>7, <1>8, <1>9, <1>10, ChangedKeeps

LEMMA EntryAppended ==
    ASSUME NEW log \in Seq(Nat), NEW entry \in Nat, NEW new, new = Append(log, entry)
    PROVE  /\ new \in Seq(Nat) /\ DOMAIN new = DOMAIN log \cup {Len(log) + 1}
           /\ Len(log) + 1 \notin DOMAIN log /\ new[Len(log) + 1] = entry
           /\ \A i \in DOMAIN log : new[i] = log[i]
<1>1. Len(log) \in Nat /\ DOMAIN log = 1..Len(log) /\ DOMAIN new = 1..Len(log) + 1
    OBVIOUS
<1>2. 1..Len(log) + 1 = 1..Len(log) \cup {Len(log) + 1}
    BY <1>1
<1>3. QED
    BY <1>1, <1>2

LEMMA JobNotified ==
    ASSUME NEW job \in JobRecords, NEW teller \in Nat
    PROVE  LET new == Notified(job, teller)
           IN  /\ new \in JobRecords /\ (RunsKept(job) => RunsKept(new))
               /\ new.handlers = job.handlers /\ new.accepted = job.accepted
               /\ new.log = Append(job.log, teller) /\ new.parent = job.parent
               /\ new.outcome = job.outcome /\ new.sub = job.sub
<1> DEFINE old == Reopened(job)
           log == Append(job.log, teller)
           new == [old EXCEPT !.log = log]
<1>1. /\ old \in JobRecords /\ (RunsKept(job) => RunsKept(old))
      /\ old.handlers = job.handlers /\ old.accepted = job.accepted
      /\ old.log = job.log /\ old.parent = job.parent
      /\ old.outcome = job.outcome /\ old.sub = job.sub
    BY JobReopened
<1>2. log \in Seq(Nat)
    BY DEF JobRecords
<1>3. new = Notified(job, teller)
    BY <1>1 DEF Notified
<1> HIDE DEF old, log
<1>4. new \in JobRecords
    BY <1>1, <1>2 DEF JobRecords
<1>5. /\ new.status = old.status /\ new.runs = old.runs /\ new.failed = old.failed
      /\ new.handlers = old.handlers /\ new.accepted = old.accepted /\ new.log = log
      /\ new.parent = old.parent /\ new.outcome = old.outcome /\ new.sub = old.sub
    BY <1>1 DEF JobRecords
<1> HIDE DEF new
<1>6. RunsKept(old) => RunsKept(new)
    BY <1>5 DEF RunsKept
<1>7. QED
    BY <1>1, <1>3, <1>4, <1>5, <1>6 DEF log

LEMMA SendNotificationKeeps ==
    ASSUME DgInv, NEW j \in DOMAIN jobs, SendNotification(j)
    PROVE  DgInv'
<1>1. DgTypes /\ HandlerInv /\ OutcomeInv /\ RunsAreKept
    BY DEF DgInv, FutureInv
<1>2. jobs[j] \in JobRecords /\ RunsKept(jobs[j]) /\ HandlersOf(j) /\ ToldApart /\ sent \in Nat
    BY <1>1 DEF DgTypes, RunsAreKept, HandlerInv
<1>3. PICK new, log, job :
         log = jobs[j].log /\ new = Append(log, NoParent) /\ job = Notified(jobs[j], NoParent)
    OBVIOUS
<1>5. /\ new \in Seq(Nat) /\ DOMAIN new = DOMAIN log \cup {Len(log) + 1}
      /\ Len(log) + 1 \notin DOMAIN log /\ new[Len(log) + 1] = 0
      /\ \A i \in DOMAIN log : new[i] = log[i]
  <2>1. log \in Seq(Nat) /\ NoParent \in Nat /\ NoParent = 0
    BY <1>2, <1>3 DEF JobRecords, NoParent
  <2>2. QED
    BY <1>3, <2>1, EntryAppended
<1>6. /\ job \in JobRecords /\ RunsKept(job) /\ job.handlers = jobs[j].handlers
      /\ job.accepted = jobs[j].accepted /\ job.log = new /\ job.parent = jobs[j].parent
      /\ job.outcome = jobs[j].outcome
  <2>1. NoParent \in Nat
    BY DEF NoParent
  <2>2. QED
    BY <1>2, <1>3, <2>1, JobNotified
<1>7. /\ jobs' = [jobs EXCEPT ![j] = job] /\ UNCHANGED <<uses, futures, called>>
      /\ sent' = sent + 1
    BY <1>3 DEF SendNotification
<1>8. called' \in Seq(CalledRecords) /\ sent' \in Nat /\ sent <= sent'
    BY <1>1, <1>2, <1>7 DEF DgTypes, CalledRecords
<1>9. /\ DgTypes' /\ FuturesGrow /\ DOMAIN jobs' = DOMAIN jobs /\ jobs'[j] = job
      /\ \A k \in DOMAIN jobs : k # j => jobs'[k] = jobs[k]
    BY <1>1, <1>6, <1>7, <1>8, JobChanged
<1>10. OutcomeInv'
  <2>1. ASSUME NEW k \in DOMAIN jobs
        PROVE  /\ jobs'[k].parent = jobs[k].parent /\ jobs'[k].outcome = jobs[k].outcome
               /\ k # j => jobs'[k].log = jobs[k].log
    BY <1>6, <1>9
  <2>2. jobs'[j].log = new
    BY <1>6, <1>9
  <2>3. ASSUME NEW k \in DOMAIN jobs PROVE LogOf(k)'
    <3>1. LogOf(k)
      BY <1>1 DEF OutcomeInv
    <3>2. CASE k # j
      BY <1>9, <2>1, <3>1, <3>2 DEF LogOf
    <3>3. CASE k = j
      <4>1. \A i \in DOMAIN new : new[i] # 0 => i \in DOMAIN log /\ new[i] = log[i]
        BY <1>5
      <4>2. \A i \in DOMAIN log : log[i] # 0 =>
               /\ log[i] \in DOMAIN jobs /\ jobs[log[i]].parent = j /\ jobs[log[i]].outcome # "none"
               /\ \A m \in DOMAIN log : log[m] = log[i] => i = m
        BY <1>3, <3>1, <3>3 DEF LogOf
      <4>3. ASSUME NEW i \in DOMAIN new, new[i] # 0
            PROVE  /\ new[i] \in DOMAIN jobs /\ jobs'[new[i]].parent = j
                   /\ jobs'[new[i]].outcome # "none"
                   /\ \A m \in DOMAIN new : new[m] = new[i] => i = m
        BY <2>1, <4>1, <4>2, <4>3
      <4>4. QED
        BY <1>9, <2>2, <3>3, <4>3 DEF LogOf
    <3>4. QED
      BY <3>2, <3>3
  <2>4. ASSUME NEW c \in DOMAIN jobs PROVE Told(c)'
    <3> DEFINE p == jobs[c].parent
    <3>1. Told(c) /\ p \in 0..c - 1
      BY <1>1 DEF OutcomeInv
    <3>2. p # 0 => p \in DOMAIN jobs
      BY <1>1, <3>1, SMTT(30) DEF DgTypes
    <3>3. SUFFICES ASSUME jobs[c].outcome # "none", p # 0
                   PROVE  \E i \in DOMAIN jobs'[p].log : jobs'[p].log[i] = c
      BY <2>1 DEF Told
    <3>4. PICK i \in DOMAIN jobs[p].log : jobs[p].log[i] = c
      BY <3>1, <3>3 DEF Told
    <3>5. CASE p # j
      BY <2>1, <3>2, <3>3, <3>4, <3>5
    <3>6. CASE p = j
      BY <1>3, <1>5, <2>2, <3>4, <3>6
    <3>7. QED
      BY <3>5, <3>6
  <2>5. QED
    BY <1>1, <1>9, <2>1, <2>3, <2>4 DEF OutcomeInv
<1>11. HandlersOf(j)' /\ ToldApart'
    BY <1>1, <1>2, <1>6, <1>7, <1>9, HandlersStay, CalledStay
<1>12. RunsKept(jobs[j])'
    BY <1>6, <1>9 DEF RunsKept
<1>13. QED
    BY <1>7, <1>9, <1>10, <1>11, <1>12, ChangedKeeps

LEMMA CompleteSubTaskKeeps ==
    ASSUME DgInv, NEW c \in DOMAIN jobs, CompleteSubTask(c)
    PROVE  DgInv'
<1>1. DgTypes /\ HandlerInv /\ OutcomeInv /\ RunsAreKept /\ PartsAreOlder
    BY DEF DgInv, FutureInv
<1>2. /\ jobs \in Seq(JobRecords) /\ jobs[c] \in JobRecords /\ c \in Nat /\ sent \in Nat
      /\ DOMAIN jobs \subseteq Nat /\ \A j \in DOMAIN jobs : jobs[j] \in JobRecords
    BY <1>1 DEF DgTypes
<1>3. UNCHANGED <<uses, futures, called, sent>> /\ jobs[c].outcome = "none"
    BY DEF CompleteSubTask, MayComplete
<1>4. PICK outcome \in {"COMPLETED", "ERROR"} :
         LET told == [jobs EXCEPT ![c].outcome = outcome]
             p == jobs[c].parent
         IN  jobs' = IF p = NoParent THEN told ELSE [told EXCEPT ![p] = Notified(@, c)]
    BY DEF CompleteSubTask
<1>5. PICK p, job, told :
         /\ p = jobs[c].parent /\ job = [jobs[c] EXCEPT !.outcome = outcome]
         /\ told = [jobs EXCEPT ![c] = job]
    OBVIOUS
<1>6. /\ job \in JobRecords /\ job.outcome = outcome /\ job.handlers = jobs[c].handlers
      /\ job.accepted = jobs[c].accepted /\ job.log = jobs[c].log /\ job.parent = p
      /\ job.status = jobs[c].status /\ job.runs = jobs[c].runs /\ job.failed = jobs[c].failed
    BY <1>2, <1>5 DEF JobRecords
<1>7. /\ DOMAIN told = DOMAIN jobs /\ told \in Seq(JobRecords) /\ told[c] = job
      /\ \A k \in DOMAIN jobs : k # c => told[k] = jobs[k]
    BY <1>2, <1>5, <1>6
<1>8. p \in 0..c - 1 /\ p # c /\ (p # 0 => p \in DOMAIN jobs)
    BY <1>1, <1>2, <1>5 DEF OutcomeInv
<1>9. jobs' = IF p = 0 THEN told ELSE [told EXCEPT ![p] = Notified(told[p], c)]
    BY <1>4, <1>5, <1>7 DEF NoParent
<1>10. PICK parent, new, log :
          /\ p # 0 => log = jobs[p].log /\ new = Append(log, c) /\ parent = Notified(jobs[p], c)
          /\ p = 0 => log = <<>> /\ new = <<>> /\ parent = <<>>
  <2>1. CASE p = 0
    <3>1. PICK log : log = <<>>
      OBVIOUS
    <3>2. QED
      BY <2>1, <3>1
  <2>2. CASE p # 0
    BY <2>2
  <2>3. QED
    BY <2>1, <2>2
<1>11. p # 0 => /\ parent \in JobRecords /\ RunsKept(parent) /\ parent.handlers = jobs[p].handlers
                /\ parent.accepted = jobs[p].accepted /\ parent.log = new
                /\ parent.parent = jobs[p].parent /\ parent.outcome = jobs[p].outcome
  <2>1. SUFFICES ASSUME p # 0
                 PROVE  /\ parent \in JobRecords /\ RunsKept(parent)
                        /\ parent.handlers = jobs[p].handlers
                        /\ parent.accepted = jobs[p].accepted /\ parent.log = new
                        /\ parent.parent = jobs[p].parent /\ parent.outcome = jobs[p].outcome
    OBVIOUS
  <2>2. jobs[p] \in JobRecords /\ RunsKept(jobs[p]) /\ parent = Notified(jobs[p], c)
        /\ new = Append(jobs[p].log, c)
    BY <1>1, <1>2, <1>8, <1>10, <2>1 DEF RunsAreKept
  <2>3. QED
    BY <1>2, <2>2, JobNotified
<1>12. p # 0 => /\ DOMAIN new = DOMAIN log \cup {Len(log) + 1} /\ Len(log) + 1 \notin DOMAIN log
                /\ new[Len(log) + 1] = c /\ \A i \in DOMAIN log : new[i] = log[i]
  <2>1. SUFFICES ASSUME p # 0
                 PROVE  /\ DOMAIN new = DOMAIN log \cup {Len(log) + 1}
                        /\ Len(log) + 1 \notin DOMAIN log
                        /\ new[Len(log) + 1] = c /\ \A i \in DOMAIN log : new[i] = log[i]
    OBVIOUS
  <2>2. log \in Seq(Nat) /\ new = Append(log, c)
    BY <1>2, <1>8, <1>10, <2>1 DEF JobRecords
  <2>3. QED
    BY <1>2, <2>2, EntryAppended
<1>13. /\ jobs' \in Seq(JobRecords) /\ DOMAIN jobs' = DOMAIN jobs /\ jobs'[c] = job
       /\ p # 0 => jobs'[p] = parent
       /\ \A k \in DOMAIN jobs : k # c /\ k # p => jobs'[k] = jobs[k]
  <2>1. CASE p = 0
    BY <1>7, <1>9, <2>1
  <2>2. CASE p # 0
    <3>1. jobs' = [told EXCEPT ![p] = parent]
      BY <1>7, <1>8, <1>9, <1>10, <2>2
    <3>2. p \in DOMAIN told /\ parent \in JobRecords
      BY <1>7, <1>8, <1>11, <2>2
    <3>3. QED
      BY <1>7, <1>8, <3>1, <3>2
  <2>3. QED
    BY <2>1, <2>2
<1>14. ASSUME NEW k \in DOMAIN jobs
       PROVE  /\ jobs'[k].handlers = jobs[k].handlers /\ jobs'[k].accepted = jobs[k].accepted
              /\ jobs'[k].parent = jobs[k].parent /\ RunsKept(jobs[k])'
              /\ k # c => jobs'[k].outcome = jobs[k].outcome
              /\ k # p => jobs'[k].log = jobs[k].log
  <2>1. RunsKept(jobs[k])
    BY <1>1 DEF RunsAreKept
  <2>2. CASE k = c
    BY <1>5, <1>6, <1>13, <2>1, <2>2 DEF RunsKept
  <2>3. CASE k = p
    <3>1. p # 0
      BY <1>2, <2>3
    <3>2. QED
      BY <1>8, <1>11, <1>13, <2>3, <3>1 DEF RunsKept
  <2>4. CASE k # c /\ k # p
    BY <1>13, <2>1, <2>4 DEF RunsKept
  <2>5. QED
    BY <2>2, <2>3, <2>4
<1>15. DgTypes' /\ FuturesGrow
    BY <1>1, <1>2, <1>3, <1>13 DEF DgTypes, FuturesGrow
<1>16. FutureInv'
    BY <1>1, <1>3, <1>13, <1>14, <1>15 DEF FutureInv, PartsAreOlder, RunsAreKept
<1>17. HandlerInv'
  <2>1. ToldApart'
    BY <1>1, <1>3, <1>13, <1>15, CalledStay DEF HandlerInv
  <2>2. ASSUME NEW k \in DOMAIN jobs PROVE HandlersOf(k)'
    BY <1>1, <1>3, <1>14, <1>15, HandlersStay DEF HandlerInv
  <2>3. QED
    BY <1>13, <2>1, <2>2 DEF HandlerInv
<1>18. jobs'[c].outcome # "none" /\ (p # 0 => jobs'[p].log = new)
    BY <1>6, <1>11, <1>13
<1>19. ASSUME NEW k \in DOMAIN jobs PROVE LogOf(k)'
  <2>1. \A i \in DOMAIN jobs[k].log : jobs[k].log[i] # 0 =>
           /\ jobs[k].log[i] \in DOMAIN jobs /\ jobs[k].log[i] # c
           /\ jobs[jobs[k].log[i]].parent = k /\ jobs[jobs[k].log[i]].outcome # "none"
           /\ \A m \in DOMAIN jobs[k].log : jobs[k].log[m] = jobs[k].log[i] => i = m
    BY <1>1, <1>3 DEF OutcomeInv, LogOf
  <2>2. CASE k # p
    BY <1>13, <1>14, <2>1, <2>2 DEF LogOf
  <2>3. CASE k = p
    <3>1. p # 0 /\ log = jobs[k].log /\ jobs'[k].log = new
      BY <1>2, <1>10, <1>18, <2>3
    <3>2. ASSUME NEW i \in DOMAIN new, new[i] # 0
          PROVE  /\ new[i] \in DOMAIN jobs /\ jobs'[new[i]].parent = k
                 /\ jobs'[new[i]].outcome # "none"
                 /\ \A m \in DOMAIN new : new[m] = new[i] => i = m
      <4>1. CASE i \in DOMAIN log
        BY <1>12, <1>14, <2>1, <3>1, <3>2, <4>1
      <4>2. CASE i = Len(log) + 1
        <5>1. new[i] = c
          BY <1>12, <3>1, <4>2
        <5>2. ASSUME NEW m \in DOMAIN new, new[m] = c PROVE m = i
          BY <1>2, <1>12, <2>1, <3>1, <4>2, <5>2
        <5>3. QED
          BY <1>5, <1>14, <1>18, <2>3, <5>1, <5>2
      <4>3. QED
        BY <1>12, <3>1, <4>1, <4>2
    <3>3. QED
      BY <1>13, <3>1, <3>2 DEF LogOf
  <2>4. QED
    BY <2>2, <2>3
<1>20. ASSUME NEW d \in DOMAIN jobs PROVE Told(d)'
  <2> DEFINE q == jobs[d].parent
  <2>1. Told(d) /\ q \in 0..d - 1 /\ (q # 0 => q \in DOMAIN jobs)
    BY <1>1, <1>2 DEF OutcomeInv, DgTypes
  <2>2. SUFFICES ASSUME jobs'[d].outcome # "none", q # 0
                 PROVE  \E i \in DOMAIN jobs'[q].log : jobs'[q].log[i] = d
    BY <1>14 DEF Told
  <2>3. CASE d = c
    <3>1. q = p /\ p # 0
      BY <1>5, <2>2, <2>3
    <3>2. QED
      BY <1>12, <1>18, <2>3, <3>1
  <2>4. CASE d # c
    <3>1. PICK i \in DOMAIN jobs[q].log : jobs[q].log[i] = d
      BY <1>14, <2>1, <2>2, <2>4 DEF Told
    <3>2. CASE q # p
      BY <1>14, <2>1, <2>2, <3>1, <3>2
    <3>3. CASE q = p
      BY <1>10, <1>12, <1>18, <2>2, <3>1, <3>3
    <3>4. QED
      BY <3>2, <3>3
  <2>5. QED
    BY <2>3, <2>4
<1>21. OutcomeInv'
  <2>1. \A k \in DOMAIN jobs : jobs'[k].parent \in 0..k - 1
    BY <1>1, <1>14 DEF OutcomeInv
  <2>2. QED
    BY <1>13, <1>19, <1>20, <2>1 DEF OutcomeInv
<1>22. QED
    BY <1>16, <1>17, <1>21 DEF DgInv

LEMMA UnchangedKeeps == DgInv /\ UNCHANGED dgVars => DgInv'
<1>1. SUFFICES ASSUME DgInv, UNCHANGED dgVars PROVE DgInv'
    OBVIOUS
<1>2. UNCHANGED <<uses, jobs, futures, called, sent>>
    BY <1>1 DEF dgVars
<1>3. FutureInv'
    BY <1>1, <1>2 DEF DgInv, FutureInv, DgTypes, PartsAreOlder, RunsAreKept, RunsKept
<1>4. HandlerInv'
  <2>1. ToldApart'
    BY <1>1, <1>2 DEF DgInv, HandlerInv, ToldApart, Rooted, IsCritical, Repeats
  <2>2. ASSUME NEW j \in DOMAIN jobs PROVE HandlersOf(j)'
    <3>1. HandlersOf(j)
      BY <1>1 DEF DgInv, HandlerInv
    <3>2. QED
      BY <1>2, <3>1 DEF HandlersOf, Rooted, Available, IsCritical, Repeats
  <2>3. QED
    BY <1>2, <2>1, <2>2 DEF HandlerInv
<1>5. OutcomeInv'
    BY <1>1, <1>2 DEF DgInv, OutcomeInv, LogOf, Told
<1>6. QED
    BY <1>3, <1>4, <1>5 DEF DgInv

LEMMA Inductive == DgSpec => []DgInv
<1>1. DgInv /\ [DgNext]_dgVars => DgInv'
  <2>1. SUFFICES ASSUME DgInv, DgNext PROVE DgInv'
    BY UnchangedKeeps
  <2>2. PICK j \in DOMAIN jobs :
           \/ Delegate(j) \/ StartDialog(j) \/ StartSubTask(j) \/ Combine(j)
           \/ \E f \in DOMAIN futures : Fetch(j, f)
           \/ Start(j) \/ Complete(j) \/ Fail(j)
           \/ PushMessage(j) \/ SendNotification(j) \/ CompleteSubTask(j)
    BY <2>1 DEF DgNext
  <2>3. QED
    BY <2>1, <2>2, DelegateKeeps, StartDialogKeeps, StartSubTaskKeeps, CombineKeeps, FetchKeeps,
       StartKeeps, CompleteKeeps, FailKeeps, PushMessageKeeps, SendNotificationKeeps,
       CompleteSubTaskKeeps
<1>2. QED
    BY <1>1, InitInv, PTL DEF DgSpec

LEMMA AtMostOne ==
    ASSUME NEW T, \A x, y \in T : x = y
    PROVE  /\ IsFiniteSet(T) /\ Cardinality(T) \in 0..1
           /\ Cardinality(T) = 0 <=> T = {}
<1>1. CASE T = {}
    BY <1>1, FS_EmptySet
<1>2. CASE T # {}
  <2>1. PICK x \in T : T = {x}
    BY <1>2
  <2>2. IsFiniteSet({x}) /\ Cardinality({x}) = 1
    BY FS_Singleton
  <2>3. QED
    BY <1>2, <2>1, <2>2
<1>3. QED
    BY <1>1, <1>2

(* However futures are combined and jobs are reactivated, each failure is    *)
(* told once to each handler that has what it was registered for.           *)
THEOREM FailuresAreTold == DgSpec => []HandlersRunOnce
<1>1. DgInv => HandlersRunOnce
  <2>1. SUFFICES ASSUME DgInv PROVE HandlersRunOnce
    OBVIOUS
  <2>2. /\ DgTypes /\ ToldApart /\ \A j \in DOMAIN jobs : HandlersOf(j)
        /\ DOMAIN futures = 1..Len(futures) /\ Len(futures) \in Nat
    BY <2>1 DEF DgInv, FutureInv, HandlerInv, DgTypes
  <2>3. ASSUME NEW f \in DOMAIN futures, NEW j \in DOMAIN jobs
        PROVE  /\ EntriesOf(j, f) <= 1
               /\ futures[f].pending => EntriesOf(j, f) = 0
               /\ \A i \in DOMAIN jobs[j].handlers : LET h == jobs[j].handlers[i] IN
                     h.fut = f => h.value # <<>> /\ \A k \in DOMAIN h.value : h.value[k].run >= 1
    <3> DEFINE kept == {i \in DOMAIN jobs[j].handlers : jobs[j].handlers[i].fut = f}
               told == {i \in DOMAIN called : called[i].job = j /\ called[i].entry.fut = f}
    <3>1. f # 0
      BY <2>2
    <3>2. ASSUME NEW h, Rooted(h), h.fut = f
          PROVE  ~IsCritical(h) /\ h.message = NoMessage /\ ~futures[f].pending
      BY <3>1, <3>2 DEF Rooted
    <3>3. HandlersOf(j)
      BY <2>2
    <3>4. \A x, y \in kept : x = y
      BY <3>3 DEF HandlersOf
    <3>5. \A x, y \in told : x = y
      <4>1. ASSUME NEW x \in told, NEW y \in told PROVE x = y
        <5>1. /\ x \in DOMAIN called /\ y \in DOMAIN called /\ called[x].job = called[y].job
              /\ called[x].entry.fut = f /\ called[y].entry.fut = f
          OBVIOUS
        <5>2. Rooted(called[x].entry) /\ Rooted(called[y].entry)
          BY <2>2, <5>1 DEF ToldApart
        <5>3. called[x].entry.message = called[y].entry.message
          BY <3>2, <5>1, <5>2
        <5>4. QED
          BY <2>2, <5>1, <5>3 DEF ToldApart, Repeats
      <4>2. QED
        BY <4>1
    <3>6. kept = {} \/ told = {}
      <4>1. SUFFICES ASSUME NEW x \in kept, NEW y \in told PROVE FALSE
        OBVIOUS
      <4>2. /\ x \in DOMAIN jobs[j].handlers /\ y \in DOMAIN called /\ called[y].job = j
            /\ jobs[j].handlers[x].fut = f /\ called[y].entry.fut = f
        OBVIOUS
      <4>3. Rooted(jobs[j].handlers[x]) /\ Rooted(called[y].entry)
        BY <2>2, <3>3, <4>2 DEF ToldApart, HandlersOf
      <4>4. jobs[j].handlers[x].message = called[y].entry.message
        BY <3>2, <4>2, <4>3
      <4>5. QED
        BY <3>3, <4>2, <4>4 DEF HandlersOf, Repeats
    <3>7. futures[f].pending => kept = {} /\ told = {}
      BY <2>2, <3>2, <3>3 DEF HandlersOf, ToldApart
    <3>8. \A i \in DOMAIN jobs[j].handlers : jobs[j].handlers[i].fut = f =>
             /\ jobs[j].handlers[i].value # <<>>
             /\ \A k \in DOMAIN jobs[j].handlers[i].value : jobs[j].handlers[i].value[k].run >= 1
      BY <3>2, <3>3 DEF HandlersOf, Available
    <3>9. EntriesOf(j, f) = Cardinality(kept) + Cardinality(told)
      BY DEF EntriesOf
    <3> HIDE DEF kept, told
    <3>10. /\ Cardinality(kept) \in 0..1 /\ Cardinality(told) \in 0..1
           /\ kept = {} => Cardinality(kept) = 0
           /\ told = {} => Cardinality(told) = 0
      BY <3>4, <3>5, AtMostOne
    <3>11. QED
      BY <3>6, <3>7, <3>8, <3>9, <3>10
  <2>4. RegisteredOnce
    BY <2>3 DEF RegisteredOnce
  <2>5. ToldOnce
    BY <2>2 DEF ToldOnce, ToldApart, Repeats
  <2>6. OneCriticalBinding
    <3>1. ASSUME NEW j \in DOMAIN jobs
          PROVE  LET bound == {i \in DOMAIN jobs[j].handlers : IsCritical(jobs[j].handlers[i])}
                 IN  /\ Cardinality(bound) <= 1
                     /\ \A i \in bound : jobs[j].accepted # NoMessage =>
                           jobs[j].handlers[i].message = jobs[j].accepted
      <4> DEFINE bound == {i \in DOMAIN jobs[j].handlers : IsCritical(jobs[j].handlers[i])}
      <4>1. HandlersOf(j)
        BY <2>2
      <4>2. \A x, y \in bound : x = y
        <5>1. \A x \in bound : x \in DOMAIN jobs[j].handlers /\ jobs[j].handlers[x].fut = 0
          BY <4>1 DEF HandlersOf, Rooted
        <5>2. QED
          BY <4>1, <5>1 DEF HandlersOf
      <4>3. Cardinality(bound) <= 1
        <5> HIDE DEF bound
        <5>1. Cardinality(bound) \in 0..1
          BY <4>2, AtMostOne
        <5>2. QED
          BY <5>1
      <4>4. \A i \in bound : jobs[j].accepted # NoMessage =>
               jobs[j].handlers[i].message = jobs[j].accepted
        BY <4>1 DEF HandlersOf
      <4>5. QED
        BY <4>3, <4>4
    <3>2. QED
      BY <3>1 DEF OneCriticalBinding
  <2>7. QED
    BY <2>4, <2>5, <2>6 DEF HandlersRunOnce
<1>2. QED
    BY <1>1, Inductive, PTL

(* The parent of a sub-task is told of its outcome once, and never before   *)
(* there is one.                                                            *)
THEOREM OutcomesReachParents == DgSpec => []OutcomeReachesParent
<1>1. DgInv => OutcomeReachesParent
  <2>1. SUFFICES ASSUME DgInv, NEW c \in DOMAIN jobs, NEW p \in DOMAIN jobs
                 PROVE  Cardinality(FindSubTaskHandler(p, c)) =
                          IF jobs[c].parent = p /\ SubTaskState(c) \in {"COMPLETED", "ERROR"}
                          THEN 1 ELSE 0
    BY DEF OutcomeReachesParent
  <2>2. /\ OutcomeInv /\ c # 0 /\ p # 0
        /\ jobs[c].outcome \in {"none", "COMPLETED", "ERROR"}
    <3>1. DgTypes /\ jobs[c] \in JobRecords
      BY <2>1 DEF DgInv, FutureInv, DgTypes
    <3>2. jobs[c].outcome \in {"none", "COMPLETED", "ERROR"}
      BY <3>1 DEF JobRecords
    <3>3. QED
      BY <2>1, <3>1, <3>2 DEF DgInv, DgTypes
  <2>3. SubTaskState(c) \in {"COMPLETED", "ERROR"} <=> jobs[c].outcome # "none"
    BY <2>2 DEF SubTaskState
  <2> DEFINE found == FindSubTaskHandler(p, c)
  <2>4. \A x \in found : x \in DOMAIN jobs[p].log /\ jobs[p].log[x] = c
    BY DEF FindSubTaskHandler
  <2>5. LogOf(p) /\ Told(c)
    BY <2>2 DEF OutcomeInv
  <2>6. \A x, y \in found : x = y
    BY <2>2, <2>4, <2>5 DEF LogOf
  <2>7. found # {} <=> jobs[c].parent = p /\ jobs[c].outcome # "none"
    <3>1. found # {} => jobs[c].parent = p /\ jobs[c].outcome # "none"
      BY <2>2, <2>4, <2>5 DEF LogOf
    <3>2. jobs[c].parent = p /\ jobs[c].outcome # "none" => found # {}
      BY <2>2, <2>5 DEF Told, FindSubTaskHandler
    <3>3. QED
      BY <3>1, <3>2
  <2> HIDE DEF found
  <2>8. Cardinality(found) \in 0..1 /\ (Cardinality(found) = 0 <=> found = {})
    BY <2>6, AtMostOne
  <2>9. QED
    BY <2>3, <2>7, <2>8 DEF found
<1>2. QED
    BY <1>1, Inductive, PTL

(* A mute result is the chat responses exactly where the job never failed,  *)
(* also if a later run of the reactivated job succeeds.                     *)
THEOREM ErrorsAreRemembered == DgSpec => []MuteResultRemembersErrors
<1>1. DgInv => MuteResultRemembersErrors
  <2>1. SUFFICES ASSUME DgInv, NEW f \in DOMAIN futures, futures[f].kind = "mute", Read[f].done
                 PROVE  Read[f].value[1].result = "responses" <=>
                          "failed" \notin Range(jobs[futures[f].job].runs)
    BY DEF MuteResultRemembersErrors
  <2> DEFINE c == futures[f].job
  <2>2. FutureInv /\ c \in DOMAIN jobs /\ RunsKept(jobs[c])
    BY <2>1 DEF DgInv, FutureInv, PartsAreOlder, RunsAreKept
  <2>3. Read[f] = ReadTask(f)
    BY <2>1, <2>2, ReadEquation DEF ReadFrom
  <2>4. Read[f].value = TaskValue(f)
    BY <2>1, <2>2, <2>3, TaskRead
  <2>5. Read[f].value[1].result = MuteResult(jobs[c])
    BY <2>1, <2>4 DEF TaskValue
  <2>6. MuteResult(jobs[c]) = "responses" <=> ~jobs[c].failed
    BY DEF MuteResult
  <2>7. QED
    BY <2>2, <2>5, <2>6 DEF RunsKept
<1>2. QED
    BY <1>1, Inductive, PTL
=============================================================================
