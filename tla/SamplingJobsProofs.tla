------------------------- MODULE SamplingJobsProofs -------------------------
(***************************************************************************)
(* Theorems about SamplingJobs, for any number of threads, servers,        *)
(* connections and jobs.                                                   *)
(***************************************************************************)
EXTENDS SamplingJobs, SequenceTheorems, FiniteSetTheorems, TLAPS

(* Putting an entry at the front of a sequence.                            *)
LEMMA ConsFacts ==
    ASSUME NEW S, NEW s \in Seq(S), NEW x \in S
    PROVE  /\ Cons(x, s) \in Seq(S)
           /\ Len(Cons(x, s)) = Len(s) + 1
           /\ \A i \in 1..(Len(s) + 1) :
                 Cons(x, s)[i] = IF i = 1 THEN x ELSE s[i - 1]
BY DEF Cons

(* Taking the first entry of a sequence is removing entry 1.               *)
LEMMA TailFacts ==
    ASSUME NEW S, NEW s \in Seq(S), s # <<>>
    PROVE  /\ 1 \in 1..Len(s)
           /\ Head(s) = s[1]
           /\ s[1] \in S
           /\ Tail(s) = RemoveAt(s, 1)
<1>1. 1 \in 1..Len(s) /\ Head(s) = s[1] /\ s[1] \in S /\ Tail(s) \in Seq(S)
  OBVIOUS
<1>2. SubSeq(s, 1, 1 - 1) = <<>> /\ SubSeq(s, 1 + 1, Len(s)) = Tail(s)
  OBVIOUS
<1>3. <<>> \o Tail(s) = Tail(s)
  BY <1>1, ConcatEmptySeq
<1> QED BY <1>1, <1>2, <1>3 DEF RemoveAt

(* Removing entry i of a sequence.                                         *)
LEMMA RemoveAtFacts ==
    ASSUME NEW S, NEW s \in Seq(S), NEW i \in 1..Len(s)
    PROVE  /\ RemoveAt(s, i) \in Seq(S)
           /\ Len(RemoveAt(s, i)) = Len(s) - 1
           /\ \A j \in 1..(Len(s) - 1) :
                 RemoveAt(s, i)[j] = IF j < i THEN s[j] ELSE s[j + 1]
<1> DEFINE a == SubSeq(s, 1, i - 1)
           b == SubSeq(s, i + 1, Len(s))
<1>1. /\ a \in Seq(S) /\ Len(a) = i - 1
      /\ \A j \in 1..(i - 1) : a[j] = s[j]
  OBVIOUS
<1>2. /\ b \in Seq(S) /\ Len(b) = Len(s) - i
      /\ \A j \in 1..(Len(s) - i) : b[j] = s[j + i]
  OBVIOUS
<1>3. RemoveAt(s, i) = a \o b
  BY DEF RemoveAt
<1>4. /\ a \o b \in Seq(S)
      /\ Len(a \o b) = Len(s) - 1
      /\ \A j \in 1..(Len(s) - 1) :
            (a \o b)[j] = IF j <= i - 1 THEN a[j] ELSE b[j - (i - 1)]
  <2> HIDE DEF a, b
  <2>1. /\ a \o b \in Seq(S)
        /\ Len(a \o b) = Len(a) + Len(b)
        /\ \A j \in 1..(Len(a) + Len(b)) :
              (a \o b)[j] = IF j <= Len(a) THEN a[j] ELSE b[j - Len(a)]
    BY <1>1, <1>2, ConcatProperties, Zenon
  <2>2. Len(a) = i - 1 /\ Len(a) + Len(b) = Len(s) - 1
    BY <1>1, <1>2
  <2> QED BY <2>1, <2>2
<1>5. \A j \in 1..(Len(s) - 1) : (a \o b)[j] = IF j < i THEN s[j] ELSE s[j + 1]
  <2> HIDE DEF a, b
  <2>1. TAKE j \in 1..(Len(s) - 1)
  <2>2. CASE j < i
    BY <2>2, <1>1, <1>4
  <2>3. CASE ~(j < i)
    <3>1. j - (i - 1) \in 1..(Len(s) - i) /\ j - (i - 1) + i = j + 1
      BY <2>3
    <3>2. b[j - (i - 1)] = s[j + 1]
      BY <3>1, <1>2
    <3> QED BY <2>3, <3>2, <1>4
  <2> QED BY <2>2, <2>3
<1> QED BY <1>3, <1>4, <1>5

-----------------------------------------------------------------------------
(* The inductive invariant *)

(* What a client has in each stage of its handler.                         *)
StageOK ==
    \A c \in Clients :
        /\ pc[c] \in {"idle", "next", "allocate", "connect"} => conn[c] = NoConn
        /\ pc[c] \in {"checkNew", "held"} => conn[c] # NoConn
        /\ pc[c] \in {"allocate", "connect", "checkIdle", "checkNew", "held"}
              => key[c] \in Servers
        /\ conn[c] # NoConn => key[c] \in Servers

(* A thread that is not idle executes a job.                               *)
Employed == \A t \in Threads : pc[t] # "idle" => job[t] \in Jobs

(* An idle entry is null or an open connection, under the null key null.   *)
IdleOK ==
    \A k \in Keys : \A i \in 1..Len(idle[k]) :
        idle[k][i] # NoConn => k # NoKey /\ idle[k][i] \in open

Inv == /\ TypeOK /\ StageOK /\ Employed /\ IdleOK
       /\ Exclusive /\ HeldOpen /\ NoLeak /\ RightServer

-----------------------------------------------------------------------------
(* How the idle entries change *)

Entries == Conns \cup {NoConn}

(* An entry leaves the idle entries (borrowed or evicted): the others stay, *)
(* none is there twice, and a real one that left is gone.                  *)
LEMMA EntryRemoved ==
    ASSUME PoolTypeOK, UniqueIdle,
           NEW k \in Keys, NEW p \in 1..Len(idle[k]), NEW x, x = idle[k][p],
           idle' = [idle EXCEPT ![k] = RemoveAt(@, p)]
    PROVE  /\ idle' \in [Keys -> Seq(Entries)]
           /\ \A l \in Keys : \A i \in 1..Len(idle'[l]) :
                 \E j \in 1..Len(idle[l]) : idle'[l][i] = idle[l][j]
           /\ UniqueIdle'
           /\ x # NoConn => ~IsIdle(x)'
           /\ \A y : IsIdle(y) /\ y # x => IsIdle(y)'
<1> DEFINE Src == [l \in Keys |-> [i \in Nat |-> IF l = k /\ i >= p THEN i + 1 ELSE i]]
<1>1. idle \in [Keys -> Seq(Entries)]
  BY DEF PoolTypeOK, Entries
<1>2. /\ idle[k] \in Seq(Entries)
      /\ RemoveAt(idle[k], p) \in Seq(Entries)
      /\ Len(RemoveAt(idle[k], p)) = Len(idle[k]) - 1
      /\ \A j \in 1..(Len(idle[k]) - 1) :
            RemoveAt(idle[k], p)[j] = IF j < p THEN idle[k][j] ELSE idle[k][j + 1]
  BY <1>1, RemoveAtFacts
<1>3. idle' \in [Keys -> Seq(Entries)]
  BY <1>1, <1>2
<1>4. \A l \in Keys :
         /\ Len(idle[l]) \in Nat
         /\ l # k => idle'[l] = idle[l]
         /\ l = k => Len(idle'[l]) = Len(idle[l]) - 1
  BY <1>1, <1>2
<1>5. \A l \in Keys : \A i \in 1..Len(idle'[l]) :
         /\ Src[l][i] \in 1..Len(idle[l])
         /\ idle'[l][i] = idle[l][Src[l][i]]
         /\ ~(l = k /\ Src[l][i] = p)
  <2> TAKE l \in Keys
  <2> TAKE i \in 1..Len(idle'[l])
  <2>1. CASE l = k
    <3>1. i \in 1..(Len(idle[k]) - 1) /\ i \in Nat
      BY <1>1, <1>4, <2>1
    <3>2. idle'[l][i] = IF i < p THEN idle[k][i] ELSE idle[k][i + 1]
      BY <1>1, <1>2, <2>1, <3>1
    <3> QED BY <1>4, <2>1, <3>1, <3>2
  <2>2. CASE l # k
    BY <1>4, <2>2
  <2> QED BY <2>1, <2>2
<1>6. \A l \in Keys : \A i, j \in 1..Len(idle'[l]) :
         Src[l][i] = Src[l][j] => i = j
  BY <1>4
<1>7. \A l \in Keys : \A j \in 1..Len(idle[l]) :
         ~(l = k /\ j = p) =>
            \E i \in 1..Len(idle'[l]) : Src[l][i] = j
  <2> TAKE l \in Keys
  <2> TAKE j \in 1..Len(idle[l])
  <2> HAVE ~(l = k /\ j = p)
  <2>1. CASE l = k /\ j > p
    <3>1. /\ Len(idle[l]) \in Nat /\ Len(idle'[l]) = Len(idle[l]) - 1
          /\ p \in Nat \ {0} /\ j \in 1..Len(idle[l]) /\ j > p
      BY <1>4, <2>1
    <3>2. j - 1 \in 1..Len(idle'[l]) /\ j - 1 \in Nat /\ j - 1 >= p
      BY <3>1
    <3>3. Src[l][j - 1] = j
      BY <2>1, <3>1, <3>2
    <3> HIDE DEF Src
    <3> QED BY <3>2, <3>3
  <2>2. CASE l # k \/ j < p
    <3>1. j \in 1..Len(idle'[l]) /\ Src[l][j] = j
      BY <1>4, <2>2
    <3> HIDE DEF Src
    <3> QED BY <3>1
  <2>3. (l = k /\ j > p) \/ l # k \/ j < p
    BY <1>4
  <2> QED BY <2>1, <2>2, <2>3
<1> HIDE DEF Src
<1>8. UniqueIdle'
  <2> SUFFICES ASSUME NEW l \in Keys, NEW m \in Keys,
                      NEW i \in 1..Len(idle'[l]), NEW j \in 1..Len(idle'[m]),
                      idle'[l][i] = idle'[m][j], idle'[l][i] # NoConn
               PROVE  l = m /\ i = j
    BY DEF UniqueIdle
  <2> DEFINE a == Src[l][i]
             b == Src[m][j]
  <2>2. /\ a \in 1..Len(idle[l]) /\ b \in 1..Len(idle[m])
        /\ idle[l][a] = idle[m][b]
        /\ idle[l][a] # NoConn
    BY <1>5
  <2>3. l = m /\ a = b
    <3> HIDE DEF a, b
    <3> QED BY <2>2 DEF UniqueIdle
  <2> QED BY <1>6, <2>3
<1>9. x # NoConn => ~IsIdle(x)'
  <2> SUFFICES ASSUME x # NoConn,
                      NEW l \in Keys, NEW i \in 1..Len(idle'[l]),
                      idle'[l][i] = x
               PROVE  FALSE
    BY DEF IsIdle
  <2> DEFINE a == Src[l][i]
  <2>2. /\ a \in 1..Len(idle[l])
        /\ idle[l][a] = idle[k][p] /\ idle[l][a] # NoConn
        /\ ~(l = k /\ a = p)
    BY <1>5
  <2> HIDE DEF a
  <2> QED BY <2>2 DEF UniqueIdle
<1>10. \A y : IsIdle(y) /\ y # x => IsIdle(y)'
  <2> SUFFICES ASSUME NEW y, IsIdle(y), y # x
               PROVE  IsIdle(y)'
    OBVIOUS
  <2>0. PICK l \in Keys : \E j \in 1..Len(idle[l]) : idle[l][j] = y
    BY DEF IsIdle
  <2>1. PICK j \in 1..Len(idle[l]) : idle[l][j] = y
    BY <2>0
  <2>2. PICK i \in 1..Len(idle'[l]) : Src[l][i] = j
    BY <1>7, <2>1
  <2>3. idle'[l][i] = y
    BY <1>5, <2>1, <2>2
  <2> QED BY <2>3 DEF IsIdle
<1>11. \A l \in Keys : \A i \in 1..Len(idle'[l]) :
          \E j \in 1..Len(idle[l]) : idle'[l][i] = idle[l][j]
  BY <1>5
<1> QED
  <2> HIDE DEF Src
  <2> QED BY <1>3, <1>11, <1>8, <1>9, <1>10, Zenon

(* An entry is returned: it is idle now, and so is what was before, and    *)
(* nothing else.                                                           *)
LEMMA EntryReturned ==
    ASSUME PoolTypeOK, UniqueIdle,
           NEW k \in Keys, NEW x \in Entries, x # NoConn => ~IsIdle(x),
           idle' = [idle EXCEPT ![k] = Cons(x, @)]
    PROVE  /\ idle' \in [Keys -> Seq(Entries)]
           /\ \A l \in Keys : \A i \in 1..Len(idle'[l]) :
                 \/ l = k /\ idle'[l][i] = x
                 \/ \E j \in 1..Len(idle[l]) : idle'[l][i] = idle[l][j]
           /\ UniqueIdle'
           /\ IsIdle(x)'
           /\ \A y : IsIdle(y) => IsIdle(y)'
<1> DEFINE Src == [l \in Keys |-> [i \in Nat |-> IF l = k THEN i - 1 ELSE i]]
<1>1. idle \in [Keys -> Seq(Entries)]
  BY DEF PoolTypeOK, Entries
<1>2. /\ idle[k] \in Seq(Entries)
      /\ Cons(x, idle[k]) \in Seq(Entries)
      /\ Len(Cons(x, idle[k])) = Len(idle[k]) + 1
      /\ \A i \in 1..(Len(idle[k]) + 1) :
            Cons(x, idle[k])[i] = IF i = 1 THEN x ELSE idle[k][i - 1]
  <2> HIDE DEF Src
  <2>1. idle[k] \in Seq(Entries)
    BY <1>1
  <2>2. /\ Cons(x, idle[k]) \in Seq(Entries)
        /\ Len(Cons(x, idle[k])) = Len(idle[k]) + 1
    BY <2>1, ConsFacts
  <2>3. \A i \in 1..(Len(idle[k]) + 1) :
            Cons(x, idle[k])[i] = IF i = 1 THEN x ELSE idle[k][i - 1]
    BY <2>1 DEF Cons
  <2> QED BY <2>1, <2>2, <2>3
<1>3. idle' \in [Keys -> Seq(Entries)]
  BY <1>1, <1>2
<1>4. \A l \in Keys :
         /\ Len(idle[l]) \in Nat
         /\ l # k => idle'[l] = idle[l]
         /\ l = k => Len(idle'[l]) = Len(idle[l]) + 1
  BY <1>1, <1>2
<1>5. \A l \in Keys : \A i \in 1..Len(idle'[l]) :
         \/ l = k /\ i = 1 /\ idle'[l][i] = x
         \/ /\ Src[l][i] \in 1..Len(idle[l])
            /\ idle'[l][i] = idle[l][Src[l][i]]
            /\ ~(l = k /\ i = 1)
  BY <1>1, <1>2, <1>4
<1>6. \A l \in Keys : \A i, j \in 1..Len(idle'[l]) :
         Src[l][i] = Src[l][j] => i = j
  BY <1>4
<1>7. \A l \in Keys : \A j \in 1..Len(idle[l]) :
         \E i \in 1..Len(idle'[l]) : idle'[l][i] = idle[l][j]
  <2> TAKE l \in Keys
  <2> TAKE j \in 1..Len(idle[l])
  <2>1. CASE l = k
    <3>1. j + 1 \in 1..Len(idle'[l]) /\ j + 1 # 1 /\ j + 1 \in Nat
      BY <1>4, <2>1
    <3>2. Src[l][j + 1] = j
      BY <2>1, <3>1
    <3>3. idle'[l][j + 1] = idle[l][j]
      <4> HIDE DEF Src
      <4> QED BY <1>5, <3>1, <3>2
    <3> QED BY <3>1, <3>3
  <2>2. CASE l # k
    BY <1>4, <2>2
  <2> QED BY <2>1, <2>2
<1>8. 1 \in 1..Len(idle'[k]) /\ idle'[k][1] = x
  BY <1>1, <1>2
<1> HIDE DEF Src
<1>9. UniqueIdle'
  <2> SUFFICES ASSUME NEW l \in Keys, NEW m \in Keys,
                      NEW i \in 1..Len(idle'[l]), NEW j \in 1..Len(idle'[m]),
                      idle'[l][i] = idle'[m][j], idle'[l][i] # NoConn
               PROVE  l = m /\ i = j
    BY DEF UniqueIdle
  <2>2. CASE l = k /\ i = 1
    <3>1. m = k /\ j = 1
      BY <1>5, <2>2 DEF IsIdle
    <3> QED BY <2>2, <3>1
  <2>3. CASE m = k /\ j = 1
    <3>1. l = k /\ i = 1
      BY <1>5, <2>3 DEF IsIdle
    <3> QED BY <2>3, <3>1
  <2>4. CASE ~(l = k /\ i = 1) /\ ~(m = k /\ j = 1)
    <3> DEFINE a == Src[l][i]
               b == Src[m][j]
    <3>1. /\ a \in 1..Len(idle[l]) /\ b \in 1..Len(idle[m])
          /\ idle[l][a] = idle[m][b]
          /\ idle[l][a] # NoConn
      BY <1>5, <2>4
    <3>2. l = m /\ a = b
      <4> HIDE DEF a, b
      <4> QED BY <3>1 DEF UniqueIdle
    <3> QED BY <1>6, <3>2
  <2> QED BY <2>2, <2>3, <2>4
<1>10. IsIdle(x)' /\ \A y : IsIdle(y) => IsIdle(y)'
  BY <1>7, <1>8 DEF IsIdle
<1> QED BY <1>3, <1>5, <1>9, <1>10

-----------------------------------------------------------------------------
(* Initially *)

LEMMA InvInit == Init => Inv
<1> SUFFICES ASSUME Init PROVE Inv
  OBVIOUS
<1> USE DEF Init, PoolInit
<1>1. TypeOK
  BY JobsAssumption DEF TypeOK, PoolTypeOK, Stages, Keys
<1>2. StageOK /\ Employed
  BY DEF StageOK, Employed, Clients
<1>3. IdleOK
  BY DEF IdleOK
<1>4. Exclusive /\ HeldOpen /\ NoLeak /\ RightServer
  BY DEF Exclusive, UniqueIdle, HeldOpen, NoLeak, RightServer, IsIdle
<1> QED BY <1>1, <1>2, <1>3, <1>4 DEF Inv

-----------------------------------------------------------------------------
(* Steps that move no connection *)

LEMMA QuietStep ==
    ASSUME Inv, TypeOK', StageOK', Employed',
           UNCHANGED <<idle, open, home, conn>>,
           \A c \in Clients : conn[c] # NoConn => key'[c] = key[c]
    PROVE  Inv'
<1>1. IdleOK' /\ NoLeak'
  BY DEF Inv, IdleOK, NoLeak, IsIdle
<1>2. Exclusive'
  BY DEF Inv, Exclusive, UniqueIdle, IsIdle
<1>3. HeldOpen'
  BY DEF Inv, HeldOpen, StageOK
<1>4. RightServer'
  BY DEF Inv, RightServer
<1> QED BY <1>1, <1>2, <1>3, <1>4 DEF Inv

(* ... in borrowObject, *)
LEMMA QuietBorrow ==
    ASSUME Inv, NEW c \in Clients, MayCreate(c) \/ ConnectFails(c) \/ Valid(c),
           UNCHANGED jobVars
    PROVE  Inv'
<1> USE DEF MayCreate, ConnectFails, Valid, GoTo, jobVars
<1>1. TypeOK'
  <2>1. pc' \in [Clients -> Stages]
    BY DEF Inv, TypeOK, PoolTypeOK, Stages
  <2>2. numActive' \in Int
    BY DEF Inv, TypeOK, PoolTypeOK
  <2>3. UNCHANGED <<idle, open, home, key, conn, job, todo, tasks, missed, fires>>
    OBVIOUS
  <2> QED BY <2>1, <2>2, <2>3 DEF Inv, TypeOK, PoolTypeOK
<1>2. conn[c] # NoConn \/ ~Valid(c)
  BY PoolAssumption DEF Inv, TypeOK, PoolTypeOK
<1>3. StageOK'
  BY <1>2 DEF Inv, StageOK, TypeOK, PoolTypeOK
<1>4. Employed'
  BY DEF Inv, Employed, TypeOK, PoolTypeOK, Clients
<1> QED BY <1>1, <1>3, <1>4, QuietStep

(* ... in the handler of either kind of client, *)
LEMMA QuietHandler ==
    ASSUME Inv, NEW c \in Clients,
           UseFails(c) \/ RecordFailure(c) \/ RecordingFails(c)
    PROVE  Inv'
<1> USE DEF UseFails, RecordFailure, RecordingFails, GoTo, jobVars
<1>1. TypeOK'
  BY DEF Inv, TypeOK, PoolTypeOK, Stages
<1>2. StageOK'
  BY DEF Inv, StageOK, TypeOK, PoolTypeOK
<1>3. Employed'
  <2>1. pc[c] # "idle" /\ job' = job
    OBVIOUS
  <2> QED BY <2>1 DEF Inv, Employed, TypeOK, PoolTypeOK, Clients
<1> QED BY <1>1, <1>2, <1>3, QuietStep

(* ... in the execution of a job, *)
LEMMA QuietTake ==
    ASSUME Inv, NEW t \in Threads, NEW s \in Servers, NEW k \in Keys,
           NEW stage \in {"allocate", "failed", "finally", "abort"},
           stage = "allocate" => k \in Servers,
           Take(t, s, k, stage)
    PROVE  Inv'
<1> USE DEF Take, GoTo
<1>1. TypeOK'
  BY DEF Inv, TypeOK, PoolTypeOK, Stages, Clients
<1>2. conn[t] = NoConn
  BY DEF Inv, StageOK, Clients
<1>3. StageOK'
  BY <1>2 DEF Inv, StageOK, TypeOK, PoolTypeOK
<1>4. Employed'
  BY DEF Inv, Employed, TypeOK, PoolTypeOK, Clients
<1>5. \A c \in Clients : conn[c] # NoConn => key'[c] = key[c]
  BY <1>2 DEF Inv, TypeOK, PoolTypeOK
<1> QED BY <1>1, <1>3, <1>4, <1>5, QuietStep

LEMMA QuietFire ==
    ASSUME Inv, NEW t \in Threads, NEW j \in Jobs, Fire(t, j)
    PROVE  Inv'
<1> USE DEF Fire, GoTo
<1>1. TypeOK'
  BY JobsAssumption DEF Inv, TypeOK, PoolTypeOK, Stages, Clients
<1>2. StageOK'
  BY DEF Inv, StageOK, TypeOK, PoolTypeOK, Clients
<1>3. Employed'
  BY DEF Inv, Employed, TypeOK, PoolTypeOK, Clients
<1> QED BY <1>1, <1>2, <1>3, QuietStep

LEMMA QuietTask ==
    ASSUME Inv, NEW t \in Threads, StartTask(t)
    PROVE  Inv'
<1> USE DEF StartTask, GoTo
<1>1. TypeOK'
  <2>1. job[t] \in Jobs /\ conn[t] \in Conns
    BY DEF Inv, TypeOK, PoolTypeOK, Employed, StageOK, Clients
  <2>2. tasks' \in [Jobs -> [Conns -> Nat]]
    BY <2>1 DEF Inv, TypeOK
  <2> QED BY <2>2 DEF Inv, TypeOK, PoolTypeOK, Stages, Clients
<1>2. StageOK'
  BY DEF Inv, StageOK, TypeOK, PoolTypeOK, Clients
<1>3. Employed'
  BY DEF Inv, Employed, TypeOK, PoolTypeOK, Clients
<1> QED BY <1>1, <1>2, <1>3, QuietStep

LEMMA QuietEnd ==
    ASSUME Inv, NEW j \in Jobs, NEW x \in Conns, EndTask(j, x)
    PROVE  Inv'
<1> USE DEF EndTask, poolVars
<1>1. TypeOK'
  BY DEF Inv, TypeOK, PoolTypeOK
<1>2. StageOK' /\ Employed'
  BY DEF Inv, StageOK, Employed
<1> QED BY <1>1, <1>2, QuietStep

(* ... and in the web interface. *)
LEMMA DumpNowStep ==
    ASSUME Inv, NEW r \in Requests, NEW s \in Servers, DumpNow(r, s)
    PROVE  Inv'
<1> USE DEF DumpNow, GoTo, jobVars
<1>1. TypeOK'
  BY DEF Inv, TypeOK, PoolTypeOK, Stages, Clients, Keys
<1>2. conn[r] = NoConn /\ conn' = conn
  BY DEF Inv, StageOK, Clients
<1>3. StageOK'
  BY <1>2 DEF Inv, StageOK, TypeOK, PoolTypeOK, Clients
<1>4. Employed'
  BY PoolAssumption DEF Inv, Employed, TypeOK, PoolTypeOK, Clients
<1>5. \A c \in Clients : conn[c] # NoConn => key'[c] = key[c]
  BY <1>2 DEF Inv, TypeOK, PoolTypeOK
<1> QED BY <1>1, <1>3, <1>4, <1>5, QuietStep

LEMMA DumpStep ==
    ASSUME Inv, NEW r \in Requests, Dump(r)
    PROVE  Inv'
<1> USE DEF Dump, GoTo, jobVars
<1>1. TypeOK'
  BY DEF Inv, TypeOK, PoolTypeOK, Stages, Clients
<1>2. StageOK'
  BY DEF Inv, StageOK, TypeOK, PoolTypeOK, Clients
<1>3. Employed'
  BY PoolAssumption DEF Inv, Employed, TypeOK, PoolTypeOK, Clients
<1> QED BY <1>1, <1>2, <1>3, QuietStep

-----------------------------------------------------------------------------
(* Steps that move a connection *)

(* The second part of Exclusive, told from the side of the idle entries.   *)
LEMMA HeldNotIdle ==
    ASSUME Inv
    PROVE  \A z : IsIdle(z) /\ z # NoConn => \A c \in Clients : conn[c] # z
BY DEF Inv, Exclusive

LEMMA HeldNotIdleSuffices ==
    ASSUME UniqueIdle',
           \A c, d \in Clients : c # d /\ conn'[c] # NoConn => conn'[c] # conn'[d],
           \A z : IsIdle(z)' /\ z # NoConn => \A c \in Clients : conn'[c] # z
    PROVE  Exclusive'
BY DEF Exclusive, IsIdle

(* The candidate leaves the idle entries with the client.                  *)
LEMMA TakeIdleStep ==
    ASSUME Inv, NEW c \in Clients, TakeIdle(c), UNCHANGED jobVars
    PROVE  Inv'
<1>0. PICK k, y : k = key[c] /\ y = Head(idle[k])
  OBVIOUS
<1>1. /\ k \in Servers /\ k \in Keys
      /\ conn[c] = NoConn /\ pc[c] = "allocate"
      /\ idle[k] \in Seq(Entries) /\ idle[k] # <<>>
  BY <1>0 DEF Inv, StageOK, TypeOK, PoolTypeOK, Keys, Entries, TakeIdle
<1>2. /\ 1 \in 1..Len(idle[k]) /\ y = idle[k][1] /\ y \in Entries
      /\ idle' = [idle EXCEPT ![k] = RemoveAt(@, 1)]
  BY <1>0, <1>1, TailFacts DEF TakeIdle
<1>3. PoolTypeOK /\ UniqueIdle
  BY DEF Inv, TypeOK, Exclusive
<1>4. /\ idle' \in [Keys -> Seq(Entries)]
      /\ \A l \in Keys : \A i \in 1..Len(idle'[l]) :
            \E j \in 1..Len(idle[l]) : idle'[l][i] = idle[l][j]
      /\ UniqueIdle'
  BY <1>1, <1>2, <1>3, EntryRemoved, Zenon
<1>5. /\ y # NoConn => ~IsIdle(y)'
      /\ \A z : IsIdle(z) /\ z # y => IsIdle(z)'
  <2>1. PICK p : p = 1
    OBVIOUS
  <2>2. /\ p \in 1..Len(idle[k]) /\ y = idle[k][p]
        /\ idle' = [idle EXCEPT ![k] = RemoveAt(@, p)]
    BY <1>2, <2>1
  <2> QED BY <1>1, <1>3, <2>2, EntryRemoved, Zenon
<1>6. /\ y \in Entries /\ conn' = [conn EXCEPT ![c] = y]
      /\ y # NoConn => IsIdle(y) /\ y \in open /\ home[y] = k
  BY <1>0, <1>1, <1>2 DEF Inv, IsIdle, IdleOK, RightServer, TakeIdle
<1>7. /\ conn \in [Clients -> Entries] /\ pc \in [Clients -> Stages]
      /\ pc' = [pc EXCEPT ![c] = "checkIdle"]
      /\ UNCHANGED <<numActive, open, home, key, job, todo, tasks, missed, fires>>
      /\ pc[c] = "allocate"
  BY <1>1 DEF Inv, TypeOK, PoolTypeOK, Entries, TakeIdle, GoTo, jobVars
<1>8. \A z : IsIdle(z)' => IsIdle(z)
  BY <1>4 DEF IsIdle
<1>9. TypeOK'
  BY <1>4, <1>6, <1>7 DEF Inv, TypeOK, PoolTypeOK, Stages, Entries
<1>10. StageOK' /\ Employed'
  BY <1>0, <1>1, <1>6, <1>7 DEF Inv, StageOK, Employed, Clients
<1>11. IdleOK' /\ RightServer'
  <2>1. IdleOK'
    BY <1>4, <1>7 DEF Inv, IdleOK
  <2>2. \A l \in Keys : \A i \in 1..Len(idle'[l]) :
           idle'[l][i] # NoConn => home'[idle'[l][i]] = l
    BY <1>4, <1>7 DEF Inv, RightServer
  <2>3. \A d \in Clients : conn'[d] # NoConn => home'[conn'[d]] = key'[d]
    BY <1>0, <1>6, <1>7 DEF Inv, RightServer
  <2> QED BY <2>1, <2>2, <2>3 DEF RightServer
<1>12. Exclusive'
  <2>1. \A d, e \in Clients : d # e /\ conn'[d] # NoConn => conn'[d] # conn'[e]
    BY <1>6, <1>7, HeldNotIdle DEF Inv, Exclusive
  <2>2. \A z : IsIdle(z)' /\ z # NoConn => \A d \in Clients : conn'[d] # z
    BY <1>5, <1>6, <1>7, <1>8, HeldNotIdle
  <2> QED BY <1>4, <2>1, <2>2, HeldNotIdleSuffices
<1>13. HeldOpen'
  BY <1>6, <1>7 DEF Inv, HeldOpen
<1>14. NoLeak'
  <2>1. SUFFICES ASSUME NEW z \in open
                 PROVE  IsIdle(z)' \/ \E d \in Clients : conn'[d] = z
    BY <1>7 DEF NoLeak
  <2>2. CASE z = y
    BY <1>6, <1>7, <2>2
  <2>3. CASE z # y /\ IsIdle(z)
    BY <1>5, <2>3
  <2>4. CASE ~IsIdle(z)
    <3>1. PICK d \in Clients : conn[d] = z
      BY <2>4 DEF Inv, NoLeak
    <3>2. d # c
      BY <1>1, <3>1, PoolAssumption DEF Inv, TypeOK, PoolTypeOK
    <3> QED BY <1>7, <1>6, <3>1, <3>2
  <2> QED BY <2>2, <2>3, <2>4
<1> QED BY <1>9, <1>10, <1>11, <1>12, <1>13, <1>14 DEF Inv

(* A new connector is nobody's and not idle: it had no server before.      *)
LEMMA ConnectStep ==
    ASSUME Inv, NEW c \in Clients, Connect(c), UNCHANGED jobVars
    PROVE  Inv'
<1> USE DEF Connect, GoTo, jobVars
<1>1. PICK x \in Conns : /\ home[x] = NoKey
                         /\ home' = [home EXCEPT ![x] = key[c]]
                         /\ open' = open \cup {x}
                         /\ conn' = [conn EXCEPT ![c] = x]
  OBVIOUS
<1>2. /\ conn \in [Clients -> Entries] /\ home \in [Conns -> Keys]
      /\ conn[c] = NoConn /\ key[c] \in Servers
      /\ x # NoConn /\ NoKey \notin Servers
      /\ pc' = [pc EXCEPT ![c] = "checkNew"]
      /\ UNCHANGED <<idle, numActive, key, job, todo, tasks, missed, fires>>
      /\ pc[c] = "connect"
  BY PoolAssumption DEF Inv, TypeOK, PoolTypeOK, Entries, StageOK
<1>3. \A d \in Clients : conn[d] # x
  BY <1>1, <1>2 DEF Inv, RightServer, StageOK
<1>4. \A k \in Keys : \A i \in 1..Len(idle[k]) : idle[k][i] # x
  BY <1>1, <1>2 DEF Inv, RightServer, IdleOK
<1> HIDE DEF Connect
<1>5. TypeOK'
  BY <1>1, <1>2 DEF Inv, TypeOK, PoolTypeOK, Stages, Entries, Keys
<1>6. StageOK' /\ Employed'
  BY <1>1, <1>2 DEF Inv, StageOK, Employed, TypeOK, PoolTypeOK, Clients
<1>7. IdleOK'
  BY <1>1, <1>2 DEF Inv, IdleOK
<1>8. Exclusive'
  BY <1>1, <1>2, <1>3, <1>4 DEF Inv, Exclusive, UniqueIdle, IsIdle
<1>9. HeldOpen'
  BY <1>1, <1>2 DEF Inv, HeldOpen
<1>10. NoLeak'
  <2>1. SUFFICES ASSUME NEW z \in open'
                 PROVE  IsIdle(z)' \/ \E d \in Clients : conn'[d] = z
    BY DEF NoLeak
  <2>2. CASE z = x
    BY <1>1, <1>2, <2>2
  <2>3. CASE z \in open /\ IsIdle(z)
    BY <1>2, <2>3 DEF IsIdle
  <2>4. CASE z \in open /\ ~IsIdle(z)
    <3>1. PICK d \in Clients : conn[d] = z
      BY <2>4 DEF Inv, NoLeak
    <3>2. d # c
      BY <1>2, <2>4, <3>1, PoolAssumption DEF Inv, TypeOK, PoolTypeOK
    <3> QED BY <1>1, <1>2, <3>1, <3>2
  <2> QED BY <1>1, <2>1, <2>2, <2>3, <2>4
<1>11. RightServer'
  <2>1. \A d \in Clients : conn'[d] # NoConn => home'[conn'[d]] = key'[d]
    BY <1>1, <1>2, <1>3 DEF Inv, RightServer, Entries
  <2>2. \A k \in Keys : \A i \in 1..Len(idle[k]) :
           idle[k][i] # NoConn => home'[idle[k][i]] = k
    <3> SUFFICES ASSUME NEW k \in Keys, NEW i \in 1..Len(idle[k]), idle[k][i] # NoConn
                 PROVE  home'[idle[k][i]] = k
      OBVIOUS
    <3>1. idle[k][i] \in Conns
      BY DEF Inv, IdleOK, TypeOK, PoolTypeOK
    <3>2. idle[k][i] # x /\ home[idle[k][i]] = k
      BY <1>4 DEF Inv, RightServer
    <3> QED BY <1>1, <1>2, <3>1, <3>2
  <2> QED BY <1>2, <2>1, <2>2 DEF RightServer
<1> QED BY <1>5, <1>6, <1>7, <1>8, <1>9, <1>10, <1>11 DEF Inv

(* A rejected candidate is closed; nobody else has it.                     *)
LEMMA InvalidStep ==
    ASSUME Inv, NEW c \in Clients, Invalid(c), UNCHANGED jobVars
    PROVE  Inv'
<1> USE DEF Invalid, GoTo, jobVars
<1>1. PICK x : x = conn[c]
  OBVIOUS
<1>2. /\ conn \in [Clients -> Entries]
      /\ pc' = [pc EXCEPT ![c] = IF pc[c] = "checkIdle" THEN "allocate" ELSE "failed"]
      /\ open' = open \ {x}
      /\ conn' = [conn EXCEPT ![c] = NoConn]
      /\ UNCHANGED <<idle, numActive, home, key, job, todo, tasks, missed, fires>>
      /\ pc[c] \in {"checkIdle", "checkNew"}
  BY <1>1 DEF Inv, TypeOK, PoolTypeOK, Entries
<1> HIDE DEF Invalid
<1>3. TypeOK'
  BY <1>2 DEF Inv, TypeOK, PoolTypeOK, Stages, Entries
<1>4. StageOK' /\ Employed'
  BY <1>2 DEF Inv, StageOK, Employed, TypeOK, PoolTypeOK, Clients
<1>5. \A k \in Keys : \A i \in 1..Len(idle[k]) :
         idle[k][i] # NoConn => idle[k][i] # x
  BY <1>1, HeldNotIdle DEF IsIdle
<1>6. IdleOK'
  BY <1>2, <1>5 DEF Inv, IdleOK
<1>7. Exclusive'
  BY <1>2 DEF Inv, Exclusive, UniqueIdle, IsIdle
<1>8. HeldOpen'
  <2>1. \A d \in Clients : d # c /\ conn[d] # NoConn => conn[d] # x
    BY <1>1 DEF Inv, Exclusive
  <2> QED BY <1>2, <2>1 DEF Inv, HeldOpen
<1>9. NoLeak'
  BY <1>1, <1>2 DEF Inv, NoLeak, IsIdle
<1>10. RightServer'
  BY <1>2 DEF Inv, RightServer
<1> QED BY <1>3, <1>4, <1>6, <1>7, <1>8, <1>9, <1>10 DEF Inv

(* A client returns what it has, under the key it has, and forgets both.   *)
LEMMA ReturnStep ==
    ASSUME Inv, NEW c \in Clients, pc[c] \in {"finally", "abort"},
           ReturnObject(key[c], conn[c]),
           key' = [key EXCEPT ![c] = NoKey],
           conn' = [conn EXCEPT ![c] = NoConn],
           NEW stage \in {"idle", "next"}, GoTo(c, stage),
           UNCHANGED <<open, home>>
    PROVE  /\ PoolTypeOK' /\ StageOK' /\ IdleOK' /\ Exclusive'
           /\ HeldOpen' /\ NoLeak' /\ RightServer'
<1>1. PICK k, x : k = key[c] /\ x = conn[c]
  OBVIOUS
<1>2. /\ k \in Keys /\ x \in Entries
      /\ x # NoConn => k \in Servers /\ x \in open /\ home[x] = k
      /\ conn \in [Clients -> Entries] /\ key \in [Clients -> Keys]
      /\ pc' = [pc EXCEPT ![c] = stage]
      /\ idle' = [idle EXCEPT ![k] = Cons(x, @)]
      /\ numActive' = numActive - 1
  BY <1>1 DEF Inv, TypeOK, PoolTypeOK, Entries, StageOK, HeldOpen, RightServer,
              GoTo, ReturnObject
<1>3. x # NoConn => ~IsIdle(x)
  BY <1>1, HeldNotIdle
<1>4. PoolTypeOK /\ UniqueIdle
  BY DEF Inv, TypeOK, Exclusive
<1>5. /\ idle' \in [Keys -> Seq(Entries)]
      /\ \A l \in Keys : \A i \in 1..Len(idle'[l]) :
            \/ l = k /\ idle'[l][i] = x
            \/ \E j \in 1..Len(idle[l]) : idle'[l][i] = idle[l][j]
      /\ UniqueIdle'
  BY <1>2, <1>3, <1>4, EntryReturned
<1>6. IsIdle(x)' /\ \A y : IsIdle(y) => IsIdle(y)'
  BY <1>2, <1>3, <1>4, EntryReturned, Zenon
<1>7. PoolTypeOK'
  BY <1>2, <1>4, <1>5 DEF PoolTypeOK, Stages, Entries, Keys
<1>8. StageOK'
  BY <1>2, <1>4 DEF Inv, StageOK, PoolTypeOK
<1>9. IdleOK'
  <2> SUFFICES ASSUME NEW l \in Keys, NEW i \in 1..Len(idle'[l]), idle'[l][i] # NoConn
               PROVE  l # NoKey /\ idle'[l][i] \in open
    BY DEF IdleOK
  <2>1. CASE l = k /\ idle'[l][i] = x
    BY <1>2, <2>1, PoolAssumption
  <2>2. CASE \E j \in 1..Len(idle[l]) : idle'[l][i] = idle[l][j]
    BY <2>2 DEF Inv, IdleOK
  <2> QED BY <1>5, <2>1, <2>2
<1>10. Exclusive'
  <2>1. \A d, e \in Clients : d # e /\ conn'[d] # NoConn => conn'[d] # conn'[e]
    BY <1>2 DEF Inv, Exclusive
  <2>2. \A z : IsIdle(z)' => z = x \/ IsIdle(z)
    BY <1>5 DEF IsIdle
  <2>3. \A z : IsIdle(z)' /\ z # NoConn => \A d \in Clients : conn'[d] # z
    BY <1>1, <1>2, <2>2, HeldNotIdle DEF Inv, Exclusive
  <2> QED BY <1>5, <2>1, <2>3, HeldNotIdleSuffices
<1>11. HeldOpen'
  BY <1>2, <1>4 DEF Inv, HeldOpen, PoolTypeOK
<1>12. NoLeak'
  <2> SUFFICES ASSUME NEW z \in open
               PROVE  IsIdle(z)' \/ \E d \in Clients : conn'[d] = z
    BY DEF NoLeak
  <2>1. CASE IsIdle(z) \/ z = x
    BY <1>6, <2>1
  <2>2. CASE ~IsIdle(z) /\ z # x
    <3>1. PICK d \in Clients : conn[d] = z
      BY <2>2 DEF Inv, NoLeak
    <3> QED BY <1>1, <1>2, <2>2, <3>1
  <2> QED BY <2>1, <2>2
<1>13. RightServer'
  <2>1. \A d \in Clients : conn'[d] # NoConn => home'[conn'[d]] = key'[d]
    BY <1>2 DEF Inv, RightServer
  <2>2. \A l \in Keys : \A i \in 1..Len(idle'[l]) :
           idle'[l][i] # NoConn => home'[idle'[l][i]] = l
    <3> SUFFICES ASSUME NEW l \in Keys, NEW i \in 1..Len(idle'[l]), idle'[l][i] # NoConn
                 PROVE  home[idle'[l][i]] = l
      OBVIOUS
    <3>1. CASE l = k /\ idle'[l][i] = x
      BY <1>2, <3>1
    <3>2. CASE \E j \in 1..Len(idle[l]) : idle'[l][i] = idle[l][j]
      BY <3>2 DEF Inv, RightServer
    <3> QED BY <1>5, <3>1, <3>2
  <2> QED BY <2>1, <2>2 DEF RightServer
<1> QED BY <1>7, <1>8, <1>9, <1>10, <1>11, <1>12, <1>13

LEMMA FinallyStep ==
    ASSUME Inv, NEW t \in Threads, Finally(t)
    PROVE  Inv'
<1>1. t \in Clients
  BY DEF Clients
<1>2. PICK stage \in {"idle", "next"} :
         /\ GoTo(t, stage)
         /\ job' = [job EXCEPT ![t] = IF stage = "idle" THEN NoJob ELSE @]
  BY DEF Finally
<1>3. /\ pc[t] \in {"finally", "abort"} /\ ReturnObject(key[t], conn[t])
      /\ key' = [key EXCEPT ![t] = NoKey] /\ conn' = [conn EXCEPT ![t] = NoConn]
      /\ UNCHANGED <<open, home>>
  BY DEF Finally
<1>4. /\ PoolTypeOK' /\ StageOK' /\ IdleOK' /\ Exclusive'
      /\ HeldOpen' /\ NoLeak' /\ RightServer'
  BY <1>1, <1>2, <1>3, ReturnStep
<1>5. Employed'
  BY <1>1, <1>2, <1>3 DEF Inv, Employed, TypeOK, PoolTypeOK, GoTo, Clients
<1>6. TypeOK'
  <2>1. job' \in [Threads -> Jobs \cup {NoJob}]
    BY <1>2 DEF Inv, TypeOK
  <2>2. /\ todo' \in [Threads -> SUBSET Servers]
        /\ tasks' = tasks /\ missed' \in SUBSET Servers /\ fires' = fires
    BY DEF Finally, Inv, TypeOK
  <2> QED BY <1>4, <2>1, <2>2 DEF Inv, TypeOK
<1> QED BY <1>4, <1>5, <1>6 DEF Inv

LEMMA EndRequestStep ==
    ASSUME Inv, NEW r \in Requests, EndRequest(r)
    PROVE  Inv'
<1>1. /\ r \in Clients /\ r \notin Threads
      /\ pc[r] \in {"finally", "abort"} /\ GoTo(r, "idle")
      /\ key' = [key EXCEPT ![r] = NoKey] /\ conn' = [conn EXCEPT ![r] = NoConn]
      /\ UNCHANGED <<open, home, job, todo, tasks, missed, fires>>
  BY PoolAssumption DEF EndRequest, Clients, jobVars
<1>2. Employed'
  BY <1>1 DEF Inv, Employed, TypeOK, PoolTypeOK, GoTo, Clients
<1>3. CASE conn[r] # NoConn
  <2>1. ReturnObject(key[r], conn[r])
    BY <1>3 DEF EndRequest
  <2>2. /\ PoolTypeOK' /\ StageOK' /\ IdleOK' /\ Exclusive'
        /\ HeldOpen' /\ NoLeak' /\ RightServer'
    BY <1>1, <2>1, ReturnStep
  <2> QED BY <1>1, <1>2, <2>2 DEF Inv, TypeOK
<1>4. CASE conn[r] = NoConn
  <2>1. UNCHANGED <<idle, numActive>> /\ conn' = conn
    BY <1>1, <1>4 DEF EndRequest, Inv, TypeOK, PoolTypeOK
  <2>2. TypeOK'
    BY <1>1, <2>1 DEF Inv, TypeOK, PoolTypeOK, GoTo, Stages, Keys
  <2>3. StageOK'
    BY <1>1, <1>4, <2>1 DEF Inv, StageOK, TypeOK, PoolTypeOK, GoTo
  <2>4. \A c \in Clients : conn[c] # NoConn => key'[c] = key[c]
    BY <1>1, <1>4 DEF Inv, TypeOK, PoolTypeOK
  <2> QED BY <1>1, <1>2, <2>1, <2>2, <2>3, <2>4, QuietStep
<1> QED BY <1>3, <1>4

(* The evictor closes an entry that no client has.                         *)
LEMMA EvictStep ==
    ASSUME Inv, NEW k \in Keys, NEW i \in 1..Len(idle[k]),
           Evict(k, i), UNCHANGED jobVars
    PROVE  Inv'
<1>1. PICK x : x = idle[k][i]
  OBVIOUS
<1>2. /\ idle' = [idle EXCEPT ![k] = RemoveAt(@, i)]
      /\ open' = open \ {x}
      /\ UNCHANGED <<numActive, home, pc, key, conn, job, todo, tasks, missed, fires>>
      /\ IsIdle(x)
  BY <1>1 DEF Evict, jobVars, IsIdle
<1>3. PoolTypeOK /\ UniqueIdle
  BY DEF Inv, TypeOK, Exclusive
<1>4. /\ idle' \in [Keys -> Seq(Entries)]
      /\ \A l \in Keys : \A m \in 1..Len(idle'[l]) :
            \E j \in 1..Len(idle[l]) : idle'[l][m] = idle[l][j]
      /\ UniqueIdle'
  BY <1>1, <1>2, <1>3, EntryRemoved
<1>5. /\ x # NoConn => ~IsIdle(x)'
      /\ \A z : IsIdle(z) /\ z # x => IsIdle(z)'
  BY <1>1, <1>2, <1>3, EntryRemoved, Zenon
<1>6. TypeOK'
  BY <1>2, <1>3, <1>4 DEF Inv, TypeOK, PoolTypeOK, Entries
<1>7. StageOK' /\ Employed'
  BY <1>2 DEF Inv, StageOK, Employed
<1>8. IdleOK'
  <2> SUFFICES ASSUME NEW l \in Keys, NEW m \in 1..Len(idle'[l]), idle'[l][m] # NoConn
               PROVE  l # NoKey /\ idle'[l][m] \in open'
    BY DEF IdleOK
  <2>1. l # NoKey /\ idle'[l][m] \in open
    <3>1. PICK j \in 1..Len(idle[l]) : idle'[l][m] = idle[l][j]
      BY <1>4
    <3> QED BY <3>1 DEF Inv, IdleOK
  <2>2. idle'[l][m] # x
    BY <1>5 DEF IsIdle
  <2> QED BY <1>2, <2>1, <2>2
<1>9. Exclusive'
  <2>1. \A z : IsIdle(z)' => IsIdle(z)
    BY <1>4 DEF IsIdle
  <2>2. \A z : IsIdle(z)' /\ z # NoConn => \A d \in Clients : conn'[d] # z
    BY <1>2, <2>1, HeldNotIdle
  <2>3. \A c, d \in Clients : c # d /\ conn'[c] # NoConn => conn'[c] # conn'[d]
    BY <1>2 DEF Inv, Exclusive
  <2> QED BY <1>4, <2>2, <2>3, HeldNotIdleSuffices
<1>10. HeldOpen'
  BY <1>2, HeldNotIdle DEF Inv, HeldOpen
<1>11. NoLeak'
  BY <1>2, <1>5 DEF Inv, NoLeak
<1>12. RightServer'
  <2>1. \A l \in Keys : \A m \in 1..Len(idle'[l]) :
           idle'[l][m] # NoConn => home'[idle'[l][m]] = l
    <3> SUFFICES ASSUME NEW l \in Keys, NEW m \in 1..Len(idle'[l]), idle'[l][m] # NoConn
                 PROVE  home[idle'[l][m]] = l
      BY <1>2
    <3>1. PICK j \in 1..Len(idle[l]) : idle'[l][m] = idle[l][j]
      BY <1>4
    <3> QED BY <3>1 DEF Inv, RightServer
  <2> QED BY <1>2, <2>1 DEF Inv, RightServer
<1> QED BY <1>6, <1>7, <1>8, <1>9, <1>10, <1>11, <1>12 DEF Inv

-----------------------------------------------------------------------------
(* The theorems *)

LEMMA InvNext == Inv /\ [Next]_vars => Inv'
<1> SUFFICES ASSUME Inv, [Next]_vars PROVE Inv'
  OBVIOUS
<1>1. ASSUME NEW c \in Clients, Borrow(c), UNCHANGED jobVars PROVE Inv'
  BY <1>1, QuietBorrow, TakeIdleStep, ConnectStep, InvalidStep DEF Borrow
<1>2. ASSUME NEW t \in Threads, Execute(t) PROVE Inv'
  <2>1. t \in Clients
    BY DEF Clients
  <2>2. CASE Borrow(t) /\ UNCHANGED jobVars
    BY <1>1, <2>1, <2>2
  <2>3. ASSUME NEW s \in Servers,
               \/ TakeServer(t, s) \/ TakeAddressless(t, s)
               \/ TakeUnsampled(t, s) \/ TakeDbFails(t, s)
        PROVE  Inv'
    <3>1. s \in Keys /\ NoKey \in Keys
      BY DEF Keys
    <3>2. CASE TakeServer(t, s)
      BY <3>1, <3>2, QuietTake DEF TakeServer
    <3>3. CASE TakeAddressless(t, s)
      BY <3>1, <3>3, QuietTake DEF TakeAddressless
    <3>4. CASE TakeUnsampled(t, s)
      BY <3>1, <3>4, QuietTake DEF TakeUnsampled
    <3>5. CASE TakeDbFails(t, s)
      BY <3>1, <3>5, QuietTake DEF TakeDbFails
    <3> QED BY <2>3, <3>2, <3>3, <3>4, <3>5
  <2>4. CASE StartTask(t)
    BY <2>4, QuietTask
  <2>5. CASE UseFails(t) \/ RecordFailure(t) \/ RecordingFails(t)
    BY <2>1, <2>5, QuietHandler
  <2>6. CASE Finally(t)
    BY <2>6, FinallyStep
  <2> QED BY <1>2, <2>2, <2>3, <2>4, <2>5, <2>6 DEF Execute
<1>3. ASSUME NEW t \in Threads, NEW j \in Jobs, Fire(t, j) PROVE Inv'
  BY <1>3, QuietFire
<1>4. ASSUME NEW r \in Requests, Serve(r) PROVE Inv'
  <2>1. r \in Clients
    BY DEF Clients
  <2>2. CASE Borrow(r) /\ UNCHANGED jobVars
    BY <1>1, <2>1, <2>2
  <2>3. CASE Dump(r)
    BY <2>3, DumpStep
  <2>4. CASE UseFails(r) \/ RecordFailure(r) \/ RecordingFails(r)
    BY <2>1, <2>4, QuietHandler
  <2>5. CASE EndRequest(r)
    BY <2>5, EndRequestStep
  <2> QED BY <1>4, <2>2, <2>3, <2>4, <2>5 DEF Serve
<1>5. ASSUME NEW r \in Requests, NEW s \in Servers, DumpNow(r, s) PROVE Inv'
  BY <1>5, DumpNowStep
<1>6. ASSUME NEW j \in Jobs, NEW x \in Conns, EndTask(j, x) PROVE Inv'
  BY <1>6, QuietEnd
<1>7. ASSUME NEW k \in Keys, NEW i \in 1..Len(idle[k]), Evict(k, i), UNCHANGED jobVars
      PROVE  Inv'
  BY <1>7, EvictStep
<1>8. CASE UNCHANGED vars
  BY <1>8 DEF vars, poolVars, jobVars, Inv, TypeOK, PoolTypeOK, StageOK, Employed,
              IdleOK, Exclusive, UniqueIdle, HeldOpen, NoLeak, RightServer, IsIdle
<1> QED BY <1>2, <1>3, <1>4, <1>5, <1>6, <1>7, <1>8 DEF Next

(* Every reachable state satisfies the inductive invariant.                *)
THEOREM Invariance == Spec => []Inv
BY InvInit, InvNext, PTL DEF Spec

(* Every variable keeps its type, whatever clients, triggers, the evictor  *)
(* and failures do.                                                        *)
THEOREM TypeCorrect == Spec => []TypeOK
BY Invariance, PTL DEF Inv

(* Borrowing is exclusive: with any number of job threads and requests, no *)
(* connection has two users between borrowObject and returnObject.         *)
THEOREM BorrowingExclusive == Spec => []Exclusive
BY Invariance, PTL DEF Inv

(* A borrowed connection is not closed before it is returned.              *)
THEOREM BorrowedStaysOpen == Spec => []HeldOpen
BY Invariance, PTL DEF Inv

(* No connection leaks, on whatever path a borrower fails.                 *)
THEOREM NothingLeaks == Spec => []NoLeak
BY Invariance, PTL DEF Inv

(* A borrowed connection leads to the server it was borrowed for.          *)
THEOREM BorrowingRightServer == Spec => []RightServer
BY Invariance, PTL DEF Inv

-----------------------------------------------------------------------------
(* The pool implements Lease *)

Leased == {"held", "failed", "finally", "abort"}

LEMMA LeaseValue ==
    ASSUME Inv, NEW c \in Clients
    PROVE  /\ lease[c] = IF pc[c] \in Leased THEN conn[c] ELSE NoConn
           /\ lease'[c] = IF pc'[c] \in Leased THEN conn'[c] ELSE NoConn
BY DEF lease, Leased

\* lease is a function on the clients, and so is what becomes of it.
LEMMA LeaseFunction ==
    /\ lease = [c \in Clients |-> lease[c]]
    /\ lease' = [c \in Clients |-> lease'[c]]
BY DEF lease

LEMMA LeaseInit == Init => Leases!Init
BY DEF Init, PoolInit, Leases!Init, lease

\* A step that leaves every client's lease and the open connections alone.
LEMMA LeaseStutter ==
    ASSUME open' = open, \A c \in Clients : lease'[c] = lease[c]
    PROVE  UNCHANGED Leases!vars
<1>1. lease' = lease
  BY LeaseFunction
<1> QED BY <1>1 DEF Leases!vars

\* A step of one client c that neither acquires nor releases.
LEMMA LeaseKept ==
    ASSUME Inv, NEW c \in Clients, NEW stage \in Stages, GoTo(c, stage),
           UNCHANGED <<open, conn>>,
           conn[c] = NoConn \/ (pc[c] \in Leased /\ stage \in Leased)
    PROVE  UNCHANGED Leases!vars
<1>1. \A d \in Clients : lease'[d] = lease[d]
  BY LeaseValue DEF GoTo, Inv, TypeOK, PoolTypeOK
<1> QED BY <1>1, LeaseStutter

\* A connection that is closed while it is on lease to nobody.
LEMMA LeaseClosed ==
    ASSUME NEW x \in Conns \cup {NoConn}, Inv, open' = open \ {x},
           \A c \in Clients : lease'[c] = lease[c],
           x # NoConn => \A c \in Clients : lease[c] # x
    PROVE  [Leases!Next]_(Leases!vars)
<1>1. lease' = lease
  BY LeaseFunction
<1>2. CASE x = NoConn
  <2>1. open' = open
    BY <1>2, PoolAssumption DEF Inv, TypeOK, PoolTypeOK
  <2> QED BY <1>1, <2>1 DEF Leases!vars
<1>3. CASE x # NoConn
  <2>1. Leases!Close(x)
    BY <1>1, <1>3 DEF Leases!Close
  <2> QED BY <1>3, <2>1 DEF Leases!Next
<1> QED BY <1>2, <1>3

\* A client that returns what it has.
LEMMA LeaseReturned ==
    ASSUME Inv, NEW c \in Clients, pc[c] \in {"finally", "abort"},
           conn' = [conn EXCEPT ![c] = NoConn], open' = open,
           NEW stage \in Stages, GoTo(c, stage)
    PROVE  [Leases!Next]_(Leases!vars)
<1>1. /\ lease[c] = conn[c] /\ lease'[c] = NoConn
      /\ \A d \in Clients : d # c => lease'[d] = lease[d]
  BY LeaseValue DEF Inv, TypeOK, PoolTypeOK, GoTo, Leased
<1>2. CASE conn[c] = NoConn
  <2>1. \A d \in Clients : lease'[d] = lease[d]
    BY <1>1, <1>2
  <2> QED BY <2>1, LeaseStutter
<1>3. CASE conn[c] # NoConn
  <2>1. lease' = [lease EXCEPT ![c] = NoConn]
    BY <1>1, LeaseFunction
  <2>2. Leases!Release(c)
    BY <1>1, <1>3, <2>1 DEF Leases!Release
  <2> QED BY <2>2 DEF Leases!Next
<1> QED BY <1>2, <1>3

LEMMA LeaseBorrow ==
    ASSUME Inv, NEW c \in Clients, Borrow(c)
    PROVE  [Leases!Next]_(Leases!vars)
<1>1. CASE TakeIdle(c)
  <2>1. pc[c] \notin Leased /\ pc'[c] \notin Leased
    BY <1>1 DEF TakeIdle, GoTo, Inv, TypeOK, PoolTypeOK, Leased
  <2>2. \A d \in Clients : lease'[d] = lease[d]
    BY <1>1, <2>1, LeaseValue DEF TakeIdle, GoTo, Inv, TypeOK, PoolTypeOK
  <2> QED BY <1>1, <2>2, LeaseStutter DEF TakeIdle
<1>2. CASE MayCreate(c) \/ ConnectFails(c)
  <2>1. conn[c] = NoConn /\ UNCHANGED <<open, conn>>
    BY <1>2 DEF MayCreate, ConnectFails, Inv, StageOK
  <2>2. PICK stage \in Stages : GoTo(c, stage)
    BY <1>2 DEF MayCreate, ConnectFails, Stages
  <2> QED BY <2>1, <2>2, LeaseKept
<1>3. CASE Connect(c)
  <2>1. PICK x \in Conns : /\ home[x] = NoKey /\ open' = open \cup {x}
                           /\ conn' = [conn EXCEPT ![c] = x]
    BY <1>3 DEF Connect
  <2>2. pc[c] \notin Leased /\ pc'[c] \notin Leased
    BY <1>3 DEF Connect, GoTo, Inv, TypeOK, PoolTypeOK, Leased
  <2>3. \A d \in Clients : lease'[d] = lease[d]
    BY <1>3, <2>1, <2>2, LeaseValue DEF Connect, GoTo, Inv, TypeOK, PoolTypeOK
  <2>4. x \notin open
    <3>1. \A d \in Clients : conn[d] # x
      BY <2>1, PoolAssumption DEF Inv, RightServer, StageOK
    <3>2. ~IsIdle(x)
      BY <2>1, PoolAssumption DEF Inv, RightServer, IdleOK, IsIdle
    <3> QED BY <3>1, <3>2 DEF Inv, NoLeak
  <2>5. Leases!Connect(x)
    BY <2>1, <2>3, <2>4, LeaseFunction DEF Leases!Connect
  <2> QED BY <2>5 DEF Leases!Next
<1>4. CASE Valid(c)
  <2>1. PICK x : x = conn[c]
    OBVIOUS
  <2>2. /\ x \in open /\ x \in Conns /\ x # NoConn
        /\ UNCHANGED <<open, conn>> /\ GoTo(c, "held")
        /\ pc[c] \notin Leased
    BY <1>4, <2>1, PoolAssumption DEF Valid, Inv, TypeOK, PoolTypeOK, Leased
  <2>3. lease[c] = NoConn /\ lease'[c] = x
    BY <2>1, <2>2, LeaseValue DEF GoTo, Inv, TypeOK, PoolTypeOK, Leased
  <2>4. \A d \in Clients : d # c => lease'[d] = lease[d] /\ lease[d] # x
    BY <2>1, <2>2, LeaseValue DEF GoTo, Inv, TypeOK, PoolTypeOK, Exclusive
  <2>5. lease' = [lease EXCEPT ![c] = x]
    BY <2>3, <2>4, LeaseFunction
  <2>6. Leases!Acquire(c, x)
    BY <2>2, <2>3, <2>4, <2>5 DEF Leases!Acquire
  <2> QED BY <2>2, <2>6 DEF Leases!Next
<1>5. CASE Invalid(c)
  <2>1. PICK x : x = conn[c]
    OBVIOUS
  <2>2. /\ x \in Conns \cup {NoConn} /\ open' = open \ {x}
        /\ conn' = [conn EXCEPT ![c] = NoConn]
        /\ pc[c] \notin Leased
        /\ \A d \in Clients : d # c => pc'[d] = pc[d]
    BY <1>5, <2>1 DEF Invalid, GoTo, Inv, TypeOK, PoolTypeOK, Leased
  <2>3. \A d \in Clients : lease'[d] = lease[d]
    BY <2>2, LeaseValue DEF Inv, TypeOK, PoolTypeOK
  <2>4. x # NoConn => \A d \in Clients : lease[d] # x
    BY <2>1, <2>2, LeaseValue DEF Inv, Exclusive
  <2> QED BY <2>2, <2>3, <2>4, LeaseClosed
<1> QED BY <1>1, <1>2, <1>3, <1>4, <1>5 DEF Borrow

LEMMA LeaseEvict ==
    ASSUME Inv, NEW k \in Keys, NEW i \in 1..Len(idle[k]), Evict(k, i)
    PROVE  [Leases!Next]_(Leases!vars)
<1>1. PICK x : x = idle[k][i]
  OBVIOUS
<1>2. x \in Conns \cup {NoConn} /\ open' = open \ {x} /\ UNCHANGED <<pc, conn>>
  BY <1>1 DEF Evict, Inv, TypeOK, PoolTypeOK
<1>3. \A c \in Clients : lease'[c] = lease[c]
  BY <1>2, LeaseValue
<1>4. x # NoConn => \A c \in Clients : lease[c] # x
  BY <1>1, HeldNotIdle, LeaseValue DEF IsIdle
<1> QED BY <1>2, <1>3, <1>4, LeaseClosed

LEMMA LeaseNext == Inv /\ [Next]_vars => [Leases!Next]_(Leases!vars)
<1> SUFFICES ASSUME Inv, [Next]_vars PROVE [Leases!Next]_(Leases!vars)
  OBVIOUS
<1> DEFINE Step == [Leases!Next]_(Leases!vars)
<1>1. ASSUME NEW c \in Clients,
             UseFails(c) \/ RecordFailure(c) \/ RecordingFails(c)
      PROVE  Step
  <2>1. PICK stage \in Stages : GoTo(c, stage) /\ stage \in Leased
    BY <1>1 DEF UseFails, RecordFailure, RecordingFails, Stages, Leased
  <2>2. UNCHANGED <<open, conn>> /\ pc[c] \in Leased
    BY <1>1 DEF UseFails, RecordFailure, RecordingFails, Leased
  <2> QED BY <1>1, <2>1, <2>2, LeaseKept
<1>2. ASSUME NEW t \in Threads, Execute(t) PROVE Step
  <2>1. t \in Clients
    BY DEF Clients
  <2>2. CASE Borrow(t)
    BY <2>1, <2>2, LeaseBorrow
  <2>3. ASSUME NEW s \in Servers,
               \/ TakeServer(t, s) \/ TakeAddressless(t, s)
               \/ TakeUnsampled(t, s) \/ TakeDbFails(t, s)
        PROVE  Step
    <3>1. PICK stage \in Stages : GoTo(t, stage)
      BY <2>3 DEF TakeServer, TakeAddressless, TakeUnsampled, TakeDbFails, Take, Stages
    <3>2. pc[t] = "next" /\ UNCHANGED <<open, conn>>
      BY <2>3 DEF TakeServer, TakeAddressless, TakeUnsampled, TakeDbFails, Take
    <3> QED BY <2>1, <3>1, <3>2, LeaseKept DEF Inv, StageOK
  <2>4. CASE StartTask(t)
    BY <2>1, <2>4, LeaseKept DEF StartTask, Stages, Leased
  <2>5. CASE UseFails(t) \/ RecordFailure(t) \/ RecordingFails(t)
    BY <1>1, <2>1, <2>5
  <2>6. CASE Finally(t)
    <3>1. PICK stage \in Stages : GoTo(t, stage)
      BY <2>6 DEF Finally, Stages
    <3> QED BY <2>1, <2>6, <3>1, LeaseReturned DEF Finally
  <2> QED BY <1>2, <2>2, <2>3, <2>4, <2>5, <2>6 DEF Execute
<1>3. ASSUME NEW t \in Threads, NEW j \in Jobs, Fire(t, j) PROVE Step
  <2>1. t \in Clients /\ GoTo(t, "next") /\ "next" \in Stages /\ pc[t] = "idle"
        /\ UNCHANGED <<open, conn>>
    BY <1>3 DEF Fire, Clients, Stages
  <2> QED BY <2>1, LeaseKept DEF Inv, StageOK
<1>4. ASSUME NEW r \in Requests, Serve(r) PROVE Step
  <2>1. r \in Clients
    BY DEF Clients
  <2>2. CASE Borrow(r)
    BY <2>1, <2>2, LeaseBorrow
  <2>3. CASE Dump(r)
    BY <2>1, <2>3, LeaseKept DEF Dump, Stages, Leased
  <2>4. CASE UseFails(r) \/ RecordFailure(r) \/ RecordingFails(r)
    BY <1>1, <2>1, <2>4
  <2>5. CASE EndRequest(r)
    BY <2>1, <2>5, LeaseReturned DEF EndRequest, Stages
  <2> QED BY <1>4, <2>2, <2>3, <2>4, <2>5 DEF Serve
<1>5. ASSUME NEW r \in Requests, NEW s \in Servers, DumpNow(r, s) PROVE Step
  <2>1. PICK stage \in Stages : GoTo(r, stage)
    BY <1>5 DEF DumpNow, Stages
  <2>2. r \in Clients /\ pc[r] = "idle" /\ UNCHANGED <<open, conn>>
    BY <1>5 DEF DumpNow, Clients
  <2> QED BY <2>1, <2>2, LeaseKept DEF Inv, StageOK
<1>6. ASSUME NEW k \in Keys, NEW i \in 1..Len(idle[k]), Evict(k, i) PROVE Step
  BY <1>6, LeaseEvict
<1>7. CASE UNCHANGED <<open, pc, conn>>
  <2>1. \A c \in Clients : lease'[c] = lease[c]
    BY <1>7, LeaseValue
  <2> QED BY <1>7, <2>1, LeaseStutter
<1>8. ASSUME NEW j \in Jobs, NEW x \in Conns, EndTask(j, x) PROVE Step
  BY <1>7, <1>8 DEF EndTask, poolVars
<1>9. CASE UNCHANGED vars
  BY <1>7, <1>9 DEF vars, poolVars
<1> QED BY <1>2, <1>3, <1>4, <1>5, <1>6, <1>8, <1>9 DEF Next

(* The pool with its jobs and requests implements the exclusive lease:     *)
(* whatever the entries, nulls, evictions and failures do, a user of the   *)
(* pool sees connections leased to one client and closed only when free.   *)
THEOREM ImplementsLease == Spec => LeaseSpec
<1>1. Inv /\ [Next]_vars => [Leases!Next]_(Leases!vars)
  BY LeaseNext
<1>2. Init => Leases!Init
  BY LeaseInit
<1> QED BY <1>1, <1>2, Invariance, PTL DEF Spec, LeaseSpec, Leases!Spec

-----------------------------------------------------------------------------
(* Servers that are missed *)

\* Only a failing database leads to the exception that leaves execute.
NoAbort == ~DbMayFail => missed = {} /\ \A c \in Clients : pc[c] # "abort"

\* A step of one client to another stage that leaves missed alone.
LEMMA NoAbortStage ==
    ASSUME Inv, NoAbort, NEW c \in Clients, NEW stage, pc' = [pc EXCEPT ![c] = stage],
           missed' = missed, ~DbMayFail => stage # "abort"
    PROVE  NoAbort'
<1>1. pc \in [Clients -> Stages]
  BY DEF Inv, TypeOK, PoolTypeOK
<1> QED BY <1>1 DEF NoAbort

LEMMA NoAbortBorrow ==
    ASSUME Inv, NoAbort, NEW c \in Clients, Borrow(c), UNCHANGED jobVars
    PROVE  NoAbort'
<1>1. missed' = missed
  BY DEF jobVars
<1>2. \E stage : stage # "abort" /\ pc' = [pc EXCEPT ![c] = stage]
  <2>1. CASE Invalid(c)
    BY <2>1 DEF Invalid, GoTo
  <2>2. CASE ~Invalid(c)
    BY <2>2 DEF Borrow, TakeIdle, MayCreate, Connect, ConnectFails, Valid, GoTo
  <2> QED BY <2>1, <2>2
<1> QED BY <1>1, <1>2, NoAbortStage

LEMMA NoAbortHandler ==
    ASSUME Inv, NoAbort, NEW c \in Clients,
           UseFails(c) \/ RecordFailure(c) \/ RecordingFails(c)
    PROVE  NoAbort'
<1>1. missed' = missed
  BY DEF UseFails, RecordFailure, RecordingFails, jobVars
<1>2. \E stage : (~DbMayFail => stage # "abort") /\ pc' = [pc EXCEPT ![c] = stage]
  BY DEF UseFails, RecordFailure, RecordingFails, GoTo
<1> QED BY <1>1, <1>2, NoAbortStage

LEMMA NoAbortFinally ==
    ASSUME Inv, NoAbort, NEW t \in Threads, Finally(t)
    PROVE  NoAbort'
<1>1. t \in Clients /\ pc \in [Clients -> Stages]
  BY DEF Clients, Inv, TypeOK, PoolTypeOK
<1>2. SUFFICES ASSUME ~DbMayFail PROVE missed' = {} /\ \A c \in Clients : pc'[c] # "abort"
  BY DEF NoAbort
<1>3. missed = {} /\ \A c \in Clients : pc[c] # "abort"
  BY <1>2 DEF NoAbort
<1>4. missed' = {}
  BY <1>1, <1>3 DEF Finally
<1>5. \E stage \in {"idle", "next"} : pc' = [pc EXCEPT ![t] = stage]
  BY DEF Finally, GoTo
<1> QED BY <1>1, <1>3, <1>4, <1>5

LEMMA NoAbortNext == Inv /\ NoAbort /\ [Next]_vars => NoAbort'
<1> SUFFICES ASSUME Inv, NoAbort, [Next]_vars PROVE NoAbort'
  OBVIOUS
<1>1. ASSUME NEW t \in Threads, Execute(t) PROVE NoAbort'
  <2>1. t \in Clients
    BY DEF Clients
  <2>2. CASE Borrow(t) /\ UNCHANGED jobVars
    BY <2>1, <2>2, NoAbortBorrow
  <2>3. ASSUME NEW s \in Servers,
               \/ TakeServer(t, s) \/ TakeAddressless(t, s)
               \/ TakeUnsampled(t, s) \/ TakeDbFails(t, s)
        PROVE  NoAbort'
    <3>1. missed' = missed
      BY <2>3 DEF TakeServer, TakeAddressless, TakeUnsampled, TakeDbFails, Take
    <3>2. \E stage : (~DbMayFail => stage # "abort") /\ pc' = [pc EXCEPT ![t] = stage]
      BY <2>3 DEF TakeServer, TakeAddressless, TakeUnsampled, TakeDbFails, Take, GoTo
    <3> QED BY <2>1, <3>1, <3>2, NoAbortStage
  <2>4. CASE StartTask(t)
    BY <2>1, <2>4, NoAbortStage DEF StartTask, GoTo
  <2>5. CASE UseFails(t) \/ RecordFailure(t) \/ RecordingFails(t)
    BY <2>1, <2>5, NoAbortHandler
  <2>6. CASE Finally(t)
    BY <2>6, NoAbortFinally
  <2> QED BY <1>1, <2>2, <2>3, <2>4, <2>5, <2>6 DEF Execute
<1>2. ASSUME NEW t \in Threads, NEW j \in Jobs, Fire(t, j) PROVE NoAbort'
  <2>1. t \in Clients
    BY DEF Clients
  <2> QED BY <1>2, <2>1, NoAbortStage DEF Fire, GoTo
<1>3. ASSUME NEW r \in Requests, Serve(r) PROVE NoAbort'
  <2>1. r \in Clients
    BY DEF Clients
  <2>2. CASE Borrow(r) /\ UNCHANGED jobVars
    BY <2>1, <2>2, NoAbortBorrow
  <2>3. CASE Dump(r)
    BY <2>1, <2>3, NoAbortStage DEF Dump, GoTo, jobVars
  <2>4. CASE UseFails(r) \/ RecordFailure(r) \/ RecordingFails(r)
    BY <2>1, <2>4, NoAbortHandler
  <2>5. CASE EndRequest(r)
    BY <2>1, <2>5, NoAbortStage DEF EndRequest, GoTo, jobVars
  <2> QED BY <1>3, <2>2, <2>3, <2>4, <2>5 DEF Serve
<1>4. ASSUME NEW r \in Requests, NEW s \in Servers, DumpNow(r, s) PROVE NoAbort'
  <2>1. r \in Clients
    BY DEF Clients
  <2> QED BY <1>4, <2>1, NoAbortStage DEF DumpNow, GoTo, jobVars
<1>5. ASSUME NEW j \in Jobs, NEW x \in Conns, EndTask(j, x) PROVE NoAbort'
  BY <1>5 DEF EndTask, poolVars, NoAbort
<1>6. ASSUME NEW k \in Keys, NEW i \in 1..Len(idle[k]), Evict(k, i), UNCHANGED jobVars
      PROVE  NoAbort'
  BY <1>6 DEF Evict, jobVars, NoAbort
<1>7. CASE UNCHANGED vars
  BY <1>7 DEF vars, poolVars, jobVars, NoAbort
<1> QED BY <1>1, <1>2, <1>3, <1>4, <1>5, <1>6, <1>7 DEF Next

(* As long as the database answers, no server of a list is left out,       *)
(* however many of them are down or have no address or samples.            *)
THEOREM NothingIsMissed == Spec => []NothingMissed
<1>1. Init => NoAbort
  BY DEF Init, PoolInit, NoAbort
<1>2. NoAbort => NothingMissed
  BY DEF NoAbort, NothingMissed
<1> QED BY <1>1, <1>2, NoAbortNext, Invariance, PTL DEF Spec

-----------------------------------------------------------------------------
(* The counter *)

LEMMA InUseFinite == IsFiniteSet(InUse) /\ Cardinality(InUse) \in Nat
<1>1. InUse \subseteq Clients
  BY DEF InUse
<1>2. IsFiniteSet(InUse)
  BY <1>1, ClientsAssumption, FS_Subset
<1> QED BY <1>2, FS_CardinalityType

LEMMA InUseFiniteNext == IsFiniteSet(InUse') /\ Cardinality(InUse') \in Nat
<1>1. InUse' \subseteq Clients
  BY DEF InUse
<1>2. IsFiniteSet(InUse')
  BY <1>1, ClientsAssumption, FS_Subset
<1> QED BY <1>2, FS_CardinalityType

\* A step of one client: the counter follows the connections in use, or is
\* lowered when it need not be.
LEMMA CounterStep ==
    ASSUME Inv, NumActiveNeverOverstates, NEW c \in Clients,
           \A d \in Clients : d # c => pc'[d] = pc[d] /\ conn'[d] = conn[d],
           \/ numActive' = numActive /\ (c \in InUse => c \in InUse')
           \/ numActive' = numActive + 1 /\ c \notin InUse /\ c \in InUse'
           \/ numActive' = numActive - 1
    PROVE  NumActiveNeverOverstates'
<1> DEFINE use == InUse
           nextUse == InUse'
<1>1. /\ \A d \in Clients : d # c => (d \in use <=> d \in nextUse)
      /\ use \subseteq Clients
  BY DEF InUse
<1>2. /\ IsFiniteSet(use) /\ IsFiniteSet(nextUse)
      /\ Cardinality(use) \in Nat /\ Cardinality(nextUse) \in Nat
  BY InUseFinite, InUseFiniteNext
<1>3. numActive \in Int /\ numActive <= Cardinality(use)
  BY DEF Inv, TypeOK, PoolTypeOK, NumActiveNeverOverstates
<1>4. /\ NumActiveNeverOverstates' <=> numActive' <= Cardinality(nextUse)
      /\ \/ numActive' = numActive /\ (c \in use => c \in nextUse)
         \/ numActive' = numActive + 1 /\ c \notin use /\ c \in nextUse
         \/ numActive' = numActive - 1
  BY DEF NumActiveNeverOverstates
<1> HIDE DEF use, nextUse
<1>5. CASE numActive' = numActive /\ (c \in use => c \in nextUse)
  <2>1. use \subseteq nextUse
    BY <1>1, <1>5
  <2>2. Cardinality(use) <= Cardinality(nextUse)
    BY <1>2, <2>1, FS_Subset
  <2> QED BY <1>2, <1>3, <1>4, <1>5, <2>2
<1>6. CASE numActive' = numActive + 1 /\ c \notin use /\ c \in nextUse
  <2>1. use \cup {c} \subseteq nextUse
    BY <1>1, <1>6
  <2>2. Cardinality(use \cup {c}) = Cardinality(use) + 1
    BY <1>2, <1>6, FS_AddElement
  <2>3. Cardinality(use \cup {c}) <= Cardinality(nextUse)
    BY <1>2, <2>1, FS_Subset
  <2> QED BY <1>2, <1>3, <1>4, <1>6, <2>2, <2>3
<1>7. CASE numActive' = numActive - 1
  <2>1. use \ {c} \subseteq nextUse
    BY <1>1
  <2>2. Cardinality(use \ {c}) >= Cardinality(use) - 1 /\ Cardinality(use \ {c}) \in Int
    <3>1. Cardinality(use \ {c}) = IF c \in use THEN Cardinality(use) - 1 ELSE Cardinality(use)
      BY <1>2, FS_RemoveElement, Zenon
    <3> QED BY <1>2, <3>1
  <2>3. Cardinality(use \ {c}) <= Cardinality(nextUse)
    BY <1>2, <2>1, FS_Subset
  <2> QED BY <1>2, <1>3, <1>4, <1>7, <2>2, <2>3
<1> QED BY <1>4, <1>5, <1>6, <1>7

\* A step that leaves the counter, the stages and the connectors alone.
LEMMA CounterKept ==
    ASSUME NumActiveNeverOverstates, numActive' = numActive, pc' = pc, conn' = conn
    PROVE  NumActiveNeverOverstates'
<1>1. InUse' = InUse
  BY DEF InUse
<1> QED BY <1>1 DEF NumActiveNeverOverstates

\* A step of a client that has no connection in use to a stage in which it has
\* none either, or of one that keeps what it has.
LEMMA CounterStage ==
    ASSUME Inv, NumActiveNeverOverstates, NEW c \in Clients, NEW stage,
           pc' = [pc EXCEPT ![c] = stage], numActive' = numActive,
           \/ conn' = conn /\ stage \in {"held", "failed", "finally", "abort"}
           \/ c \notin InUse /\ \E x : conn' = [conn EXCEPT ![c] = x]
    PROVE  NumActiveNeverOverstates'
<1>1. pc \in [Clients -> Stages] /\ conn \in [Clients -> Conns \cup {NoConn}]
  BY DEF Inv, TypeOK, PoolTypeOK
<1>2. \A d \in Clients : d # c => pc'[d] = pc[d] /\ conn'[d] = conn[d]
  BY <1>1
<1>3. c \in InUse => c \in InUse'
  BY <1>1 DEF InUse
<1> QED BY <1>2, <1>3, CounterStep

LEMMA CounterBorrow ==
    ASSUME Inv, NumActiveNeverOverstates, NEW c \in Clients, Borrow(c)
    PROVE  NumActiveNeverOverstates'
<1>1. pc \in [Clients -> Stages] /\ conn \in [Clients -> Conns \cup {NoConn}]
  BY DEF Inv, TypeOK, PoolTypeOK
<1>2. c \notin InUse
  BY DEF Borrow, TakeIdle, MayCreate, Connect, ConnectFails, Valid, Invalid, InUse
<1>3. conn = [conn EXCEPT ![c] = conn[c]]
  BY <1>1
<1>4. CASE TakeIdle(c)
  BY <1>2, <1>4, CounterStage DEF TakeIdle, GoTo
<1>5. CASE MayCreate(c) \/ ConnectFails(c)
  BY <1>2, <1>3, <1>5, CounterStage DEF MayCreate, ConnectFails, GoTo
<1>6. CASE Connect(c)
  BY <1>2, <1>6, CounterStage DEF Connect, GoTo
<1>7. CASE Invalid(c)
  BY <1>2, <1>7, CounterStage DEF Invalid, GoTo
<1>8. CASE Valid(c)
  <2>1. /\ pc' = [pc EXCEPT ![c] = "held"] /\ conn' = conn
        /\ numActive' = numActive + 1 /\ conn[c] \in open
    BY <1>8 DEF Valid, GoTo
  <2>2. open \subseteq Conns
    BY DEF Inv, TypeOK, PoolTypeOK
  <2>3. c \in InUse'
    BY <1>1, <2>1, <2>2, PoolAssumption DEF InUse
  <2> QED BY <1>1, <1>2, <2>1, <2>3, CounterStep
<1> QED BY <1>4, <1>5, <1>6, <1>7, <1>8 DEF Borrow

\* UseFails, the handler, and the steps that start to use a connection.
LEMMA CounterHandler ==
    ASSUME Inv, NumActiveNeverOverstates, NEW c \in Clients,
           \/ UseFails(c) \/ RecordFailure(c) \/ RecordingFails(c)
           \/ StartTask(c) \/ Dump(c)
    PROVE  NumActiveNeverOverstates'
<1>1. /\ numActive' = numActive /\ conn' = conn
      /\ \E stage \in {"failed", "finally", "abort"} : pc' = [pc EXCEPT ![c] = stage]
  BY DEF UseFails, RecordFailure, RecordingFails, StartTask, Dump, GoTo
<1> QED BY <1>1, CounterStage

\* The end of a client's use: the counter goes down, or there was no connection.
LEMMA CounterReturn ==
    ASSUME Inv, NumActiveNeverOverstates, NEW c \in Clients,
           \/ c \in Threads /\ Finally(c)
           \/ c \in Requests /\ EndRequest(c)
    PROVE  NumActiveNeverOverstates'
<1>1. pc \in [Clients -> Stages] /\ conn \in [Clients -> Conns \cup {NoConn}]
  BY DEF Inv, TypeOK, PoolTypeOK
<1>2. /\ \E stage : pc' = [pc EXCEPT ![c] = stage]
      /\ conn' = [conn EXCEPT ![c] = NoConn]
      /\ \/ numActive' = numActive - 1
         \/ numActive' = numActive /\ conn[c] = NoConn
  BY DEF Finally, EndRequest, ReturnObject, GoTo
<1>3. \A d \in Clients : d # c => pc'[d] = pc[d] /\ conn'[d] = conn[d]
  BY <1>1, <1>2
<1>4. conn[c] = NoConn => c \notin InUse
  BY DEF InUse
<1> QED BY <1>2, <1>3, <1>4, CounterStep

\* Where an execution begins or goes on with the next server.
LEMMA CounterBegin ==
    ASSUME Inv, NumActiveNeverOverstates, NEW c \in Clients,
           pc[c] \in {"idle", "next"}, \E stage : pc' = [pc EXCEPT ![c] = stage],
           conn' = conn, numActive' = numActive
    PROVE  NumActiveNeverOverstates'
<1>1. c \notin InUse
  BY DEF InUse
<1>2. \A d \in Clients : d # c => pc'[d] = pc[d]
  BY DEF Inv, TypeOK, PoolTypeOK
<1> QED BY <1>1, <1>2, CounterStep

LEMMA CounterNext ==
    Inv /\ NumActiveNeverOverstates /\ [Next]_vars => NumActiveNeverOverstates'
<1> SUFFICES ASSUME Inv, NumActiveNeverOverstates, [Next]_vars
             PROVE  NumActiveNeverOverstates'
  OBVIOUS
<1>1. \A c \in Threads \cup Requests : c \in Clients
  BY DEF Clients
<1>2. ASSUME NEW t \in Threads, Execute(t) PROVE NumActiveNeverOverstates'
  <2>1. ASSUME NEW s \in Servers,
               \/ TakeServer(t, s) \/ TakeAddressless(t, s)
               \/ TakeUnsampled(t, s) \/ TakeDbFails(t, s)
        PROVE  NumActiveNeverOverstates'
    <3>1. pc[t] = "next" /\ conn' = conn /\ numActive' = numActive
      BY <2>1 DEF TakeServer, TakeAddressless, TakeUnsampled, TakeDbFails, Take
    <3>2. \E stage : pc' = [pc EXCEPT ![t] = stage]
      BY <2>1 DEF TakeServer, TakeAddressless, TakeUnsampled, TakeDbFails, Take, GoTo
    <3> QED BY <1>1, <3>1, <3>2, CounterBegin
  <2> QED BY <1>1, <1>2, <2>1, CounterBorrow, CounterHandler, CounterReturn DEF Execute
<1>3. ASSUME NEW t \in Threads, NEW j \in Jobs, Fire(t, j) PROVE NumActiveNeverOverstates'
  BY <1>1, <1>3, CounterBegin DEF Fire, GoTo
<1>4. ASSUME NEW r \in Requests, Serve(r) PROVE NumActiveNeverOverstates'
  BY <1>1, <1>4, CounterBorrow, CounterHandler, CounterReturn DEF Serve
<1>5. ASSUME NEW r \in Requests, NEW s \in Servers, DumpNow(r, s)
      PROVE  NumActiveNeverOverstates'
  BY <1>1, <1>5, CounterBegin DEF DumpNow, GoTo
<1>6. ASSUME NEW j \in Jobs, NEW x \in Conns, EndTask(j, x) PROVE NumActiveNeverOverstates'
  BY <1>6, CounterKept DEF EndTask, poolVars
<1>7. ASSUME NEW k \in Keys, NEW i \in 1..Len(idle[k]), Evict(k, i), UNCHANGED jobVars
      PROVE  NumActiveNeverOverstates'
  BY <1>7, CounterKept DEF Evict
<1>8. CASE UNCHANGED vars
  BY <1>8, CounterKept DEF vars, poolVars
<1> QED BY <1>2, <1>3, <1>4, <1>5, <1>6, <1>7, <1>8 DEF Next

(* NumActive never shows more connections than are in use, whatever fails  *)
(* between a borrow and its return.                                        *)
THEOREM NumActiveIsNeverTooHigh == Spec => []NumActiveNeverOverstates
<1>1. Init => NumActiveNeverOverstates
  BY InUseFinite DEF Init, PoolInit, NumActiveNeverOverstates
<1> QED BY <1>1, CounterNext, Invariance, PTL DEF Spec

-----------------------------------------------------------------------------
(* Nulls among the idle entries *)

NullsOf(e) == {i \in 1..Len(e) : e[i] = NoConn}

LEMMA NullsFinite ==
    ASSUME NEW e \in Seq(Entries)
    PROVE  IsFiniteSet(NullsOf(e)) /\ Cardinality(NullsOf(e)) \in Nat
<1>1. Len(e) \in Nat
  OBVIOUS
<1>2. IsFiniteSet(1..Len(e))
  BY <1>1, FS_Interval
<1>3. IsFiniteSet(NullsOf(e))
  BY <1>2, FS_Subset DEF NullsOf
<1> QED BY <1>3, FS_CardinalityType

LEMMA NullsRemoved ==
    ASSUME NEW e \in Seq(Entries), NEW p \in 1..Len(e)
    PROVE  Cardinality(NullsOf(RemoveAt(e, p))) <= Cardinality(NullsOf(e))
<1> DEFINE r == RemoveAt(e, p)
           f == [i \in NullsOf(r) |-> IF i < p THEN i ELSE i + 1]
<1>1. /\ r \in Seq(Entries) /\ Len(r) = Len(e) - 1
      /\ \A j \in 1..(Len(e) - 1) : r[j] = IF j < p THEN e[j] ELSE e[j + 1]
  BY RemoveAtFacts
<1>2. Len(e) \in Nat /\ p \in Nat
  OBVIOUS
<1> HIDE DEF r
<1>3. \A i \in NullsOf(r) : i \in Nat /\ (IF i < p THEN i ELSE i + 1) \in NullsOf(e)
  BY <1>1, <1>2 DEF NullsOf
<1>4. f \in Injection(NullsOf(r), NullsOf(e))
  <2>1. f \in [NullsOf(r) -> NullsOf(e)]
    BY <1>3
  <2>2. \A i, j \in NullsOf(r) : f[i] = f[j] => i = j
    BY <1>2, <1>3
  <2> HIDE DEF f
  <2> QED BY <2>1, <2>2 DEF Injection, IsInjective
<1>5. IsFiniteSet(NullsOf(e))
  BY NullsFinite
<1> HIDE DEF f
<1>6. Cardinality(NullsOf(r)) <= Cardinality(NullsOf(e))
  BY <1>4, <1>5, FS_Injection
<1> QED BY <1>6 DEF r

LEMMA NullsAdded ==
    ASSUME NEW e \in Seq(Entries), NEW x \in Entries
    PROVE  /\ Cardinality(NullsOf(Cons(x, e))) <= Cardinality(NullsOf(e)) + 1
           /\ x # NoConn => Cardinality(NullsOf(Cons(x, e))) <= Cardinality(NullsOf(e))
<1> DEFINE r == Cons(x, e)
           A == NullsOf(r) \ {1}
           f == [i \in A |-> i - 1]
<1>1. /\ r \in Seq(Entries) /\ Len(r) = Len(e) + 1
      /\ \A i \in 1..(Len(e) + 1) : r[i] = IF i = 1 THEN x ELSE e[i - 1]
  BY ConsFacts
<1>2. Len(e) \in Nat
  OBVIOUS
<1> HIDE DEF r
<1>3. \A i \in A : i \in Nat /\ i - 1 \in NullsOf(e)
  BY <1>1, <1>2 DEF NullsOf
<1>4. 1 \in NullsOf(r) <=> x = NoConn
  BY <1>1, <1>2 DEF NullsOf
<1>5. f \in Injection(A, NullsOf(e))
  <2>1. f \in [A -> NullsOf(e)]
    BY <1>3
  <2>2. \A i, j \in A : f[i] = f[j] => i = j
    BY <1>3
  <2> HIDE DEF f, A
  <2> QED BY <2>1, <2>2 DEF Injection, IsInjective
<1>6. /\ IsFiniteSet(NullsOf(e)) /\ Cardinality(NullsOf(e)) \in Nat
      /\ IsFiniteSet(NullsOf(r)) /\ Cardinality(NullsOf(r)) \in Nat
  BY <1>1, NullsFinite
<1>7. Cardinality(A) = IF 1 \in NullsOf(r) THEN Cardinality(NullsOf(r)) - 1
                                           ELSE Cardinality(NullsOf(r))
  BY <1>6, FS_RemoveElement, Zenon
<1> HIDE DEF f, A
<1>8. Cardinality(A) <= Cardinality(NullsOf(e))
  BY <1>5, <1>6, FS_Injection
<1>9. /\ Cardinality(NullsOf(r)) <= Cardinality(NullsOf(e)) + 1
      /\ x # NoConn => Cardinality(NullsOf(r)) <= Cardinality(NullsOf(e))
  BY <1>4, <1>6, <1>7, <1>8
<1> QED BY <1>9 DEF r

\* The threads that may still return a null to server s.  They have found no
\* idle entry when they began to connect.
Failing(s) ==
    {t \in Threads :
        /\ key[t] = s
        /\ \/ pc[t] \in {"connect", "checkNew"}
           \/ pc[t] \in {"failed", "finally", "abort"} /\ conn[t] = NoConn}

NullsCounted ==
    \A s \in Servers :
        Cardinality(Nulls(s)) + Cardinality(Failing(s)) <= Cardinality(Threads)

LEMMA FailingFinite ==
    ASSUME NEW s
    PROVE  /\ IsFiniteSet(Failing(s)) /\ Cardinality(Failing(s)) \in Nat
           /\ Cardinality(Failing(s)) <= Cardinality(Threads)
           /\ Cardinality(Threads) \in Nat
<1>1. IsFiniteSet(Threads)
  BY ClientsAssumption, FS_Subset DEF Clients
<1>2. Failing(s) \subseteq Threads
  BY DEF Failing
<1>3. IsFiniteSet(Failing(s)) /\ Cardinality(Failing(s)) <= Cardinality(Threads)
  BY <1>1, <1>2, FS_Subset
<1> QED BY <1>1, <1>3, FS_CardinalityType

LEMMA FailingFiniteNext ==
    ASSUME NEW s
    PROVE  /\ IsFiniteSet(Failing(s)') /\ Cardinality(Failing(s)') \in Nat
           /\ Cardinality(Failing(s)') <= Cardinality(Threads)
<1>1. IsFiniteSet(Threads)
  BY ClientsAssumption, FS_Subset DEF Clients
<1>2. Failing(s)' \subseteq Threads
  BY DEF Failing
<1>3. IsFiniteSet(Failing(s)') /\ Cardinality(Failing(s)') <= Cardinality(Threads)
  BY <1>1, <1>2, FS_Subset
<1> QED BY <1>3, FS_CardinalityType

\* A step at one server: no null more and no thread more that may return one,
\* or no null at all, or one null more and one thread less.
LEMMA CountedStep ==
    ASSUME Inv, TypeOK', NullsCounted, NEW s \in Servers,
           \/ /\ Cardinality(Nulls(s)') <= Cardinality(Nulls(s))
              /\ Failing(s)' \subseteq Failing(s)
           \/ idle'[s] = <<>>
           \/ /\ Cardinality(Nulls(s)') <= Cardinality(Nulls(s)) + 1
              /\ \E t \in Failing(s) : Failing(s)' \subseteq Failing(s) \ {t}
    PROVE  Cardinality(Nulls(s)') + Cardinality(Failing(s)') <= Cardinality(Threads)
<1>1. PICK n \in Nat, m \in Nat :
         /\ n = Cardinality(Nulls(s)) /\ m = Cardinality(Nulls(s)')
         /\ idle'[s] = <<>> => m = 0
  <2>1. s \in Keys /\ idle[s] \in Seq(Entries) /\ idle'[s] \in Seq(Entries)
    BY DEF Keys, Inv, TypeOK, PoolTypeOK, Entries
  <2>2. Nulls(s) = NullsOf(idle[s]) /\ Nulls(s)' = NullsOf(idle'[s])
    BY DEF Nulls, NullsOf
  <2>3. Cardinality(Nulls(s)) \in Nat /\ Cardinality(Nulls(s)') \in Nat
    BY <2>1, <2>2, NullsFinite
  <2>4. idle'[s] = <<>> => Nulls(s)' = {}
    BY <2>2 DEF NullsOf
  <2> QED BY <2>3, <2>4, FS_EmptySet
<1>2. PICK all \in Nat, f \in Nat, g \in Nat :
         /\ all = Cardinality(Threads) /\ f = Cardinality(Failing(s))
         /\ g = Cardinality(Failing(s)') /\ g <= all
  BY FailingFinite, FailingFiniteNext
<1>3. n + f <= all
  BY <1>1, <1>2 DEF NullsCounted
<1>4. CASE m <= n /\ Failing(s)' \subseteq Failing(s)
  <2>1. g <= f
    BY <1>2, <1>4, FailingFinite, FS_Subset
  <2> QED BY <1>1, <1>2, <1>3, <1>4, <2>1
<1>5. CASE idle'[s] = <<>>
  BY <1>1, <1>2, <1>5
<1>6. ASSUME m <= n + 1, NEW t \in Failing(s), Failing(s)' \subseteq Failing(s) \ {t}
      PROVE  m + g <= all
  <2>1. /\ IsFiniteSet(Failing(s) \ {t})
        /\ Cardinality(Failing(s) \ {t}) = f - 1
    BY <1>2, FailingFinite, FS_RemoveElement
  <2>2. g <= f - 1
    BY <1>2, <1>6, <2>1, FS_Subset
  <2> QED BY <1>3, <1>6, <2>2
<1> QED BY <1>1, <1>2, <1>4, <1>5, <1>6

\* Calm: no null more and no thread more that may return one.
LEMMA CountedCalm ==
    ASSUME Inv, TypeOK', NullsCounted,
           \A s \in Keys : Cardinality(Nulls(s)') <= Cardinality(Nulls(s)),
           \A s \in Servers : Failing(s)' \subseteq Failing(s)
    PROVE  NullsCounted'
BY CountedStep DEF NullsCounted, Keys

LEMMA NullsOfIdle ==
    ASSUME Inv, NEW s \in Keys
    PROVE  /\ idle \in [Keys -> Seq(Entries)]
           /\ idle[s] \in Seq(Entries)
           /\ Nulls(s) = NullsOf(idle[s])
           /\ Nulls(s)' = NullsOf(idle'[s])
           /\ Cardinality(Nulls(s)) \in Nat
<1>1. idle \in [Keys -> Seq(Entries)]
  BY DEF Inv, TypeOK, PoolTypeOK, Entries
<1>2. Nulls(s) = NullsOf(idle[s]) /\ Nulls(s)' = NullsOf(idle'[s])
  BY DEF Nulls, NullsOf
<1> QED BY <1>1, <1>2, NullsFinite

LEMMA IdleKept ==
    ASSUME Inv, idle' = idle
    PROVE  \A s \in Keys : Cardinality(Nulls(s)') <= Cardinality(Nulls(s))
<1> SUFFICES ASSUME NEW s \in Keys
             PROVE  Cardinality(Nulls(s)') <= Cardinality(Nulls(s))
  OBVIOUS
<1>2. Nulls(s)' = Nulls(s) /\ Cardinality(Nulls(s)) \in Nat
  BY NullsOfIdle
<1> QED BY <1>2

LEMMA IdleRemoved ==
    ASSUME Inv, NEW k \in Keys, NEW p \in 1..Len(idle[k]),
           idle' = [idle EXCEPT ![k] = RemoveAt(@, p)]
    PROVE  \A s \in Keys : Cardinality(Nulls(s)') <= Cardinality(Nulls(s))
<1> SUFFICES ASSUME NEW s \in Keys
             PROVE  Cardinality(Nulls(s)') <= Cardinality(Nulls(s))
  OBVIOUS
<1>2. /\ idle \in [Keys -> Seq(Entries)] /\ idle[s] \in Seq(Entries)
      /\ Nulls(s) = NullsOf(idle[s]) /\ Nulls(s)' = NullsOf(idle'[s])
      /\ Cardinality(Nulls(s)) \in Nat
  BY NullsOfIdle
<1>3. CASE s = k
  <2>1. idle'[s] = RemoveAt(idle[s], p) /\ p \in 1..Len(idle[s])
    BY <1>2, <1>3
  <2> QED BY <1>2, <2>1, NullsRemoved
<1>4. CASE s # k
  <2>1. idle'[s] = idle[s]
    BY <1>2, <1>4
  <2> QED BY <1>2, <2>1
<1> QED BY <1>3, <1>4

LEMMA IdleReturned ==
    ASSUME Inv, NEW k \in Keys, NEW x \in Entries, ReturnObject(k, x), NEW s \in Keys
    PROVE  /\ Cardinality(Nulls(s)') <= Cardinality(Nulls(s)) + 1
           /\ k # s \/ x # NoConn => Cardinality(Nulls(s)') <= Cardinality(Nulls(s))
<1>2. /\ idle \in [Keys -> Seq(Entries)] /\ idle[s] \in Seq(Entries)
      /\ Nulls(s) = NullsOf(idle[s]) /\ Nulls(s)' = NullsOf(idle'[s])
      /\ Cardinality(Nulls(s)) \in Nat
  BY NullsOfIdle
<1>3. idle' = [idle EXCEPT ![k] = Cons(x, @)]
  BY DEF ReturnObject
<1>4. CASE s = k
  <2>1. idle'[s] = Cons(x, idle[s])
    BY <1>2, <1>3, <1>4
  <2> QED BY <1>2, <1>4, <2>1, NullsAdded
<1>5. CASE s # k
  <2>1. idle'[s] = idle[s]
    BY <1>2, <1>3, <1>5
  <2> QED BY <1>2, <2>1
<1> QED BY <1>4, <1>5

\* A step of one client that does not begin to fail for a server.
Same(d) == pc'[d] = pc[d] /\ key'[d] = key[d] /\ conn'[d] = conn[d]

LEMMA FailingKept ==
    ASSUME NEW c \in Clients, \A d \in Clients : d # c => Same(d),
           \A s \in Servers : c \in Failing(s)' => c \in Failing(s)
    PROVE  \A s \in Servers : Failing(s)' \subseteq Failing(s)
BY DEF Same, Failing, Clients

\* Changes of one client leave the others as they are.
LEMMA OthersSame ==
    ASSUME Inv, NEW c \in Clients, \E stage : pc' = [pc EXCEPT ![c] = stage],
           key' = key \/ \E k : key' = [key EXCEPT ![c] = k],
           conn' = conn \/ \E x : conn' = [conn EXCEPT ![c] = x]
    PROVE  \A d \in Clients : d # c => Same(d)
BY DEF Inv, TypeOK, PoolTypeOK, Same

\* A stage in which no thread is about to return a null.
LEMMA CalmStage ==
    ASSUME Inv, NEW c \in Clients, NEW stage, pc' = [pc EXCEPT ![c] = stage],
           stage \in {"idle", "next", "allocate", "checkIdle", "held"}
    PROVE  \A s \in Servers : c \notin Failing(s)'
<1>1. pc'[c] = stage
  BY DEF Inv, TypeOK, PoolTypeOK
<1> QED BY <1>1 DEF Failing

LEMMA CountedMayCreate ==
    ASSUME Inv, TypeOK', NullsCounted, NEW c \in Clients, MayCreate(c)
    PROVE  NullsCounted'
<1>1. \A d \in Clients : d # c => Same(d)
  BY OthersSame DEF MayCreate, GoTo
<1>2. idle' = idle /\ key' = key /\ idle[key[c]] = <<>>
  BY DEF MayCreate
<1>3. ASSUME NEW s \in Servers
      PROVE  Cardinality(Nulls(s)') + Cardinality(Failing(s)') <= Cardinality(Threads)
  <2>1. CASE key[c] = s
    BY <1>2, <2>1, CountedStep
  <2>2. CASE key[c] # s
    <3>1. Failing(s)' \subseteq Failing(s)
      BY <1>1, <1>2, <2>2 DEF Same, Failing, Clients
    <3>2. s \in Keys
      BY DEF Keys
    <3> QED BY <1>2, <3>1, <3>2, IdleKept, CountedStep
  <2> QED BY <2>1, <2>2
<1> QED BY <1>3 DEF NullsCounted

LEMMA CountedBorrow ==
    ASSUME Inv, TypeOK', NullsCounted, NEW c \in Clients, Borrow(c)
    PROVE  NullsCounted'
<1>1. /\ pc \in [Clients -> Stages] /\ key \in [Clients -> Keys]
      /\ conn \in [Clients -> Conns \cup {NoConn}]
  BY DEF Inv, TypeOK, PoolTypeOK
<1>2. CASE MayCreate(c)
  BY <1>2, CountedMayCreate
<1>3. CASE TakeIdle(c)
  <2>1. /\ pc[c] = "allocate" /\ key[c] \in Keys /\ idle[key[c]] \in Seq(Entries)
        /\ idle[key[c]] # <<>> /\ idle' = [idle EXCEPT ![key[c]] = Tail(@)]
    BY <1>1, <1>3 DEF TakeIdle, Inv, TypeOK, PoolTypeOK, Entries
  <2>2. 1 \in 1..Len(idle[key[c]]) /\ Tail(idle[key[c]]) = RemoveAt(idle[key[c]], 1)
    BY <2>1, TailFacts
  <2>3. \A s \in Keys : Cardinality(Nulls(s)') <= Cardinality(Nulls(s))
    BY <2>1, <2>2, IdleRemoved
  <2>4. \A d \in Clients : d # c => Same(d)
    BY <1>3, OthersSame DEF TakeIdle, GoTo
  <2>5. \A s \in Servers : c \notin Failing(s)'
    BY <1>3, CalmStage DEF TakeIdle, GoTo
  <2> QED BY <2>3, <2>4, <2>5, FailingKept, CountedCalm
<1>4. CASE Connect(c) \/ ConnectFails(c) \/ Valid(c) \/ Invalid(c)
  <2>1. idle' = idle /\ key' = key
    BY <1>4 DEF Connect, ConnectFails, Valid, Invalid
  <2>2. \A d \in Clients : d # c => Same(d)
    BY <1>4, OthersSame DEF Connect, ConnectFails, Valid, Invalid, GoTo
  <2>3. ASSUME NEW s \in Servers, c \in Failing(s)' PROVE c \in Failing(s)
    <3>1. c \in Threads /\ key[c] = s
      BY <2>1, <2>3 DEF Failing
    <3>2. pc'[c] # "held" /\ pc'[c] # "allocate"
      BY <2>3 DEF Failing
    <3>3. pc[c] \in {"connect", "checkNew"}
      BY <1>1, <1>4, <3>2 DEF Connect, ConnectFails, Valid, Invalid, GoTo
    <3> QED BY <3>1, <3>3 DEF Failing
  <2> QED BY <2>1, <2>2, <2>3, IdleKept, FailingKept, CountedCalm
<1> QED BY <1>2, <1>3, <1>4 DEF Borrow

\* The steps between the borrow and the return.
LEMMA CountedUse ==
    ASSUME Inv, TypeOK', NullsCounted, NEW c \in Clients,
           \/ UseFails(c) \/ RecordFailure(c) \/ RecordingFails(c)
           \/ StartTask(c) \/ Dump(c)
    PROVE  NullsCounted'
<1>1. /\ idle' = idle /\ key' = key /\ conn' = conn
      /\ \E stage : pc' = [pc EXCEPT ![c] = stage]
  BY DEF UseFails, RecordFailure, RecordingFails, StartTask, Dump, GoTo
<1>2. \A d \in Clients : d # c => Same(d)
  BY <1>1, OthersSame
<1>3. (pc[c] = "held" /\ conn[c] # NoConn) \/ pc[c] = "failed"
  BY DEF UseFails, RecordFailure, RecordingFails, StartTask, Dump, Inv, StageOK
<1>4. pc'[c] \in {"failed", "finally", "abort"}
  BY DEF UseFails, RecordFailure, RecordingFails, StartTask, Dump, GoTo,
         Inv, TypeOK, PoolTypeOK
<1>5. \A s \in Servers : c \in Failing(s)' => c \in Failing(s)
  BY <1>1, <1>3, <1>4 DEF Failing
<1> QED BY <1>1, <1>2, <1>5, IdleKept, FailingKept, CountedCalm

LEMMA CountedFinally ==
    ASSUME Inv, TypeOK', NullsCounted, NEW t \in Threads, Finally(t)
    PROVE  NullsCounted'
<1>1. /\ t \in Clients /\ pc[t] \in {"finally", "abort"}
      /\ ReturnObject(key[t], conn[t])
      /\ key[t] \in Keys /\ conn[t] \in Entries
  BY DEF Finally, Clients, Inv, TypeOK, PoolTypeOK, Entries
<1>2. \A d \in Clients : d # t => Same(d)
  BY <1>1, OthersSame DEF Finally, GoTo
<1>3. \E stage \in {"idle", "next"} : pc' = [pc EXCEPT ![t] = stage]
  BY DEF Finally, GoTo
<1>4. \A s \in Servers : t \notin Failing(s)'
  BY <1>1, <1>3, CalmStage
<1>5. \A s \in Servers : Failing(s)' \subseteq Failing(s) \ {t}
  BY <1>1, <1>2, <1>4, FailingKept
<1>6. ASSUME NEW s \in Servers
      PROVE  Cardinality(Nulls(s)') + Cardinality(Failing(s)') <= Cardinality(Threads)
  <2> s \in Keys
    BY DEF Keys
  <2>1. CASE key[t] # s \/ conn[t] # NoConn
    <3>1. Cardinality(Nulls(s)') <= Cardinality(Nulls(s))
      BY <1>1, <2>1, IdleReturned
    <3>2. Failing(s)' \subseteq Failing(s)
      BY <1>5
    <3> QED BY <3>1, <3>2, CountedStep
  <2>2. CASE key[t] = s /\ conn[t] = NoConn
    <3>1. Cardinality(Nulls(s)') <= Cardinality(Nulls(s)) + 1
      BY <1>1, IdleReturned
    <3>2. t \in Failing(s)
      BY <1>1, <2>2 DEF Failing
    <3>3. Failing(s)' \subseteq Failing(s) \ {t}
      BY <1>5
    <3> QED BY <3>1, <3>2, <3>3, CountedStep
  <2> QED BY <2>1, <2>2
<1> QED BY <1>6 DEF NullsCounted

LEMMA CountedEndRequest ==
    ASSUME Inv, TypeOK', NullsCounted, NEW r \in Requests, EndRequest(r)
    PROVE  NullsCounted'
<1>1. r \in Clients /\ key[r] \in Keys /\ conn[r] \in Entries
  BY DEF Clients, Inv, TypeOK, PoolTypeOK, Entries
<1>2. \A d \in Clients : d # r => Same(d)
  BY <1>1, OthersSame DEF EndRequest, GoTo
<1>3. \A s \in Servers : r \notin Failing(s)'
  BY <1>1, CalmStage DEF EndRequest, GoTo
<1>4. \A s \in Keys : Cardinality(Nulls(s)') <= Cardinality(Nulls(s))
  <2>1. CASE conn[r] = NoConn
    BY <2>1, IdleKept DEF EndRequest
  <2>2. CASE conn[r] # NoConn
    BY <1>1, <2>2, IdleReturned DEF EndRequest
  <2> QED BY <2>1, <2>2
<1> QED BY <1>1, <1>2, <1>3, <1>4, FailingKept, CountedCalm

\* Where a client begins or goes on with the next server, which a thread never
\* does with a null to return to it.
LEMMA CountedBegin ==
    ASSUME Inv, TypeOK', NullsCounted, NEW c \in Clients, idle' = idle, conn' = conn,
           \E stage : pc' = [pc EXCEPT ![c] = stage],
           key' = key \/ \E k : key' = [key EXCEPT ![c] = k],
           \A s \in Servers : c \notin Failing(s)'
    PROVE  NullsCounted'
<1>1. \A d \in Clients : d # c => Same(d)
  BY OthersSame
<1> QED BY <1>1, IdleKept, FailingKept, CountedCalm

LEMMA CountedNext == Inv /\ TypeOK' /\ NullsCounted /\ [Next]_vars => NullsCounted'
<1> SUFFICES ASSUME Inv, TypeOK', NullsCounted, [Next]_vars PROVE NullsCounted'
  OBVIOUS
<1>1. /\ \A c \in Threads \cup Requests : c \in Clients
      /\ \A r \in Requests : \A s \in Servers : r \notin Failing(s)'
      /\ NoKey \notin Servers
  BY PoolAssumption DEF Clients, Failing
<1>2. ASSUME NEW t \in Threads, Execute(t) PROVE NullsCounted'
  <2>1. ASSUME NEW s \in Servers,
               \/ TakeServer(t, s) \/ TakeAddressless(t, s)
               \/ TakeUnsampled(t, s) \/ TakeDbFails(t, s)
        PROVE  NullsCounted'
    <3>1. idle' = idle /\ conn' = conn
      BY <2>1 DEF TakeServer, TakeAddressless, TakeUnsampled, TakeDbFails, Take
    <3>2. /\ \E stage : pc' = [pc EXCEPT ![t] = stage]
          /\ \E k : key' = [key EXCEPT ![t] = k]
      BY <2>1 DEF TakeServer, TakeAddressless, TakeUnsampled, TakeDbFails, Take, GoTo
    <3>3. pc'[t] = "allocate" \/ key'[t] = NoKey
      BY <1>1, <2>1 DEF TakeServer, TakeAddressless, TakeUnsampled, TakeDbFails, Take, GoTo,
                        Inv, TypeOK, PoolTypeOK
    <3>4. \A z \in Servers : t \notin Failing(z)'
      BY <1>1, <3>3 DEF Failing
    <3> QED BY <1>1, <3>1, <3>2, <3>4, CountedBegin
  <2> QED BY <1>1, <1>2, <2>1, CountedBorrow, CountedUse, CountedFinally DEF Execute
<1>3. ASSUME NEW t \in Threads, NEW j \in Jobs, Fire(t, j) PROVE NullsCounted'
  <2>1. \A s \in Servers : t \notin Failing(s)'
    BY <1>1, <1>3, CalmStage DEF Fire, GoTo
  <2> QED BY <1>1, <1>3, <2>1, CountedBegin DEF Fire, GoTo
<1>4. ASSUME NEW r \in Requests, Serve(r) PROVE NullsCounted'
  BY <1>1, <1>4, CountedBorrow, CountedUse, CountedEndRequest DEF Serve
<1>5. ASSUME NEW r \in Requests, NEW s \in Servers, DumpNow(r, s) PROVE NullsCounted'
  <2>1. /\ idle' = idle /\ conn' = conn
        /\ \E stage : pc' = [pc EXCEPT ![r] = stage]
        /\ key' = key \/ \E k : key' = [key EXCEPT ![r] = k]
    BY <1>5 DEF DumpNow, GoTo
  <2> QED BY <1>1, <2>1, CountedBegin
<1>6. ASSUME pc' = pc, key' = key, conn' = conn
      PROVE  \A s \in Servers : Failing(s)' \subseteq Failing(s)
  BY <1>6 DEF Failing
<1>7. ASSUME NEW j \in Jobs, NEW x \in Conns, EndTask(j, x) PROVE NullsCounted'
  BY <1>6, <1>7, IdleKept, CountedCalm DEF EndTask, poolVars
<1>8. ASSUME NEW k \in Keys, NEW i \in 1..Len(idle[k]), Evict(k, i), UNCHANGED jobVars
      PROVE  NullsCounted'
  BY <1>6, <1>8, IdleRemoved, CountedCalm DEF Evict
<1>9. CASE UNCHANGED vars
  BY <1>6, <1>9, IdleKept, CountedCalm DEF vars, poolVars
<1> QED BY <1>2, <1>3, <1>4, <1>5, <1>7, <1>8, <1>9 DEF Next

LEMMA CountedInit == Init => NullsCounted
<1> SUFFICES ASSUME Init, NEW s \in Servers
             PROVE  Cardinality(Nulls(s)) + Cardinality(Failing(s)) <= Cardinality(Threads)
  BY DEF NullsCounted
<1>1. Nulls(s) = {}
  BY DEF Init, PoolInit, Nulls, Keys
<1>2. Cardinality(Nulls(s)) = 0
  BY <1>1, FS_EmptySet
<1> QED BY <1>2, FailingFinite

\* What may still leave a null under the null key: the servers that a thread has
\* yet to come to, and the turn of the loop that it is in.
Due ==
    {v \in Threads \X Keys :
        IF v[2] = NoKey THEN pc[v[1]] \notin {"idle", "next"} ELSE v[2] \in todo[v[1]]}

DueCounted == Cardinality(Nulls(NoKey)) + Cardinality(Due) <= fires * Cardinality(Servers)

LEMMA DueFinite ==
    /\ IsFiniteSet(Due) /\ Cardinality(Due) \in Nat
    /\ IsFiniteSet(Due') /\ Cardinality(Due') \in Nat
    /\ Cardinality(Servers) \in Nat
<1>1. IsFiniteSet(Threads) /\ IsFiniteSet(Keys)
  BY ClientsAssumption, ServersAssumption, FS_Subset, FS_AddElement DEF Clients, Keys
<1>2. IsFiniteSet(Threads \X Keys)
  BY <1>1, FS_Product
<1>3. Due \subseteq Threads \X Keys /\ Due' \subseteq Threads \X Keys
  BY DEF Due
<1>4. IsFiniteSet(Due) /\ IsFiniteSet(Due')
  BY <1>2, <1>3, FS_Subset
<1> QED BY <1>4, ServersAssumption, FS_CardinalityType

\* What is counted now is bounded by what was counted before.
LEMMA DueSum ==
    ASSUME Inv, DueCounted, fires' = fires,
           NEW n \in Nat, NEW m \in Nat, NEW d \in Nat, NEW e \in Nat,
           n = Cardinality(Nulls(NoKey)), m = Cardinality(Nulls(NoKey)'),
           d = Cardinality(Due), e = Cardinality(Due'), m + e <= n + d
    PROVE  DueCounted'
<1>1. PICK b \in Nat : b = fires * Cardinality(Servers)
  BY DueFinite DEF Inv, TypeOK
<1>2. n + d <= b
  BY <1>1 DEF DueCounted
<1>3. m + e <= b
  BY <1>2
<1> QED BY <1>1, <1>3 DEF DueCounted

\* A step that fires no trigger: no null more and at most one turn in exchange for
\* another, or one null more and one turn less.
LEMMA DueStep ==
    ASSUME Inv, TypeOK', DueCounted, fires' = fires,
           \/ /\ Cardinality(Nulls(NoKey)') <= Cardinality(Nulls(NoKey))
              /\ \/ Due' \subseteq Due
                 \/ \E u \in Due : \E v : Due' \subseteq (Due \ {u}) \cup {v}
           \/ /\ Cardinality(Nulls(NoKey)') <= Cardinality(Nulls(NoKey)) + 1
              /\ \E u \in Due : Due' \subseteq Due \ {u}
    PROVE  DueCounted'
<1>1. PICK n \in Nat, m \in Nat :
         n = Cardinality(Nulls(NoKey)) /\ m = Cardinality(Nulls(NoKey)')
  <2>1. NoKey \in Keys /\ idle'[NoKey] \in Seq(Entries)
    BY DEF Keys, TypeOK, PoolTypeOK, Entries
  <2>2. Cardinality(Nulls(NoKey)) \in Nat /\ Nulls(NoKey)' = NullsOf(idle'[NoKey])
    BY <2>1, NullsOfIdle
  <2> QED BY <2>1, <2>2, NullsFinite
<1>2. PICK d \in Nat, e \in Nat : d = Cardinality(Due) /\ e = Cardinality(Due')
  BY DueFinite
<1>3. ASSUME NEW u \in Due PROVE IsFiniteSet(Due \ {u}) /\ Cardinality(Due \ {u}) = d - 1
  BY <1>2, DueFinite, FS_RemoveElement
<1>4. CASE m <= n /\ Due' \subseteq Due
  <2>1. e <= d
    BY <1>2, <1>4, DueFinite, FS_Subset
  <2> QED BY <1>1, <1>2, <1>4, <2>1, DueSum
<1>5. ASSUME m <= n, NEW u \in Due, NEW v, Due' \subseteq (Due \ {u}) \cup {v}
      PROVE  DueCounted'
  <2>1. /\ IsFiniteSet((Due \ {u}) \cup {v})
        /\ Cardinality((Due \ {u}) \cup {v}) <= d
    <3> DEFINE R == Due \ {u}
    <3>1. IsFiniteSet(R) /\ Cardinality(R) = d - 1
      BY <1>3, <1>5
    <3> HIDE DEF R
    <3>2. /\ IsFiniteSet(R \cup {v})
          /\ Cardinality(R \cup {v}) = Cardinality(R) \/ Cardinality(R \cup {v}) = Cardinality(R) + 1
      BY <3>1, FS_AddElement
    <3>3. IsFiniteSet(R \cup {v}) /\ Cardinality(R \cup {v}) <= d
      BY <3>1, <3>2
    <3> QED BY <3>3 DEF R
  <2>2. e <= d
    BY <1>2, <1>5, <2>1, DueFinite, FS_Subset, FS_CardinalityType
  <2> QED BY <1>1, <1>2, <1>5, <2>2, DueSum
<1>6. ASSUME m <= n + 1, NEW u \in Due, Due' \subseteq Due \ {u}
      PROVE  DueCounted'
  <2>1. e <= d - 1
    <3>1. Cardinality(Due') <= Cardinality(Due \ {u})
      BY <1>3, <1>6, FS_Subset
    <3> QED BY <1>2, <1>3, <3>1
  <2> QED BY <1>1, <1>2, <1>6, <2>1, DueSum
<1> QED BY <1>1, <1>4, <1>5, <1>6

\* A trigger gives one thread the servers of a list.
LEMMA DueFire ==
    ASSUME Inv, TypeOK', DueCounted, NEW t \in Threads, NEW j \in Jobs, Fire(t, j)
    PROVE  DueCounted'
<1>1. PICK list \in SUBSET ServersOf[j] : todo' = [todo EXCEPT ![t] = list]
  BY DEF Fire
<1>2. /\ pc' = [pc EXCEPT ![t] = "next"] /\ idle' = idle /\ fires' = fires + 1
      /\ list \subseteq Servers
  BY <1>1, JobsAssumption DEF Fire, GoTo
<1>3. Due' \subseteq Due \cup ({t} \X list)
  BY <1>1, <1>2 DEF Due, Inv, TypeOK, PoolTypeOK
<1>4. IsFiniteSet(list) /\ Cardinality(list) <= Cardinality(Servers)
  BY <1>2, ServersAssumption, FS_Subset
<1>5. IsFiniteSet({t} \X list) /\ Cardinality({t} \X list) = Cardinality(list)
  <2>1. IsFiniteSet({t}) /\ Cardinality({t}) = 1
    BY FS_Singleton
  <2>2. Cardinality({t} \X list) = 1 * Cardinality(list) /\ IsFiniteSet({t} \X list)
    BY <1>4, <2>1, FS_Product
  <2> QED BY <1>4, <2>2, FS_CardinalityType
<1>6. /\ IsFiniteSet(Due \cup ({t} \X list))
      /\ Cardinality(Due \cup ({t} \X list)) <= Cardinality(Due) + Cardinality(list)
  <2>1. /\ IsFiniteSet(Due \cup ({t} \X list)) /\ IsFiniteSet(Due \cap ({t} \X list))
        /\ Cardinality(Due \cup ({t} \X list)) =
              Cardinality(Due) + Cardinality({t} \X list) - Cardinality(Due \cap ({t} \X list))
    BY <1>5, DueFinite, FS_Union, FS_Intersection
  <2> QED BY <1>4, <1>5, <2>1, DueFinite, FS_CardinalityType
<1>7. PICK n \in Nat, d \in Nat, e \in Nat, s \in Nat, f \in Nat :
         /\ n = Cardinality(Nulls(NoKey)) /\ n = Cardinality(Nulls(NoKey)')
         /\ d = Cardinality(Due) /\ e = Cardinality(Due') /\ s = Cardinality(Servers)
         /\ f = fires
  <2>1. Nulls(NoKey)' = Nulls(NoKey) /\ Cardinality(Nulls(NoKey)) \in Nat
    BY <1>2, NullsOfIdle DEF Keys, Nulls
  <2> QED BY <2>1, DueFinite DEF Inv, TypeOK
<1>8. e <= d + s
  <2>1. e <= Cardinality(Due \cup ({t} \X list))
    BY <1>3, <1>6, <1>7, FS_Subset
  <2> QED BY <1>4, <1>6, <1>7, <2>1, FS_CardinalityType
<1>9. n + d <= f * s /\ (f + 1) * s = f * s + s
  BY <1>7 DEF DueCounted
<1>10. n + e <= (f + 1) * s
  <2>1. PICK p \in Nat : p = f * s
    BY <1>7
  <2> QED BY <1>7, <1>8, <1>9, <2>1
<1> QED BY <1>2, <1>7, <1>10 DEF DueCounted

\* The steps of a client that returns nothing: it stays in its turn, or begins one
\* with a server that it takes off its list.
LEMMA DueTurn ==
    ASSUME Inv, TypeOK', DueCounted, fires' = fires, todo' = todo,
           NEW c \in Clients, NEW stage, pc' = [pc EXCEPT ![c] = stage],
           c \in Requests \/ pc[c] \notin {"idle", "next"},
           Cardinality(Nulls(NoKey)') <= Cardinality(Nulls(NoKey))
    PROVE  DueCounted'
<1>1. Due' \subseteq Due
  BY PoolAssumption DEF Due, Inv, TypeOK, PoolTypeOK, Clients
<1> QED BY <1>1, DueStep

LEMMA DueTake ==
    ASSUME Inv, TypeOK', DueCounted, NEW t \in Threads, NEW s \in Servers, NEW k, NEW stage,
           Take(t, s, k, stage)
    PROVE  DueCounted'
<1>1. /\ s \in todo[t] /\ todo' = [todo EXCEPT ![t] = @ \ {s}]
      /\ pc' = [pc EXCEPT ![t] = stage] /\ idle' = idle /\ fires' = fires
  BY DEF Take, GoTo
<1>2. s \in Keys /\ s # NoKey /\ NoKey \in Keys
  BY PoolAssumption DEF Keys
<1>3. <<t, s>> \in Due
  BY <1>1, <1>2 DEF Due
<1>4. Due' \subseteq (Due \ {<<t, s>>}) \cup {<<t, NoKey>>}
  BY <1>1, <1>2 DEF Due, Inv, TypeOK, PoolTypeOK
<1>5. Cardinality(Nulls(NoKey)') <= Cardinality(Nulls(NoKey))
  BY <1>1, <1>2, IdleKept
<1> QED BY <1>1, <1>3, <1>4, <1>5, DueStep

LEMMA DueFinally ==
    ASSUME Inv, TypeOK', DueCounted, NEW t \in Threads, Finally(t)
    PROVE  DueCounted'
<1>1. /\ pc[t] \in {"finally", "abort"} /\ ReturnObject(key[t], conn[t])
      /\ key[t] \in Keys /\ conn[t] \in Entries /\ NoKey \in Keys /\ fires' = fires
  BY DEF Finally, Clients, Inv, TypeOK, PoolTypeOK, Entries, Keys
<1>2. \E stage \in {"idle", "next"} : pc' = [pc EXCEPT ![t] = stage]
  BY DEF Finally, GoTo
<1>3. \E rest : rest \subseteq todo[t] /\ todo' = [todo EXCEPT ![t] = rest]
  BY DEF Finally
<1>4. <<t, NoKey>> \in Due
  BY <1>1 DEF Due
<1>5. Due' \subseteq Due \ {<<t, NoKey>>}
  BY <1>2, <1>3 DEF Due, Inv, TypeOK, PoolTypeOK, Clients
<1>6. Cardinality(Nulls(NoKey)') <= Cardinality(Nulls(NoKey)) + 1
  BY <1>1, IdleReturned
<1> QED BY <1>1, <1>4, <1>5, <1>6, DueStep

\* A request returns what it has borrowed, and no null.
LEMMA DueEndRequest ==
    ASSUME Inv, TypeOK', DueCounted, NEW r \in Requests, EndRequest(r)
    PROVE  DueCounted'
<1>1. /\ r \in Clients /\ key[r] \in Keys /\ conn[r] \in Entries /\ NoKey \in Keys
      /\ fires' = fires /\ todo' = todo /\ \E stage : pc' = [pc EXCEPT ![r] = stage]
  BY DEF EndRequest, GoTo, jobVars, Clients, Inv, TypeOK, PoolTypeOK, Entries, Keys
<1>2. Cardinality(Nulls(NoKey)') <= Cardinality(Nulls(NoKey))
  <2>1. CASE conn[r] = NoConn
    BY <1>1, <2>1, IdleKept DEF EndRequest
  <2>2. CASE conn[r] # NoConn
    BY <1>1, <2>2, IdleReturned DEF EndRequest
  <2> QED BY <2>1, <2>2
<1> QED BY <1>1, <1>2, DueTurn

LEMMA DueBorrow ==
    ASSUME Inv, TypeOK', DueCounted, NEW c \in Clients, Borrow(c), UNCHANGED jobVars
    PROVE  DueCounted'
<1>1. /\ fires' = fires /\ todo' = todo /\ \E stage : pc' = [pc EXCEPT ![c] = stage]
      /\ pc[c] \notin {"idle", "next"} /\ NoKey \in Keys
  BY DEF Borrow, TakeIdle, MayCreate, Connect, ConnectFails, Valid, Invalid, GoTo, jobVars, Keys
<1>2. CASE idle' = idle
  BY <1>1, <1>2, IdleKept, DueTurn
<1>3. CASE TakeIdle(c)
  <2>1. /\ key[c] \in Keys /\ idle[key[c]] \in Seq(Entries)
        /\ idle[key[c]] # <<>> /\ idle' = [idle EXCEPT ![key[c]] = Tail(@)]
    BY <1>3 DEF TakeIdle, Inv, TypeOK, PoolTypeOK, Entries
  <2>2. 1 \in 1..Len(idle[key[c]]) /\ Tail(idle[key[c]]) = RemoveAt(idle[key[c]], 1)
    BY <2>1, TailFacts
  <2> QED BY <1>1, <2>1, <2>2, IdleRemoved, DueTurn
<1> QED BY <1>2, <1>3 DEF Borrow, MayCreate, Connect, ConnectFails, Valid, Invalid

\* The steps between the borrow and the return.
LEMMA DueUse ==
    ASSUME Inv, TypeOK', DueCounted, NEW c \in Clients,
           \/ UseFails(c) \/ RecordFailure(c) \/ RecordingFails(c)
           \/ StartTask(c) \/ Dump(c)
    PROVE  DueCounted'
<1>1. /\ fires' = fires /\ todo' = todo /\ idle' = idle
      /\ \E stage : pc' = [pc EXCEPT ![c] = stage]
      /\ pc[c] \notin {"idle", "next"} /\ NoKey \in Keys
  BY DEF UseFails, RecordFailure, RecordingFails, StartTask, Dump, GoTo, jobVars, Keys
<1> QED BY <1>1, IdleKept, DueTurn

LEMMA DueNext == Inv /\ TypeOK' /\ DueCounted /\ [Next]_vars => DueCounted'
<1> SUFFICES ASSUME Inv, TypeOK', DueCounted, [Next]_vars PROVE DueCounted'
  OBVIOUS
<1>1. /\ \A c \in Threads \cup Requests : c \in Clients
      /\ NoKey \in Keys
  BY DEF Clients, Keys
<1>2. ASSUME NEW t \in Threads, Execute(t) PROVE DueCounted'
  <2>1. ASSUME NEW s \in Servers,
               \/ TakeServer(t, s) \/ TakeAddressless(t, s)
               \/ TakeUnsampled(t, s) \/ TakeDbFails(t, s)
        PROVE  DueCounted'
    BY <2>1, DueTake DEF TakeServer, TakeAddressless, TakeUnsampled, TakeDbFails
  <2> QED BY <1>1, <1>2, <2>1, DueBorrow, DueUse, DueFinally DEF Execute
<1>3. ASSUME NEW r \in Requests, Serve(r) PROVE DueCounted'
  BY <1>1, <1>3, DueBorrow, DueUse, DueEndRequest DEF Serve
<1>4. ASSUME NEW r \in Requests, NEW s \in Servers, DumpNow(r, s) PROVE DueCounted'
  <2>1. /\ idle' = idle /\ fires' = fires /\ todo' = todo
        /\ \E stage : pc' = [pc EXCEPT ![r] = stage]
    BY <1>4 DEF DumpNow, GoTo, jobVars
  <2> QED BY <1>1, <2>1, IdleKept, DueTurn
<1>5. ASSUME pc' = pc, todo' = todo, fires' = fires,
             Cardinality(Nulls(NoKey)') <= Cardinality(Nulls(NoKey))
      PROVE  DueCounted'
  <2>1. Due' \subseteq Due
    BY <1>5 DEF Due
  <2> QED BY <1>5, <2>1, DueStep
<1>6. ASSUME NEW j \in Jobs, NEW x \in Conns, EndTask(j, x) PROVE DueCounted'
  BY <1>1, <1>5, <1>6, IdleKept DEF EndTask, poolVars
<1>7. ASSUME NEW k \in Keys, NEW i \in 1..Len(idle[k]), Evict(k, i), UNCHANGED jobVars
      PROVE  DueCounted'
  BY <1>1, <1>5, <1>7, IdleRemoved DEF Evict, jobVars
<1>8. CASE UNCHANGED vars
  BY <1>1, <1>5, <1>8, IdleKept DEF vars, poolVars, jobVars
<1> QED BY <1>2, <1>3, <1>4, <1>6, <1>7, <1>8, DueFire DEF Next

LEMMA DueInit == Init => DueCounted
<1> SUFFICES ASSUME Init PROVE DueCounted
  OBVIOUS
<1>1. Nulls(NoKey) = {} /\ Due = {}
  BY DEF Init, PoolInit, Nulls, Due, Keys, Clients
<1>2. Cardinality(Nulls(NoKey)) = 0 /\ Cardinality(Due) = 0 /\ fires = 0
  BY <1>1, FS_EmptySet DEF Init
<1> QED BY <1>2, DueFinite DEF DueCounted

(* However long a server is down, the nulls that executions return to it   *)
(* are no more than there are threads; under the null key there are no     *)
(* more than executions have come by servers without parameters for them.  *)
THEOREM NullsStayBounded == Spec => []NullsBounded
<1>1. Inv /\ NullsCounted /\ DueCounted => NullsBounded
  <2> SUFFICES ASSUME Inv, NullsCounted, DueCounted PROVE NullsBounded
    OBVIOUS
  <2>1. ASSUME NEW s \in Servers PROVE Cardinality(Nulls(s)) <= Cardinality(Threads)
    <3>1. s \in Keys
      BY DEF Keys
    <3>2. Cardinality(Nulls(s)) + Cardinality(Failing(s)) <= Cardinality(Threads)
      BY DEF NullsCounted
    <3> QED BY <3>1, <3>2, NullsOfIdle, FailingFinite
  <2>2. Cardinality(Nulls(NoKey)) <= fires * Cardinality(Servers)
    <3>1. PICK b \in Nat : b = fires * Cardinality(Servers)
      BY DueFinite DEF Inv, TypeOK
    <3>2. NoKey \in Keys /\ Cardinality(Nulls(NoKey)) + Cardinality(Due) <= b
      BY <3>1 DEF Keys, DueCounted
    <3> QED BY <3>1, <3>2, NullsOfIdle, DueFinite
  <2> QED BY <2>1, <2>2 DEF NullsBounded
<1>2. Inv /\ NullsCounted /\ [Next]_vars => NullsCounted'
  BY CountedNext, InvNext DEF Inv
<1>3. Inv /\ DueCounted /\ [Next]_vars => DueCounted'
  BY DueNext, InvNext DEF Inv
<1> QED BY <1>1, <1>2, <1>3, CountedInit, DueInit, Invariance, PTL DEF Spec

-----------------------------------------------------------------------------
(* Executions come nearer to their end *)

\* What one client's move to another stage means for all of them.
LEMMA NearerMove ==
    ASSUME Inv, NEW c \in Clients, NEW stage, pc' = [pc EXCEPT ![c] = stage],
           \/ /\ todo' = todo
              /\ Ahead[stage] < Ahead[pc[c]] \/ TakesEntry(c) \/ DropsEntry(c)
           \/ pc[c] = "idle"
           \/ c \in Threads /\ todo'[c] \subseteq todo[c] /\ todo'[c] # todo[c]
    PROVE  \A d \in Clients : Nearer(d)
<1> SUFFICES ASSUME NEW d \in Clients, pc[d] # "idle", pc'[d] # pc[d]
             PROVE  Nearer(d)
  BY DEF Nearer
<1>1. d = c /\ pc'[d] = stage
  BY DEF Inv, TypeOK, PoolTypeOK
<1> QED BY <1>1 DEF Nearer, Left

\* The handlers of both kinds of clients, stage by stage.
LEMMA Course ==
    /\ Ahead["connect"] < Ahead["allocate"] /\ Ahead["checkNew"] < Ahead["connect"]
    /\ Ahead["failed"] < Ahead["connect"]
    /\ Ahead["held"] < Ahead["checkIdle"] /\ Ahead["held"] < Ahead["checkNew"]
    /\ Ahead["failed"] < Ahead["checkNew"] /\ Ahead["failed"] < Ahead["held"]
    /\ Ahead["finally"] < Ahead["held"] /\ Ahead["finally"] < Ahead["failed"]
    /\ Ahead["abort"] < Ahead["failed"]
    /\ \A end \in {"idle", "next"} : Ahead[end] < Ahead["finally"] /\ Ahead[end] < Ahead["abort"]
BY DEF Ahead

LEMMA NearerStage ==
    ASSUME Inv, NEW c \in Clients, NEW stage, GoTo(c, stage), todo' = todo,
           Ahead[stage] < Ahead[pc[c]]
    PROVE  \A d \in Clients : Nearer(d)
BY NearerMove DEF GoTo

LEMMA NearerBorrow ==
    ASSUME Inv, NEW c \in Clients, Borrow(c), UNCHANGED jobVars
    PROVE  \A d \in Clients : Nearer(d)
<1>1. todo' = todo /\ pc \in [Clients -> Stages] /\ idle \in [Keys -> Seq(Conns \cup {NoConn})]
      /\ key \in [Clients -> Keys]
  BY DEF jobVars, Inv, TypeOK, PoolTypeOK
<1>2. CASE TakeIdle(c)
  <2>1. idle'[key[c]] = Tail(idle[key[c]]) /\ pc'[c] = "checkIdle"
        /\ pc' = [pc EXCEPT ![c] = "checkIdle"]
    BY <1>1, <1>2 DEF TakeIdle, GoTo
  <2> QED BY <1>1, <1>2, <2>1, NearerMove DEF TakeIdle, TakesEntry
<1>3. CASE MayCreate(c)
  BY <1>1, <1>3, NearerStage, Course DEF MayCreate
<1>4. CASE Connect(c) \/ ConnectFails(c)
  BY <1>1, <1>4, NearerStage, Course DEF Connect, ConnectFails
<1>5. CASE Valid(c)
  BY <1>1, <1>5, NearerStage, Course DEF Valid
<1>6. CASE Invalid(c) /\ pc[c] = "checkIdle"
  <2>1. /\ pc'[c] = "allocate" /\ pc' = [pc EXCEPT ![c] = "allocate"]
        /\ idle' = idle /\ conn[c] \notin open'
    BY <1>1, <1>6 DEF Invalid, GoTo
  <2> QED BY <1>1, <1>6, <2>1, NearerMove DEF DropsEntry
<1>7. CASE Invalid(c) /\ pc[c] = "checkNew"
  BY <1>1, <1>7, NearerStage, Course DEF Invalid
<1> QED BY <1>2, <1>3, <1>4, <1>5, <1>6, <1>7 DEF Borrow, Invalid

LEMMA NearerHandler ==
    ASSUME Inv, NEW c \in Clients,
           UseFails(c) \/ RecordFailure(c) \/ RecordingFails(c)
    PROVE  \A d \in Clients : Nearer(d)
BY NearerStage, Course DEF UseFails, RecordFailure, RecordingFails, jobVars

LEMMA NearerNext == Inv /\ [Next]_vars => \A c \in Clients : Nearer(c)
<1> SUFFICES ASSUME Inv, [Next]_vars PROVE \A c \in Clients : Nearer(c)
  OBVIOUS
<1>1. ASSUME NEW t \in Threads, Execute(t) PROVE \A c \in Clients : Nearer(c)
  <2>1. t \in Clients /\ todo \in [Threads -> SUBSET Servers]
    BY DEF Clients, Inv, TypeOK
  <2>2. CASE Borrow(t) /\ UNCHANGED jobVars
    BY <2>1, <2>2, NearerBorrow
  <2>3. ASSUME NEW s \in Servers,
               \/ TakeServer(t, s) \/ TakeAddressless(t, s)
               \/ TakeUnsampled(t, s) \/ TakeDbFails(t, s)
        PROVE  \A c \in Clients : Nearer(c)
    <3>1. PICK k, stage : Take(t, s, k, stage)
      BY <2>3 DEF TakeServer, TakeAddressless, TakeUnsampled, TakeDbFails
    <3>2. todo'[t] \subseteq todo[t] /\ todo'[t] # todo[t]
      BY <2>1, <3>1 DEF Take
    <3> QED BY <2>1, <3>1, <3>2, NearerMove DEF Take, GoTo
  <2>4. CASE StartTask(t)
    BY <2>1, <2>4, NearerStage, Course DEF StartTask
  <2>5. CASE UseFails(t) \/ RecordFailure(t) \/ RecordingFails(t)
    BY <2>1, <2>5, NearerHandler
  <2>6. CASE Finally(t)
    <3>1. PICK stage \in {"idle", "next"} : pc' = [pc EXCEPT ![t] = stage]
      BY <2>6 DEF Finally, GoTo
    <3>2. Ahead[stage] < Ahead[pc[t]]
      BY <2>6, <3>1, Course DEF Finally
    <3>3. CASE todo[t] = {} \/ pc[t] # "abort"
      <4>1. todo' = todo
        BY <2>1, <2>6, <3>3 DEF Finally
      <4> QED BY <2>1, <3>1, <3>2, <4>1, NearerMove
    <3>4. CASE todo[t] # {} /\ pc[t] = "abort"
      <4>1. todo'[t] = {}
        BY <2>1, <2>6, <3>4 DEF Finally
      <4> QED BY <2>1, <3>1, <3>4, <4>1, NearerMove
    <3> QED BY <3>3, <3>4
  <2> QED BY <1>1, <2>2, <2>3, <2>4, <2>5, <2>6 DEF Execute
<1>2. ASSUME NEW t \in Threads, NEW j \in Jobs, Fire(t, j)
      PROVE  \A c \in Clients : Nearer(c)
  BY <1>2, NearerMove DEF Fire, GoTo, Clients
<1>3. ASSUME NEW r \in Requests, Serve(r) PROVE \A c \in Clients : Nearer(c)
  <2>1. r \in Clients
    BY DEF Clients
  <2>2. CASE Borrow(r) /\ UNCHANGED jobVars
    BY <2>1, <2>2, NearerBorrow
  <2>3. CASE Dump(r)
    BY <2>1, <2>3, NearerStage, Course DEF Dump, jobVars
  <2>4. CASE UseFails(r) \/ RecordFailure(r) \/ RecordingFails(r)
    BY <2>1, <2>4, NearerHandler
  <2>5. CASE EndRequest(r)
    BY <2>1, <2>5, NearerStage, Course DEF EndRequest, jobVars
  <2> QED BY <1>3, <2>2, <2>3, <2>4, <2>5 DEF Serve
<1>4. ASSUME NEW r \in Requests, NEW s \in Servers, DumpNow(r, s)
      PROVE  \A c \in Clients : Nearer(c)
  BY <1>4, NearerMove DEF DumpNow, GoTo, Clients
<1>5. CASE UNCHANGED pc
  BY <1>5 DEF Nearer
<1>6. ASSUME NEW j \in Jobs, NEW x \in Conns, EndTask(j, x) PROVE UNCHANGED pc
  BY <1>6 DEF EndTask, poolVars
<1>7. ASSUME NEW k \in Keys, NEW i \in 1..Len(idle[k]), Evict(k, i) PROVE UNCHANGED pc
  BY <1>7 DEF Evict
<1>8. CASE UNCHANGED vars
  BY <1>5, <1>8 DEF vars, poolVars
<1> QED BY <1>1, <1>2, <1>3, <1>4, <1>5, <1>6, <1>7, <1>8 DEF Next

(* No step takes an execution or a request back, except that borrowing     *)
(* turns round when it has thrown a dead entry away: what keeps            *)
(* ExecutionsEnd true, for any number of clients, servers and connections. *)
THEOREM NearerWithEveryStep == Spec => AlwaysNearer
<1>1. Inv /\ Inv' /\ [Next]_vars => [\A c \in Clients : Nearer(c)]_vars
  BY NearerNext
<1> QED BY <1>1, Invariance, PTL DEF Spec, AlwaysNearer

-----------------------------------------------------------------------------
(* Tasks at home *)

\* A thread is at a server of its job's application and has more of them to do.
AtHome ==
    \A t \in Threads :
        IF pc[t] = "idle"
        THEN key[t] = NoKey
        ELSE /\ todo[t] \subseteq ServersOf[job[t]]
             /\ key[t] # NoKey => key[t] \in ServersOf[job[t]]

HomeInv == AtHome /\ TasksAtHome

\* A step that neither starts a task nor gives a thread another job or server.
LEMMA HomeKept ==
    ASSUME Inv, HomeInv,
           \A t \in Threads :
               IF pc'[t] = "idle"
               THEN key'[t] = NoKey
               ELSE /\ pc[t] # "idle" /\ job'[t] = job[t]
                    /\ todo'[t] \subseteq todo[t] /\ key'[t] \in {key[t], NoKey},
           \A j \in Jobs, x \in Conns : tasks'[j][x] > 0 => tasks[j][x] > 0,
           \A x \in Conns : home[x] # NoKey => home'[x] = home[x]
    PROVE  HomeInv'
<1>1. AtHome'
  BY DEF HomeInv, AtHome
<1>2. ASSUME NEW j \in Jobs, NEW x \in Conns, tasks'[j][x] > 0
      PROVE  home'[x] \in ServersOf[j]
  <2>1. home[x] \in ServersOf[j] /\ ServersOf[j] \subseteq Servers
    BY <1>2, JobsAssumption DEF HomeInv, TasksAtHome
  <2> QED BY <2>1, PoolAssumption
<1> QED BY <1>1, <1>2 DEF HomeInv, TasksAtHome

LEMMA HomeBorrow ==
    ASSUME Inv, HomeInv, NEW c \in Clients, Borrow(c), UNCHANGED jobVars
    PROVE  HomeInv'
<1>1. pc[c] # "idle" /\ key' = key /\ UNCHANGED <<job, todo, tasks>>
  BY DEF Borrow, TakeIdle, MayCreate, Connect, ConnectFails, Valid, Invalid, jobVars
<1>2. \A d \in Clients : pc'[d] = "idle" <=> pc[d] = "idle"
  <2>1. PICK stage : pc' = [pc EXCEPT ![c] = stage] /\ stage # "idle"
    <3>1. CASE Invalid(c)
      <4>1. PICK stage \in {"allocate", "failed"} : pc' = [pc EXCEPT ![c] = stage]
        BY <3>1 DEF Invalid, GoTo
      <4> QED BY <4>1
    <3>2. CASE ~Invalid(c)
      BY <3>2 DEF Borrow, TakeIdle, MayCreate, Connect, ConnectFails, Valid, GoTo
    <3> QED BY <3>1, <3>2
  <2> QED BY <1>1, <2>1 DEF Inv, TypeOK, PoolTypeOK
<1>3. \A x \in Conns : home[x] # NoKey => home'[x] = home[x]
  BY DEF Borrow, TakeIdle, MayCreate, Connect, ConnectFails, Valid, Invalid,
         Inv, TypeOK, PoolTypeOK
<1>4. \A t \in Threads : t \in Clients /\ (pc[t] = "idle" => key[t] = NoKey)
  BY DEF HomeInv, AtHome, Clients
<1> QED BY <1>1, <1>2, <1>3, <1>4, HomeKept

\* The steps of both kinds of clients that do not borrow.
LEMMA HomeHandler ==
    ASSUME Inv, HomeInv, NEW c \in Clients, NEW stage,
           pc' = [pc EXCEPT ![c] = stage], pc[c] # "idle",
           \/ key' = key /\ stage # "idle"
           \/ key' = [key EXCEPT ![c] = NoKey],
           UNCHANGED <<home, tasks>>,
           \A t \in Threads : pc'[t] # "idle" => job'[t] = job[t] /\ todo'[t] \subseteq todo[t]
    PROVE  HomeInv'
<1>1. \A t \in Threads : t \in Clients /\ (pc[t] = "idle" => key[t] = NoKey)
  BY DEF HomeInv, AtHome, Clients
<1>2. ASSUME NEW d \in Clients
      PROVE  /\ pc'[d] # "idle" => pc[d] # "idle" /\ key'[d] \in {key[d], NoKey}
             /\ pc'[d] = "idle" => (pc[d] = "idle" /\ key'[d] = key[d]) \/ key'[d] = NoKey
  BY DEF Inv, TypeOK, PoolTypeOK
<1> QED BY <1>1, <1>2, HomeKept

LEMMA HomeTake ==
    ASSUME Inv, HomeInv, NEW t \in Threads, NEW s \in Servers, NEW k \in {s, NoKey}, NEW stage,
           Take(t, s, k, stage), stage # "idle"
    PROVE  HomeInv'
<1>1. /\ pc[t] = "next" /\ s \in todo[t] /\ t \in Clients
      /\ todo' = [todo EXCEPT ![t] = @ \ {s}] /\ key' = [key EXCEPT ![t] = k]
      /\ pc' = [pc EXCEPT ![t] = stage] /\ UNCHANGED <<home, job, tasks>>
  BY DEF Take, GoTo, Clients
<1>2. AtHome'
  <2> SUFFICES ASSUME NEW u \in Threads
               PROVE  IF pc'[u] = "idle"
                      THEN key'[u] = NoKey
                      ELSE /\ todo'[u] \subseteq ServersOf[job'[u]]
                           /\ key'[u] # NoKey => key'[u] \in ServersOf[job'[u]]
    BY DEF AtHome
  <2>1. CASE u = t
    BY <1>1, <2>1 DEF Inv, TypeOK, PoolTypeOK, HomeInv, AtHome
  <2>2. CASE u # t
    <3>1. pc'[u] = pc[u] /\ key'[u] = key[u] /\ todo'[u] = todo[u] /\ job'[u] = job[u]
      BY <1>1, <2>2 DEF Inv, TypeOK, PoolTypeOK, Clients
    <3> QED BY <3>1 DEF HomeInv, AtHome
  <2> QED BY <2>1, <2>2
<1> QED BY <1>1, <1>2 DEF HomeInv, TasksAtHome

LEMMA HomeStart ==
    ASSUME Inv, HomeInv, NEW t \in Threads, StartTask(t)
    PROVE  HomeInv'
<1>1. /\ t \in Clients /\ pc[t] = "held" /\ job[t] \in Jobs
      /\ conn[t] \in Conns /\ key[t] \in Servers /\ home[conn[t]] = key[t]
  BY DEF StartTask, Inv, TypeOK, PoolTypeOK, StageOK, Employed, RightServer, Clients
<1>2. key[t] \in ServersOf[job[t]]
  BY <1>1, PoolAssumption DEF HomeInv, AtHome
<1>3. /\ pc' = [pc EXCEPT ![t] = "finally"] /\ UNCHANGED <<home, job, todo, key>>
      /\ tasks' = [tasks EXCEPT ![job[t]][conn[t]] = @ + 1]
  BY DEF StartTask, GoTo
<1>4. AtHome'
  BY <1>1, <1>3 DEF HomeInv, AtHome, Inv, TypeOK, PoolTypeOK, Clients
<1>5. ASSUME NEW j \in Jobs, NEW x \in Conns, tasks'[j][x] > 0
      PROVE  home'[x] \in ServersOf[j]
  <2>1. CASE j = job[t] /\ x = conn[t]
    BY <1>1, <1>2, <1>3, <2>1
  <2>2. CASE ~(j = job[t] /\ x = conn[t])
    <3>1. tasks'[j][x] = tasks[j][x]
      BY <1>1, <1>3, <2>2 DEF Inv, TypeOK
    <3> QED BY <1>3, <1>5, <3>1 DEF HomeInv, TasksAtHome
  <2> QED BY <2>1, <2>2
<1> QED BY <1>4, <1>5 DEF HomeInv, TasksAtHome

LEMMA HomeFire ==
    ASSUME Inv, HomeInv, NEW t \in Threads, NEW j \in Jobs, Fire(t, j)
    PROVE  HomeInv'
<1>1. PICK list \in SUBSET ServersOf[j] : todo' = [todo EXCEPT ![t] = list]
  BY DEF Fire
<1>2. /\ pc[t] = "idle" /\ pc' = [pc EXCEPT ![t] = "next"]
      /\ job' = [job EXCEPT ![t] = j] /\ UNCHANGED <<home, key, tasks>>
  BY DEF Fire, GoTo
<1>3. t \in Clients /\ key[t] = NoKey
  BY <1>2 DEF HomeInv, AtHome, Clients
<1>4. AtHome'
  BY <1>1, <1>2, <1>3 DEF HomeInv, AtHome, Inv, TypeOK, PoolTypeOK, Clients
<1> QED BY <1>2, <1>4 DEF HomeInv, TasksAtHome

LEMMA HomeNext == Inv /\ HomeInv /\ [Next]_vars => HomeInv'
<1> SUFFICES ASSUME Inv, HomeInv, [Next]_vars PROVE HomeInv'
  OBVIOUS
<1>1. ASSUME NEW c \in Clients, UseFails(c) \/ RecordFailure(c) \/ RecordingFails(c)
      PROVE  HomeInv'
  BY <1>1, HomeHandler DEF UseFails, RecordFailure, RecordingFails, jobVars, GoTo
<1>2. ASSUME NEW t \in Threads, Execute(t) PROVE HomeInv'
  <2>1. t \in Clients
    BY DEF Clients
  <2>2. CASE Borrow(t) /\ UNCHANGED jobVars
    BY <2>1, <2>2, HomeBorrow
  <2>3. ASSUME NEW s \in Servers,
               \/ TakeServer(t, s) \/ TakeAddressless(t, s)
               \/ TakeUnsampled(t, s) \/ TakeDbFails(t, s)
        PROVE  HomeInv'
    BY <2>3, HomeTake DEF TakeServer, TakeAddressless, TakeUnsampled, TakeDbFails
  <2>4. CASE StartTask(t)
    BY <2>4, HomeStart
  <2>5. CASE UseFails(t) \/ RecordFailure(t) \/ RecordingFails(t)
    BY <1>1, <2>1, <2>5
  <2>6. CASE Finally(t)
    <3>1. PICK stage : pc' = [pc EXCEPT ![t] = stage]
      BY <2>6 DEF Finally, GoTo
    <3>2. ASSUME NEW u \in Threads, pc'[u] # "idle"
          PROVE  job'[u] = job[u] /\ todo'[u] \subseteq todo[u]
      BY <2>1, <2>6, <3>2 DEF Finally, GoTo, Inv, TypeOK, PoolTypeOK, Clients
    <3> QED BY <2>1, <2>6, <3>1, <3>2, HomeHandler DEF Finally
  <2> QED BY <1>2, <2>2, <2>3, <2>4, <2>5, <2>6 DEF Execute
<1>3. ASSUME NEW t \in Threads, NEW j \in Jobs, Fire(t, j) PROVE HomeInv'
  BY <1>3, HomeFire
<1>4. ASSUME NEW r \in Requests, Serve(r) PROVE HomeInv'
  <2>1. r \in Clients
    BY DEF Clients
  <2>2. CASE Borrow(r) /\ UNCHANGED jobVars
    BY <2>1, <2>2, HomeBorrow
  <2>3. CASE Dump(r)
    BY <2>1, <2>3, HomeHandler DEF Dump, GoTo, jobVars
  <2>4. CASE UseFails(r) \/ RecordFailure(r) \/ RecordingFails(r)
    BY <1>1, <2>1, <2>4
  <2>5. CASE EndRequest(r)
    BY <2>1, <2>5, HomeHandler DEF EndRequest, GoTo, jobVars
  <2> QED BY <1>4, <2>2, <2>3, <2>4, <2>5 DEF Serve
<1>5. CASE UNCHANGED <<home, job, todo, tasks>> /\ \A t \in Threads : pc'[t] = pc[t] /\ key'[t] = key[t]
  BY <1>5 DEF HomeInv, AtHome, TasksAtHome
<1>6. ASSUME NEW r \in Requests, NEW s \in Servers, DumpNow(r, s) PROVE HomeInv'
  BY <1>5, <1>6, PoolAssumption DEF DumpNow, GoTo, jobVars, Clients, Inv, TypeOK, PoolTypeOK
<1>7. ASSUME NEW j \in Jobs, NEW x \in Conns, EndTask(j, x) PROVE HomeInv'
  <2>1. \A i \in Jobs, y \in Conns : tasks'[i][y] > 0 => tasks[i][y] > 0
    BY <1>7 DEF EndTask, Inv, TypeOK
  <2>2. UNCHANGED <<pc, key, home, job, todo>>
    BY <1>7 DEF EndTask, poolVars
  <2> QED BY <2>1, <2>2 DEF HomeInv, AtHome, TasksAtHome
<1>8. ASSUME NEW k \in Keys, NEW i \in 1..Len(idle[k]), Evict(k, i), UNCHANGED jobVars
      PROVE  HomeInv'
  BY <1>5, <1>8 DEF Evict, jobVars
<1>9. CASE UNCHANGED vars
  BY <1>5, <1>9 DEF vars, poolVars, jobVars
<1> QED BY <1>2, <1>3, <1>4, <1>6, <1>7, <1>8, <1>9 DEF Next

(* A task samples a server of its job's application, for any jobs, lists   *)
(* and failures.                                                           *)
THEOREM TasksStayAtHome == Spec => []TasksAtHome
<1>1. Init => HomeInv
  BY DEF Init, PoolInit, HomeInv, AtHome, TasksAtHome, Clients
<1>2. HomeInv => TasksAtHome
  BY DEF HomeInv
<1> QED BY <1>1, <1>2, HomeNext, Invariance, PTL DEF Spec
=============================================================================
