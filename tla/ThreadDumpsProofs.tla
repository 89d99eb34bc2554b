-------------------------- MODULE ThreadDumpsProofs --------------------------
(***************************************************************************)
(* Theorems about ThreadDumps, for any orders, counts and readings.        *)
(***************************************************************************)
EXTENDS ThreadDumps, TLAPS

-----------------------------------------------------------------------------
(* Type correctness *)

(* Names are those of readings, and a firing has its order and its number. *)
LEMMA NameFacts ==
    /\ \A i \in DOMAIN Readings : Name(i) \in Names
    /\ 1 \in DOMAIN Readings
    /\ DOMAIN Readings = 1 .. Len(Readings) /\ Len(Readings) \in Nat
  BY DumpsAssumption DEF Names

LEMMA TypeInit == Init => TypeOK
  BY NameFacts, DumpsAssumption DEF Init, TypeOK, Stages

(* The parts of a firing, and how often its order has fired.               *)
LEMMA FiringFacts ==
    ASSUME TypeOK, NEW f \in Firings
    PROVE  /\ f[1] \in Orders /\ f[2] \in Nat
           /\ fired[f[1]] \in Nat /\ count[f[1]] \in Nat /\ fired[f[1]] <= count[f[1]]
<1>1. f[1] \in Orders /\ f[2] \in 1 .. MaxCount
  BY DEF Firings
<1>2. count \in [Orders -> 0 .. MaxCount] /\ fired \in [Orders -> 0 .. MaxCount]
  BY DEF TypeOK
<1>3. fired[f[1]] <= count[f[1]]
  BY <1>1 DEF TypeOK
<1> QED BY <1>1, <1>2, <1>3, DumpsAssumption

(* Every step keeps the types.                                             *)
LEMMA TypeStep == TypeOK /\ [Next]_vars => TypeOK'
<1> SUFFICES ASSUME TypeOK, [Next]_vars PROVE TypeOK'
  OBVIOUS
<1> USE DumpsAssumption
<1>a. /\ count \in [Orders -> 0 .. MaxCount] /\ fired \in [Orders -> 0 .. MaxCount]
      /\ \A o \in Orders : fired[o] <= count[o]
      /\ stage \in [Firings -> Stages] /\ begun \in [Firings -> {0} \cup DOMAIN Readings]
  BY DEF TypeOK
<1>b. files \in [Names -> Firings \cup {NoDump}] /\ target \in [Firings -> Names]
  BY DEF TypeOK
<1>0. CASE UNCHANGED vars
  BY <1>0 DEF vars, TypeOK
<1>1. CASE Tick
  <2>1. now \in 1 .. Len(Readings) /\ now' = now + 1 /\ now < Len(Readings)
    BY <1>1, NameFacts DEF Tick, TypeOK
  <2>2. now' \in 1 .. Len(Readings)
    BY <2>1, NameFacts
  <2>3. now' \in DOMAIN Readings
    BY <2>2, NameFacts, Zenon
  <2> QED BY <1>1, <2>3 DEF Tick, TypeOK
<1>2. CASE Restart
  <2>1. stage' \in [Firings -> Stages]
    BY <1>a, <1>2 DEF Restart, Stages
  <2>2. fired' \in [Orders -> 0 .. MaxCount] /\ \A o \in Orders : fired'[o] <= count'[o]
    BY <1>a, <1>2 DEF Restart
  <2> QED BY <1>2, <2>1, <2>2 DEF Restart, TypeOK
<1>3. ASSUME NEW o \in Orders, Order(o) PROVE TypeOK'
  <2>1. count[o] = 0 /\ fired[o] \in Nat /\ fired[o] <= 0
    BY <1>3 DEF Order, TypeOK
  <2>2. PICK n \in 1 .. MaxCount : count' = [count EXCEPT ![o] = n]
    BY <1>3 DEF Order
  <2>3. \A p \in Orders : fired[p] <= count'[p]
    BY <2>1, <2>2 DEF TypeOK
  <2>4. count' \in [Orders -> 0 .. MaxCount]
    BY <2>2 DEF TypeOK
  <2> QED BY <1>3, <2>3, <2>4 DEF Order, TypeOK
<1>4. ASSUME NEW o \in Orders, Fire(o) PROVE TypeOK'
  <2> DEFINE f == <<o, fired[o] + 1>>
  <2>1. fired[o] + 1 \in 1 .. MaxCount /\ fired[o] + 1 <= count[o]
    BY <1>a, <1>4 DEF Fire
  <2>2. f \in Firings
    BY <2>1 DEF Firings
  <2>3. fired' \in [Orders -> 0 .. MaxCount] /\ \A p \in Orders : fired'[p] <= count[p]
    <3>1. fired' = [fired EXCEPT ![o] = @ + 1]
      BY <1>4 DEF Fire
    <3>2. fired' \in [Orders -> 0 .. MaxCount]
      BY <1>a, <2>1, <3>1
    <3> QED BY <1>a, <2>1, <3>1, <3>2
  <2>4. begun' \in [Firings -> {0} \cup DOMAIN Readings]
    BY <1>4, <2>2 DEF Fire, TypeOK
  <2>5. paths' \in [Firings -> SUBSET Names]
    <3>1. Name(now) \in Names
      BY NameFacts DEF TypeOK
    <3> QED BY <1>4, <3>1 DEF Fire, SetFilePath, TypeOK
  <2>6. stage' \in [Firings -> Stages]
    BY <1>4 DEF Fire, Goto, Stages, TypeOK
  <2>7. mixed' \subseteq Firings
    <3>1. mixed \subseteq Firings /\ UnderWay(o) \subseteq Firings
      BY DEF TypeOK, UnderWay
    <3> QED BY <1>4, <2>2, <3>1 DEF Fire
  <2> QED BY <1>4, <2>3, <2>4, <2>5, <2>6, <2>7 DEF Fire, TypeOK
<1>5. ASSUME NEW f \in Firings, Execute(f) PROVE TypeOK'
  <2>1. stage' \in [Firings -> Stages]
    BY <1>a, <1>5 DEF Execute, DumpFails, Open, OpenFails, Fill, FillFails, Save, SaveFails,
                      Goto, Stages
  <2>2. paths[f] \subseteq Names /\ target[f] \in Names
    BY DEF TypeOK
  <2>3. CASE DumpFails(f) \/ OpenFails(f) \/ SaveFails(f)
    BY <2>1, <2>3 DEF DumpFails, OpenFails, SaveFails, TypeOK
  <2>4. CASE Open(f)
    <3>1. files' \in [Names -> Firings \cup {NoDump}]
      BY <1>b, <2>2, <2>4 DEF Open
    <3>2. target' \in [Firings -> Names]
      BY <1>b, <2>2, <2>4 DEF Open
    <3>3. UNCHANGED <<now, count, fired, begun, paths, rows, failed, mixed>>
      BY <2>4 DEF Open
    <3> QED BY <2>1, <3>1, <3>2, <3>3 DEF TypeOK
  <2>5. CASE Fill(f)
    <3>1. files' \in [Names -> Firings \cup {NoDump}]
      BY <1>b, <2>2, <2>5 DEF Fill
    <3> QED BY <2>1, <2>2, <2>5, <3>1 DEF Fill, TypeOK
  <2>6. CASE FillFails(f)
    <3>1. files' \in [Names -> Firings \cup {NoDump}]
      BY <1>b, <2>2, <2>6 DEF FillFails
    <3> QED BY <2>1, <2>2, <2>6, <3>1 DEF FillFails, TypeOK
  <2>7. CASE Save(f)
    <3>1. PICK n \in Names : rows' = rows \cup {[dump |-> f, path |-> n]}
      BY <2>2, <2>7 DEF Save
    <3>2. rows' \subseteq [dump : Firings, path : Names]
      BY <3>1 DEF TypeOK
    <3> QED BY <2>1, <2>7, <3>2 DEF Save, TypeOK
  <2> QED BY <1>5, <2>3, <2>4, <2>5, <2>6, <2>7 DEF Execute
<1> QED BY <1>0, <1>1, <1>2, <1>3, <1>4, <1>5 DEF Next

(* Orders, firings, files and rows keep their types, and an order fires no *)
(* more often than ThreadService.getRepeatCount says.                      *)
THEOREM TypeCorrect == Spec => []TypeOK
  BY TypeInit, TypeStep, PTL DEF Spec

-----------------------------------------------------------------------------
(* The invariant of firings, files and rows *)

(* The name n is that of f, or of a later one of its order that began while *)
(* both were at work.                                                      *)
NameFor(f, n) ==
    \E g \in Firings : /\ g[1] = f[1]
                       /\ begun[g] # 0 /\ begun[f] <= begun[g]
                       /\ NameOf(g) = n
                       /\ g = f \/ {f, g} \subseteq mixed

(* The dump of f is where its row will lead, or was lost for a known reason. *)
Kept(f) == files[NameOf(f)] = f \/ f \in failed \cup mixed \/ Shared(f)

(* Where a firing is, with the paths that it may find in dumpInfo.         *)
FiringOf(f) ==
    /\ begun[f] <= now
    /\ stage[f] = "none" => begun[f] = 0
    /\ stage[f] \in {"dump", "fill", "save", "done"} => begun[f] # 0
    /\ f[2] > fired[f[1]] => stage[f] = "none"
    /\ Active(f) => \A n \in paths[f] : NameFor(f, n)
    /\ stage[f] = "fill" => NameFor(f, target[f])
    /\ stage[f] = "save" => Kept(f)

(* What is in a file was put there by a firing for which it has the name.  *)
FileOf(n) == files[n] # NoDump => /\ files[n] \in Firings
                                  /\ stage[files[n]] \in {"save", "done", "lost"}
                                  /\ begun[files[n]] # 0
                                  /\ NameFor(files[n], n)

RowOf(r) == stage[r.dump] = "done" /\ NameFor(r.dump, r.path) /\ Kept(r.dump)

Inv ==
    /\ TypeOK
    /\ \A f \in Firings : FiringOf(f)
    /\ \A n \in Names : FileOf(n)
    /\ \A r \in rows : RowOf(r)

LEMMA InvInit == Init => Inv
<1> SUFFICES ASSUME Init PROVE Inv
  OBVIOUS
<1>1. \A f \in Firings : FiringOf(f)
  BY DEF Init, FiringOf, Active
<1>2. (\A n \in Names : FileOf(n)) /\ (\A r \in rows : RowOf(r))
  BY DEF Init, FileOf
<1> QED BY <1>1, <1>2, TypeInit DEF Inv

(* A firing that has begun keeps its beginning, so its name, and what it   *)
(* shares it with.                                                         *)
LEMMA BegunStays ==
    ASSUME Inv, [Next]_vars, NEW g \in Firings, begun[g] # 0
    PROVE  begun'[g] = begun[g] /\ NameOf(g)' = NameOf(g)
<1>1. begun'[g] = begun[g]
  <2>1. ASSUME NEW o \in Orders, Fire(o) PROVE begun'[g] = begun[g]
    <3>1. fired[o] \in Nat /\ g[2] \in Nat /\ FiringOf(g)
      <4>1. fired \in [Orders -> 0 .. MaxCount] /\ FiringOf(g) /\ TypeOK
        BY DEF Inv, TypeOK
      <4> QED BY <4>1, FiringFacts, DumpsAssumption
    <3>2. g # <<o, fired[o] + 1>>
      BY <3>1 DEF FiringOf
    <3> QED BY <2>1, <3>2 DEF Fire, Inv, TypeOK
  <2>2. CASE UNCHANGED begun
    BY <2>2
  <2> QED BY <2>1, <2>2 DEF Next, vars, Tick, Restart, Order, Execute, DumpFails, Open, OpenFails,
                            Fill, FillFails, Save, SaveFails
<1> QED BY <1>1 DEF NameOf, Name

LEMMA SharedStays ==
    ASSUME Inv, [Next]_vars, NEW f \in Firings, begun[f] # 0, Shared(f)
    PROVE  Shared(f)'
<1>1. PICK g \in Firings \ {f} : begun[g] # 0 /\ NameOf(g) = NameOf(f)
  BY DEF Shared
<1>2. begun'[g] # 0 /\ NameOf(g)' = NameOf(f)'
  BY <1>1, BegunStays
<1> QED BY <1>2 DEF Shared

(* Firings that were at work together stay so recorded.                    *)
LEMMA MixedGrows == [Next]_vars => mixed \subseteq mixed'
  BY DEF Next, vars, Tick, Restart, Order, Fire, Execute, DumpFails, Open, OpenFails,
         Fill, FillFails, Save, SaveFails

(* A name for a firing stays one.                                          *)
LEMMA NameForStays ==
    ASSUME Inv, [Next]_vars, NEW f \in Firings, begun[f] # 0, NEW n, NameFor(f, n)
    PROVE  NameFor(f, n)'
<1>1. PICK g \in Firings : /\ g[1] = f[1]
                           /\ begun[g] # 0 /\ begun[f] <= begun[g]
                           /\ NameOf(g) = n
                           /\ g = f \/ {f, g} \subseteq mixed
  BY DEF NameFor
<1>2. begun'[g] = begun[g] /\ NameOf(g)' = n /\ begun'[f] = begun[f]
  BY <1>1, BegunStays
<1>3. g = f \/ {f, g} \subseteq mixed'
  BY <1>1, MixedGrows
<1> QED BY <1>1, <1>2, <1>3 DEF NameFor

(* Files change only under a name that the firing which writes may have.   *)
LEMMA FilesStay ==
    ASSUME Inv, [Next]_vars, NEW n \in Names, files'[n] # files[n]
    PROVE  \E g \in Firings :
              /\ NameFor(g, n) /\ begun[g] # 0
              /\ stage[g] \in {"dump", "fill"}
              /\ \/ files'[n] = NoDump
                 \/ Fill(g) /\ files'[n] = g
<1>1. PICK g \in Firings : Open(g) \/ Fill(g) \/ FillFails(g)
  BY DEF Next, vars, Tick, Restart, Order, Fire, Execute, DumpFails, OpenFails, Save, SaveFails
<1>2. FiringOf(g) /\ files \in [Names -> Firings \cup {NoDump}]
  BY DEF Inv, TypeOK
<1>3. CASE Open(g)
  <2>1. PICK p \in paths[g] : files' = [files EXCEPT ![p] = NoDump]
    BY <1>3 DEF Open
  <2>2. NameFor(g, p) /\ begun[g] # 0
    BY <1>2, <1>3, <2>1 DEF FiringOf, Open, Active
  <2>3. n = p /\ files'[n] = NoDump
    BY <1>2, <2>1
  <2> QED BY <1>3, <2>2, <2>3 DEF Open
<1>4. CASE Fill(g)
  <2>1. PICK c \in {g, NoDump} : files' = [files EXCEPT ![target[g]] = c]
    BY <1>4 DEF Fill
  <2>2. NameFor(g, target[g]) /\ begun[g] # 0
    BY <1>2, <1>4 DEF FiringOf, Fill
  <2>3. n = target[g] /\ files'[n] = c
    BY <1>2, <2>1
  <2> QED BY <1>4, <2>1, <2>2, <2>3 DEF Fill
<1>5. CASE FillFails(g)
  <2>1. PICK c \in {files[target[g]], NoDump} : files' = [files EXCEPT ![target[g]] = c]
    BY <1>5 DEF FillFails
  <2>2. NameFor(g, target[g]) /\ begun[g] # 0
    BY <1>2, <1>5 DEF FiringOf, FillFails
  <2>3. n = target[g] /\ files'[n] = c
    BY <1>2, <2>1
  <2> QED BY <1>5, <2>1, <2>2, <2>3 DEF FillFails
<1> QED BY <1>1, <1>3, <1>4, <1>5

(* Whoever may write under the name of f is f, or f was at work together    *)
(* with another or shares its name.                                        *)
LEMMA RivalsKnown ==
    ASSUME NEW f \in Firings, NEW g \in Firings, NameFor(g, NameOf(f))
    PROVE  g = f \/ f \in mixed \/ Shared(f)
<1>1. PICK h \in Firings : /\ begun[h] # 0
                           /\ NameOf(h) = NameOf(f)
                           /\ h = g \/ {g, h} \subseteq mixed
  BY DEF NameFor
<1> QED BY <1>1 DEF Shared

(* Nobody but a firing with the same name, or one of the order that was at *)
(* work together with f, takes its finished dump away.                     *)
LEMMA KeptStays ==
    ASSUME Inv, [Next]_vars, NEW f \in Firings, stage[f] \in {"save", "done"}, Kept(f)
    PROVE  Kept(f)'
<1>1. begun[f] # 0 /\ begun[f] \in DOMAIN Readings
  BY DEF Inv, FiringOf, TypeOK
<1>2. NameOf(f)' = NameOf(f) /\ NameOf(f) \in Names
  BY <1>1, BegunStays, NameFacts DEF NameOf
<1>3. CASE Shared(f)
  BY <1>1, <1>3, SharedStays DEF Kept
<1>4. CASE f \in failed \cup mixed
  <2>1. failed \subseteq failed'
    BY DEF Next, vars, Tick, Restart, Order, Fire, Execute, DumpFails, Open, OpenFails,
           Fill, FillFails, Save, SaveFails
  <2> QED BY <1>4, <2>1, MixedGrows DEF Kept
<1>5. CASE files[NameOf(f)] = f
  <2>1. CASE files'[NameOf(f)] = files[NameOf(f)]
    BY <1>2, <1>5, <2>1 DEF Kept
  <2>2. CASE files'[NameOf(f)] # files[NameOf(f)]
    <3>1. PICK g \in Firings : /\ NameFor(g, NameOf(f)) /\ begun[g] # 0
                               /\ stage[g] \in {"dump", "fill"}
      BY <1>2, <2>2, FilesStay
    <3>2. f \in mixed \/ Shared(f)
      BY <3>1, RivalsKnown
    <3> QED BY <1>1, <1>4, <3>2, SharedStays DEF Kept
  <2> QED BY <2>1, <2>2
<1> QED BY <1>3, <1>4, <1>5 DEF Kept

-----------------------------------------------------------------------------
(* A step keeps the invariant *)

(* A firing that is done stays so; one whose file is written does not      *)
(* write again.                                                            *)
LEMMA StageStays ==
    ASSUME Inv, [Next]_vars, NEW f \in Firings
    PROVE  /\ stage[f] = "done" => stage'[f] = "done"
           /\ stage[f] \in {"save", "done", "lost"} => stage'[f] \in {"save", "done", "lost"}
<1>0. /\ stage \in [Firings -> Stages] /\ FiringOf(f)
      /\ f[1] \in Orders /\ f[2] \in Nat /\ fired[f[1]] \in Nat
  <2>1. stage \in [Firings -> Stages] /\ FiringOf(f)
    BY DEF Inv, TypeOK
  <2> QED BY <2>1, FiringFacts DEF Inv
<1>1. ASSUME NEW o \in Orders, Fire(o)
      PROVE  stage[f] # "none" => stage'[f] = stage[f]
  <2>1. fired[o] \in Nat
    BY DumpsAssumption DEF Inv, TypeOK
  <2>2. stage[f] # "none" => f # <<o, fired[o] + 1>>
    BY <1>0, <2>1 DEF FiringOf
  <2> QED BY <1>0, <1>1, <2>2 DEF Fire, Goto
<1>2. CASE Restart
  <2>1. stage[f] = "done" => ~Active(f) /\ f[2] <= fired[f[1]]
    BY <1>0 DEF FiringOf, Active
  <2>2. stage[f] = "done" => f[2] \notin fired[f[1]] + 1 .. count[f[1]]
    BY <1>0, <2>1
  <2>3. stage'[f] \in {stage[f], "lost"} /\ (stage[f] = "done" => stage'[f] = "done")
    BY <1>0, <1>2, <2>1, <2>2 DEF Restart
  <2> QED BY <2>3
<1>3. ASSUME NEW g \in Firings, Execute(g)
      PROVE  /\ stage[f] = "done" => stage'[f] = "done"
             /\ stage[f] \in {"save", "done", "lost"} => stage'[f] \in {"save", "done", "lost"}
  BY <1>0, <1>3 DEF Execute, DumpFails, Open, OpenFails, Fill, FillFails, Save, SaveFails, Goto
<1>4. CASE UNCHANGED stage
  BY <1>4
<1> QED BY <1>1, <1>2, <1>3, <1>4 DEF Next, vars, Tick, Order

LEMMA FileStep ==
    ASSUME Inv, [Next]_vars, NEW n \in Names
    PROVE  FileOf(n)'
<1>1. CASE files[n] = NoDump /\ files'[n] = files[n]
  BY <1>1 DEF FileOf
<1>2. ASSUME NEW f \in Firings, files[n] = f, files'[n] = f
      PROVE  FileOf(n)'
  <2>1. CASE f = NoDump
    BY <1>2, <2>1 DEF FileOf
  <2>2. CASE f # NoDump
    <3>1. stage[f] \in {"save", "done", "lost"} /\ NameFor(f, n) /\ begun[f] # 0
      BY <1>2, <2>2 DEF Inv, FileOf
    <3>2. NameFor(f, n)' /\ stage'[f] \in {"save", "done", "lost"} /\ begun'[f] # 0
      BY <3>1, BegunStays, NameForStays, StageStays
    <3> QED BY <1>2, <3>2 DEF FileOf, NameFor, NameOf
  <2> QED BY <2>1, <2>2
<1>3. CASE files'[n] # files[n]
  <2>1. PICK g \in Firings : /\ NameFor(g, n) /\ begun[g] # 0
                             /\ files'[n] = NoDump \/ (Fill(g) /\ files'[n] = g)
    BY <1>3, FilesStay
  <2>2. CASE files'[n] = NoDump
    BY <2>2 DEF FileOf
  <2>3. CASE Fill(g) /\ files'[n] = g
    <3>1. stage'[g] = "save"
      BY <2>3 DEF Fill, Goto, Inv, TypeOK
    <3>2. NameFor(g, n)' /\ begun'[g] # 0
      BY <2>1, BegunStays, NameForStays
    <3> QED BY <2>3, <3>1, <3>2 DEF FileOf, NameFor, NameOf
  <2> QED BY <2>1, <2>2, <2>3
<1> QED BY <1>1, <1>2, <1>3 DEF Inv, TypeOK

LEMMA RowStep ==
    ASSUME Inv, [Next]_vars, NEW r \in rows'
    PROVE  RowOf(r)'
<1>1. CASE r \in rows
  <2>1. r.dump \in Firings /\ RowOf(r)
    BY <1>1 DEF Inv, TypeOK
  <2>2. begun[r.dump] # 0
    BY <2>1 DEF Inv, FiringOf, RowOf
  <2>3. Kept(r.dump)' /\ stage'[r.dump] = "done" /\ NameFor(r.dump, r.path)'
    BY <2>1, <2>2, KeptStays, StageStays, NameForStays DEF RowOf
  <2> QED BY <2>1, <2>3 DEF RowOf
<1>2. CASE r \notin rows
  <2>1. PICK f \in Firings : Save(f)
    BY <1>2 DEF Next, vars, Tick, Restart, Order, Fire, Execute, DumpFails, Open, OpenFails,
                Fill, FillFails, SaveFails
  <2>2. FiringOf(f) /\ stage[f] = "save" /\ begun[f] # 0 /\ Kept(f)
    BY <2>1 DEF Inv, FiringOf, Save
  <2>3. PICK n \in paths[f] : rows' = rows \cup {[dump |-> f, path |-> n]}
    BY <2>1 DEF Save
  <2>4. r.dump = f /\ r.path = n
    BY <1>2, <2>3
  <2>5. NameFor(f, n)
    BY <2>2, <2>3 DEF FiringOf, Active
  <2>6. Kept(f)' /\ NameFor(f, n)'
    BY <2>2, <2>5, KeptStays, NameForStays
  <2>7. stage'[f] = "done"
    BY <2>1 DEF Save, Goto, Inv, TypeOK
  <2> QED BY <2>4, <2>6, <2>7 DEF RowOf
<1> QED BY <1>1, <1>2

LEMMA FiringStep ==
    ASSUME Inv, [Next]_vars, NEW f \in Firings
    PROVE  FiringOf(f)'
<1>0. /\ FiringOf(f) /\ stage \in [Firings -> Stages] /\ begun[f] \in {0} \cup DOMAIN Readings
      /\ begun \in [Firings -> {0} \cup DOMAIN Readings] /\ paths \in [Firings -> SUBSET Names]
      /\ target \in [Firings -> Names] /\ files \in [Names -> Firings \cup {NoDump}]
      /\ fired \in [Orders -> 0 .. MaxCount]
  BY DEF Inv, TypeOK
<1>1. f[1] \in Orders /\ f[2] \in Nat /\ fired[f[1]] \in Nat
  BY FiringFacts DEF Inv
<1>2. stage[f] = "save" => Kept(f)'
  BY <1>0, KeptStays DEF FiringOf
<1>3. begun[f] # 0 => /\ begun'[f] = begun[f] /\ NameOf(f)' = NameOf(f)
                      /\ \A n : NameFor(f, n) => NameFor(f, n)'
  BY BegunStays, NameForStays
<1>4. now \in Nat /\ now' \in Nat /\ now <= now' /\ begun[f] \in Nat
  <2>1. now \in DOMAIN Readings /\ now' \in DOMAIN Readings
    BY TypeStep DEF Inv, TypeOK
  <2>2. now' = now \/ now' = now + 1
    BY DEF Next, vars, Tick, Restart, Order, Fire, Execute, DumpFails, Open, OpenFails,
           Fill, FillFails, Save, SaveFails
  <2> QED BY <1>0, <2>1, <2>2, NameFacts
<1>5. begun'[f] = begun[f] => begun'[f] <= now'
  BY <1>0, <1>4 DEF FiringOf
<1>6. CASE UNCHANGED <<stage, begun, fired, paths, target>>
  BY <1>0, <1>2, <1>3, <1>5, <1>6 DEF FiringOf, Active
<1>7. CASE Restart
  <2>1. fired'[f[1]] = count[f[1]] /\ count[f[1]] \in Nat /\ fired[f[1]] <= count[f[1]]
    BY <1>7, FiringFacts DEF Restart, Inv
  <2>2. stage'[f] = IF Active(f) \/ f[2] \in fired[f[1]] + 1 .. count[f[1]] THEN "lost"
                    ELSE stage[f]
    BY <1>7 DEF Restart
  <2>3. stage'[f] \notin {"dump", "fill", "save"} /\ stage'[f] \in {stage[f], "lost"}
    BY <2>2, <1>0 DEF Active
  <2>4. f[2] > count[f[1]] => stage'[f] = "none"
    BY <1>0, <1>1, <2>1, <2>2 DEF FiringOf, Active
  <2> QED BY <1>0, <1>5, <1>7, <2>1, <2>3, <2>4 DEF FiringOf, Active, Restart
<1>8. ASSUME NEW o \in Orders, Fire(o) PROVE FiringOf(f)'
  <2>0. PICK h : h = <<o, fired[o] + 1>>
    OBVIOUS
  <2>1. fired[o] \in Nat /\ now \in DOMAIN Readings /\ 0 \notin DOMAIN Readings
    BY <1>0, NameFacts, DumpsAssumption DEF Inv, TypeOK
  <2>2. CASE f = h
    <3>1. stage'[f] = "dump" /\ begun'[f] = now /\ fired'[f[1]] = f[2] /\ paths'[f] = {Name(now)}
      BY <1>0, <1>8, <2>0, <2>1, <2>2 DEF Fire, SetFilePath, Goto
    <3>2. begun'[f] # 0 /\ begun'[f] <= now' /\ begun'[f] <= begun'[f]
      BY <1>4, <1>8, <2>1, <3>1 DEF Fire
    <3>3. NameOf(f)' = Name(now)
      BY <3>1 DEF NameOf, Name
    <3>4. \A n : n = Name(now) => NameFor(f, n)'
      BY <3>2, <3>3 DEF NameFor
    <3> QED BY <1>1, <3>1, <3>2, <3>4 DEF FiringOf, Active
  <2>3. CASE f # h
    <3>1. stage'[f] = stage[f] /\ begun'[f] = begun[f] /\ target' = target
      BY <1>0, <1>8, <2>0, <2>3 DEF Fire, Goto
    <3>2. fired'[f[1]] \in Nat /\ fired'[f[1]] >= fired[f[1]]
      BY <1>0, <1>1, <1>8, <2>1 DEF Fire
    <3>3. Active(f) => begun[f] # 0
      BY <1>0 DEF FiringOf, Active
    <3>4. ASSUME Active(f), NEW n \in paths'[f] PROVE NameFor(f, n)'
      <4>1. CASE n \in paths[f]
        BY <1>0, <1>3, <3>3, <3>4, <4>1 DEF FiringOf
      <4>2. CASE n \notin paths[f]
        <5>1. f[1] = o /\ n = Name(now)
          BY <1>8, <2>0, <2>3, <3>4, <4>2 DEF Fire, SetFilePath
        <5>2. h \in Firings /\ h[1] = o
          <6>1. fired[o] + 1 \in 1 .. MaxCount
            <7>1. fired[o] < count[o]
              BY <1>8 DEF Fire
            <7>2. count[o] \in 0 .. MaxCount /\ MaxCount \in Nat
              BY DumpsAssumption DEF Inv, TypeOK
            <7> QED BY <2>1, <7>1, <7>2
          <6> QED BY <2>0, <6>1 DEF Firings
        <5>3. f \in mixed' /\ h \in mixed'
          BY <1>8, <2>0, <3>4, <5>1 DEF Fire, UnderWay
        <5>4. begun'[h] = now
          BY <1>0, <1>8, <2>0, <5>2 DEF Fire
        <5>5. NameOf(h)' = n /\ begun'[h] # 0 /\ begun'[f] <= begun'[h]
          <6>1. NameOf(h)' = Name(now)
            BY <5>4 DEF NameOf, Name
          <6> QED BY <1>0, <2>1, <3>1, <5>1, <5>4, <6>1 DEF FiringOf
        <5> QED BY <5>1, <5>2, <5>3, <5>5 DEF NameFor
      <4> QED BY <4>1, <4>2
    <3> QED BY <1>0, <1>1, <1>2, <1>3, <1>5, <3>1, <3>2, <3>3, <3>4 DEF FiringOf, Active
  <2> QED BY <2>2, <2>3
<1>9. ASSUME NEW g \in Firings, Execute(g) PROVE FiringOf(f)'
  <2>1. UNCHANGED <<begun, fired, paths>>
    BY <1>9 DEF Execute, DumpFails, Open, OpenFails, Fill, FillFails, Save, SaveFails
  <2>2. CASE f # g
    <3>1. stage'[f] = stage[f] /\ target'[f] = target[f]
      BY <1>0, <1>9, <2>2 DEF Execute, DumpFails, Open, OpenFails, Fill, FillFails, Save,
                              SaveFails, Goto
    <3> QED BY <1>0, <1>1, <1>2, <1>3, <1>5, <2>1, <3>1 DEF FiringOf, Active
  <2>3. CASE f = g
    <3>1. Active(f) /\ begun[f] # 0
      BY <1>0, <1>9, <2>3 DEF Execute, DumpFails, Open, OpenFails, Fill, FillFails, Save,
                              SaveFails, FiringOf, Active
    <3>2. f[2] <= fired[f[1]]
      BY <1>0, <1>1, <3>1 DEF FiringOf, Active
    <3>3. NameOf(f)' = NameOf(f) /\ begun'[f] # 0 /\ \A n \in paths'[f] : NameFor(f, n)'
      BY <1>0, <1>3, <2>1, <3>1 DEF FiringOf
    <3> SUFFICES /\ stage'[f] # "none"
                 /\ stage'[f] = "fill" => NameFor(f, target[f])'
                 /\ stage'[f] = "save" => Kept(f)'
      BY <1>1, <1>5, <2>1, <3>1, <3>2, <3>3 DEF FiringOf, Active
    <3>4. CASE Open(f)
      <4>1. stage'[f] = "fill" /\ target'[f] \in paths[f]
        BY <1>0, <3>4 DEF Open, Goto
      <4> QED BY <2>1, <3>3, <4>1
    <3>5. CASE Fill(f)
      <4>1. stage'[f] = "save" /\ stage[f] = "fill" /\ NameFor(f, target[f])
        BY <1>0, <3>5 DEF Fill, Goto, FiringOf
      <4>2. PICK c \in {f, NoDump} : /\ c = NoDump => files[target[f]] # NoDump
                                     /\ files' = [files EXCEPT ![target[f]] = c]
        BY <3>5 DEF Fill
      <4>3. NameOf(f) \in Names /\ (target[f] = NameOf(f) \/ f \in mixed)
        BY <1>0, <3>1, <4>1, NameFacts DEF NameFor, NameOf
      <4>4. CASE f \in mixed
        BY <4>1, <4>4, MixedGrows DEF Kept
      <4>5. CASE c = f /\ target[f] = NameOf(f)
        BY <1>0, <3>3, <4>1, <4>2, <4>3, <4>5 DEF Kept
      <4>6. CASE c = NoDump /\ target[f] = NameOf(f)
        <5> DEFINE h == files[NameOf(f)]
        <5>1. h \in Firings /\ stage[h] \in {"save", "done", "lost"} /\ NameFor(h, NameOf(f))
          BY <4>2, <4>3, <4>6 DEF Inv, FileOf
        <5>2. h # f
          BY <4>1, <5>1
        <5>3. f \in mixed \/ Shared(f)
          BY <5>1, <5>2, RivalsKnown
        <5> QED BY <3>1, <4>1, <4>4, <5>3, SharedStays DEF Kept
      <4> QED BY <4>2, <4>3, <4>4, <4>5, <4>6
    <3>6. CASE OpenFails(f) \/ FillFails(f)
      <4>1. stage'[f] = "save" /\ f \in failed'
        BY <1>0, <3>6 DEF OpenFails, FillFails, Goto
      <4> QED BY <4>1 DEF Kept
    <3>7. CASE DumpFails(f) \/ Save(f) \/ SaveFails(f)
      BY <1>0, <3>7 DEF DumpFails, Save, SaveFails, Goto
    <3> QED BY <1>9, <2>3, <3>4, <3>5, <3>6, <3>7 DEF Execute
  <2> QED BY <2>2, <2>3
<1> QED BY <1>6, <1>7, <1>8, <1>9 DEF Next, vars, Tick, Order

LEMMA InvStep == Inv /\ [Next]_vars => Inv'
<1> SUFFICES ASSUME Inv, [Next]_vars PROVE Inv'
  OBVIOUS
<1>1. TypeOK'
  BY TypeStep DEF Inv
<1>2. \A f \in Firings : FiringOf(f)'
  BY FiringStep
<1>3. \A n \in Names : FileOf(n)'
  BY FileStep
<1>4. \A r \in rows' : RowOf(r)'
  BY RowStep
<1> QED BY <1>1, <1>2, <1>3, <1>4 DEF Inv

LEMMA InvAlways == Spec => []Inv
  BY InvInit, InvStep, PTL DEF Spec

-----------------------------------------------------------------------------
(* A row of jmx_dump leads to its dump, except after a failed write, a name *)
(* that was given twice or when the next firing of the order came before   *)
(* this one had ended: JmxThreadDumpProcessor.dump with FilePrintWriter.   *)
THEOREM RowsLeadToDumps == Spec => []RowsOwnDump
<1>1. ASSUME Inv, NEW r \in rows
      PROVE  files[r.path] = r.dump \/ r.dump \in failed \cup mixed \/ Shared(r.dump)
  <2>1. r.dump \in Firings /\ NameFor(r.dump, r.path) /\ Kept(r.dump)
    BY <1>1 DEF Inv, TypeOK, RowOf
  <2>2. r.path = NameOf(r.dump) \/ r.dump \in mixed
    BY <2>1 DEF NameFor
  <2> QED BY <2>1, <2>2 DEF Kept
<1>2. Inv => RowsOwnDump
  BY <1>1 DEF RowsOwnDump
<1> QED BY <1>2, InvAlways, PTL

(* However firings overlap, fail or are lost, a row leads to a file named   *)
(* for its order no earlier than its dump was begun, and into no dump of   *)
(* an order that does not have that name: ThreadDumpJob.execute changes    *)
(* the path of its own order's dumpInfo only.                              *)
THEOREM RowsLeadToOrders == Spec => []RowsKeepOrder
<1>1. ASSUME Inv, NEW r \in rows
      PROVE  /\ \E g \in Firings : /\ g[1] = r.dump[1]
                                   /\ begun[r.dump] \in 1 .. begun[g]
                                   /\ NameOf(g) = r.path
             /\ files[r.path] # NoDump => Named(r.path, files[r.path][1])
  <2>1. /\ r.dump \in Firings /\ r.path \in Names /\ NameFor(r.dump, r.path)
        /\ stage[r.dump] = "done" /\ FiringOf(r.dump) /\ FileOf(r.path)
    BY <1>1 DEF Inv, TypeOK, RowOf
  <2>2. begun[r.dump] # 0 /\ begun \in [Firings -> {0} \cup 1 .. Len(Readings)]
    BY <1>1, <2>1, NameFacts DEF FiringOf, Inv, TypeOK
  <2>3. PICK g \in Firings : /\ g[1] = r.dump[1] /\ begun[r.dump] <= begun[g]
                            /\ NameOf(g) = r.path
    BY <2>1 DEF NameFor
  <2>4. begun[r.dump] \in 1 .. begun[g]
    BY <2>1, <2>2, <2>3, NameFacts
  <2>5. files[r.path] # NoDump => Named(r.path, files[r.path][1])
    BY <2>1 DEF FileOf, NameFor, Named
  <2> QED BY <2>3, <2>4, <2>5
<1>2. Inv => RowsKeepOrder
  BY <1>1 DEF RowsKeepOrder
<1> QED BY <1>2, InvAlways, PTL

-----------------------------------------------------------------------------
(* The bookkeeping of an order, whether its firings overlap or not *)

(* A firing waits exactly while its order has not come to it.              *)
Turn(f) == stage[f] = "none" <=> f[2] > fired[f[1]]

(* Nothing but a restart and the writing of a file can fail.               *)
Recordable == {"remote", "db"} \cap Faults = {}

Recorded(f) == stage[f] = "done" => \E r \in rows : r.dump = f

(* A dump has one row, saved at its end.                                   *)
OneRow ==
    /\ \A r \in rows : stage[r.dump] = "done"
    /\ \A r, s \in rows : r.dump = s.dump => r = s

Books ==
    /\ TypeOK
    /\ \A f \in Firings : Turn(f)
    /\ OneRow
    /\ Recordable => \A f \in Firings : Recorded(f)

LEMMA BooksInit == Init => Books
<1> SUFFICES ASSUME Init PROVE Books
  OBVIOUS
<1>1. TypeOK
  BY TypeInit
<1>2. ASSUME NEW f \in Firings PROVE Turn(f)
  <2>1. f[1] \in Orders /\ f[2] \in 1 .. MaxCount
    BY DEF Firings
  <2>2. stage[f] = "none" /\ fired[f[1]] = 0
    BY <2>1 DEF Init
  <2> QED BY <2>1, <2>2, DumpsAssumption DEF Turn
<1>3. OneRow /\ \A f \in Firings : Recorded(f)
  BY DEF Init, OneRow, Recorded
<1> QED BY <1>1, <1>2, <1>3 DEF Books

(* A step keeps every firing in its turn.                                  *)
LEMMA TurnStep ==
    ASSUME Books, [Next]_vars, NEW f \in Firings
    PROVE  Turn(f)'
<1>0. /\ Turn(f) /\ stage \in [Firings -> Stages] /\ fired \in [Orders -> 0 .. MaxCount]
      /\ f[1] \in Orders /\ f[2] \in Nat /\ fired[f[1]] \in Nat
      /\ count[f[1]] \in Nat /\ fired[f[1]] <= count[f[1]]
  <2>1. TypeOK /\ Turn(f)
    BY DEF Books
  <2> QED BY <2>1, FiringFacts DEF TypeOK
<1>1. CASE Restart
  <2>1. fired'[f[1]] = count[f[1]]
    BY <1>1 DEF Restart
  <2>2. stage'[f] = IF Active(f) \/ f[2] \in fired[f[1]] + 1 .. count[f[1]] THEN "lost"
                    ELSE stage[f]
    BY <1>1 DEF Restart
  <2>3. CASE f[2] > count[f[1]]
    BY <1>0, <2>1, <2>2, <2>3 DEF Turn, Active
  <2>4. CASE f[2] <= count[f[1]]
    BY <1>0, <2>1, <2>2, <2>4 DEF Turn, Active
  <2> QED BY <1>0, <2>3, <2>4
<1>2. ASSUME NEW o \in Orders, Fire(o) PROVE Turn(f)'
  <2>1. fired[o] \in Nat /\ fired' = [fired EXCEPT ![o] = @ + 1]
    BY <1>0, <1>2, DumpsAssumption DEF Fire
  <2>2. stage' = [stage EXCEPT ![<<o, fired[o] + 1>>] = "dump"]
    BY <1>2 DEF Fire, Goto
  <2>3. CASE f = <<o, fired[o] + 1>>
    BY <1>0, <2>1, <2>2, <2>3 DEF Turn
  <2>4. CASE f[1] = o /\ f # <<o, fired[o] + 1>>
    <3>1. f = <<f[1], f[2]>>
      BY DEF Firings
    <3>2. f[2] # fired[o] + 1
      BY <2>4, <3>1
    <3> QED BY <1>0, <2>1, <2>2, <2>4, <3>2 DEF Turn
  <2>5. CASE f[1] # o
    BY <1>0, <2>1, <2>2, <2>5 DEF Turn
  <2> QED BY <2>3, <2>4, <2>5
<1>3. ASSUME NEW g \in Firings, Execute(g) PROVE Turn(f)'
  <2>1. fired' = fired /\ stage[g] # "none"
    BY <1>3 DEF Execute, DumpFails, Open, OpenFails, Fill, FillFails, Save, SaveFails
  <2>2. (stage'[f] = "none") <=> (stage[f] = "none")
    BY <1>0, <1>3, <2>1 DEF Execute, DumpFails, Open, OpenFails, Fill, FillFails, Save,
                            SaveFails, Goto
  <2> QED BY <1>0, <2>1, <2>2 DEF Turn
<1>4. CASE UNCHANGED <<stage, fired>>
  BY <1>0, <1>4 DEF Turn
<1> QED BY <1>1, <1>2, <1>3, <1>4 DEF Next, vars, Tick, Order

(* A firing that is done stays so, and only Save makes one done that leaves *)
(* a row.                                                                  *)
LEMMA DoneStays ==
    ASSUME Books, [Next]_vars, NEW f \in Firings, stage[f] = "done"
    PROVE  stage'[f] = "done"
<1>0. Turn(f) /\ stage \in [Firings -> Stages] /\ fired \in [Orders -> 0 .. MaxCount]
  BY DEF Books, TypeOK
<1>1. f[1] \in Orders /\ f[2] \in Nat /\ fired[f[1]] \in Nat /\ f[2] <= fired[f[1]]
  <2>1. TypeOK
    BY DEF Books
  <2> QED BY <1>0, <2>1, FiringFacts DEF Turn
<1>2. ASSUME NEW o \in Orders, Fire(o) PROVE stage'[f] = "done"
  <2>1. fired[o] \in Nat
    BY <1>0, DumpsAssumption
  <2>2. f # <<o, fired[o] + 1>>
    BY <1>1, <2>1
  <2> QED BY <1>0, <1>2, <2>2 DEF Fire, Goto
<1>3. CASE Restart
  BY <1>0, <1>1, <1>3 DEF Restart, Active
<1>4. ASSUME NEW g \in Firings, Execute(g) PROVE stage'[f] = "done"
  BY <1>0, <1>4 DEF Execute, DumpFails, Open, OpenFails, Fill, FillFails, Save, SaveFails, Goto
<1>5. CASE UNCHANGED stage
  BY <1>5
<1> QED BY <1>2, <1>3, <1>4, <1>5 DEF Next, vars, Tick, Order

LEMMA BooksStep == Books /\ [Next]_vars => Books'
<1> SUFFICES ASSUME Books, [Next]_vars PROVE Books'
  OBVIOUS
<1>0. /\ TypeOK /\ OneRow /\ stage \in [Firings -> Stages]
      /\ rows \subseteq [dump : Firings, path : Names]
  BY DEF Books, TypeOK
<1>1. TypeOK' /\ \A f \in Firings : Turn(f)'
  BY TypeStep, TurnStep DEF Books
<1>2. \A r \in rows : stage'[r.dump] = "done"
  BY <1>0, DoneStays DEF OneRow
<1>3. ASSUME NEW f \in Firings, Save(f)
      PROVE  OneRow' /\ (Recordable => \A g \in Firings : Recorded(g)')
  <2>1. PICK n \in paths[f] : rows' = rows \cup {[dump |-> f, path |-> n]}
    BY <1>3 DEF Save
  <2>2. stage[f] = "save" /\ stage' = [stage EXCEPT ![f] = "done"]
    BY <1>3 DEF Save, Goto
  <2>3. \A r \in rows : r.dump # f
    BY <2>2, <1>0 DEF OneRow
  <2>4. OneRow'
    BY <1>0, <1>2, <2>1, <2>2, <2>3 DEF OneRow
  <2>5. ASSUME Recordable, NEW g \in Firings PROVE Recorded(g)'
    <3>1. CASE g = f
      <4>1. [dump |-> f, path |-> n] \in rows'
        BY <2>1
      <4> QED BY <3>1, <4>1 DEF Recorded
    <3>2. CASE g # f
      <4>1. stage'[g] = "done" => \E r \in rows : r.dump = g
        BY <1>0, <2>2, <2>5, <3>2 DEF Recorded, Books
      <4> QED BY <2>1, <4>1 DEF Recorded
    <3> QED BY <3>1, <3>2
  <2> QED BY <2>4, <2>5
<1>4. ASSUME rows' = rows,
             \A f \in Firings : Recordable => (stage'[f] = "done" => stage[f] = "done")
      PROVE  OneRow' /\ (Recordable => \A g \in Firings : Recorded(g)')
  BY <1>0, <1>2, <1>4 DEF OneRow, Recorded, Books
<1>5. ASSUME NEW f \in Firings, Execute(f), ~Save(f)
      PROVE  /\ rows' = rows
             /\ \A g \in Firings : Recordable => (stage'[g] = "done" => stage[g] = "done")
  <2>1. rows' = rows
    BY <1>5 DEF Execute, DumpFails, Open, OpenFails, Fill, FillFails, SaveFails
  <2>2. Recordable => Open(f) \/ OpenFails(f) \/ Fill(f) \/ FillFails(f)
    BY <1>5 DEF Recordable, Execute, DumpFails, SaveFails
  <2>3. Recordable => stage'[f] \in {"fill", "save"} /\ \A g \in Firings \ {f} : stage'[g] = stage[g]
    BY <1>0, <2>2 DEF Open, OpenFails, Fill, FillFails, Goto
  <2>4. ASSUME Recordable, NEW g \in Firings, stage'[g] = "done"
        PROVE  stage[g] = "done"
    BY <2>3, <2>4
  <2> QED BY <2>1, <2>4
<1>6. ASSUME Tick \/ Restart \/ (\E o \in Orders : Order(o) \/ Fire(o)) \/ UNCHANGED vars
      PROVE  /\ rows' = rows
             /\ \A f \in Firings : stage'[f] = "done" => stage[f] = "done"
  <2>1. rows' = rows
    BY <1>6 DEF Tick, Restart, Order, Fire, vars
  <2>2. CASE Restart
    BY <1>0, <2>1, <2>2 DEF Restart
  <2>3. ASSUME NEW o \in Orders, Fire(o)
        PROVE  \A f \in Firings : stage'[f] = "done" => stage[f] = "done"
    BY <1>0, <2>3 DEF Fire, Goto
  <2>4. CASE UNCHANGED stage
    BY <2>1, <2>4
  <2> QED BY <1>6, <2>1, <2>2, <2>3, <2>4 DEF Tick, Order, vars
<1>7. OneRow' /\ (Recordable => \A f \in Firings : Recorded(f)')
  <2>1. ASSUME NEW f \in Firings, Execute(f)
        PROVE  OneRow' /\ (Recordable => \A g \in Firings : Recorded(g)')
    BY <1>3, <1>4, <1>5, <2>1
  <2>2. CASE Tick \/ Restart \/ (\E o \in Orders : Order(o) \/ Fire(o)) \/ UNCHANGED vars
    BY <1>4, <1>6, <2>2
  <2> QED BY <2>1, <2>2 DEF Next
<1> QED BY <1>1, <1>7 DEF Books

LEMMA BooksAlways == Spec => []Books
  BY BooksInit, BooksStep, PTL DEF Spec

(* An order skips none of its firings and begins none ahead of its turn,   *)
(* whether they overlap, fail or are lost: the trigger of                  *)
(* AbstractDumpScheduler.scheduleJob and JobThreadDump.execute.            *)
THEOREM FiringsComeInTurn == Spec => []FiringsInTurn
<1>1. ASSUME Books PROVE FiringsInTurn
  <2>1. ASSUME NEW f \in Firings
        PROVE  /\ f[2] <= fired[f[1]] => stage[f] # "none"
               /\ Active(f) => f[2] <= fired[f[1]]
    <3>1. Turn(f) /\ TypeOK
      BY <1>1 DEF Books
    <3>2. f[2] \in Nat /\ fired[f[1]] \in Nat
      BY <3>1, FiringFacts
    <3> QED BY <3>1, <3>2 DEF Turn, Active
  <2> QED BY <2>1 DEF FiringsInTurn
<1> QED BY <1>1, BooksAlways, PTL

(* A dump leaves exactly one row when server and database answer, also     *)
(* when its file could not be written: the swallowed exception of          *)
(* FilePrintWriter does not keep JmxThreadDumpProcessor from the insert.   *)
THEOREM DumpsAreRecorded == Spec => []DumpsRecorded
<1>1. ASSUME Books PROVE DumpsRecorded
  <2>1. ASSUME Recordable, NEW f \in Firings, stage[f] = "done"
        PROVE  \E r \in rows : {s \in rows : s.dump = f} = {r}
    <3>1. PICK r \in rows : r.dump = f
      BY <1>1, <2>1 DEF Books, Recorded
    <3>2. {s \in rows : s.dump = f} = {r}
      BY <1>1, <3>1 DEF Books, OneRow
    <3> QED BY <3>1, <3>2
  <2> QED BY <2>1 DEF DumpsRecorded, Recordable
<1> QED BY <1>1, BooksAlways, PTL
=============================================================================
