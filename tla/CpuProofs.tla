------------------------------- MODULE CpuProofs -------------------------------
(* What is proved of Cpu for every set of processors and routines: the     *)
(* trampoline and its stack serve one processor at a time as long as every *)
(* start is answered in time, no start is taken for another's even if not, *)
(* a service routine that has been removed does not run unless the lock of *)
(* its list was torn, and the calls of processors to one another are kept  *)
(* and made once.  At the end, of Timer for every set of timers,           *)
(* resolution and delay: no timer outlives its owner's stack frame in a    *)
(* queue, apart from the two races of the code; a timer is called once;    *)
(* and it is called in the tick in which it is due.                        *)
EXTENDS Cpu, Timer, SequenceTheorems, FiniteSetTheorems, TLAPS

ApTyped ==
  /\ issuer \in [pc : {"next", "sleep", "poll", "done"}, at : Aps \cup {Bsp}, sent : Nat]
  /\ tried \subseteq Aps /\ counted \subseteq Aps /\ cpu_on \in Aps \cup {Bsp, Zero}
  /\ ap \in [Aps -> {"off", "trampoline", "entry", "idle"}]
  /\ bspIdle \in BOOLEAN /\ late \in BOOLEAN /\ hit \in BOOLEAN

(* The processor that the boot processor waits for is one it has tried; it *)
(* is off until the start-up IPI, as are those that are not tried.         *)
IssuerInv == issuer.pc \in {"sleep", "poll"} => issuer.at \in tried
OffInv ==
  /\ \A a \in Aps \ tried : ap[a] = "off"
  /\ issuer.pc = "sleep" => ap[issuer.at] = "off"
OnInv == Zero \notin Aps /\ cpu_on \in Aps => ap[cpu_on] = "idle"

ApInv == ApTyped /\ IssuerInv /\ OffInv /\ OnInv /\ StackToItself /\ CountedExact

LEMMA ApInvInit == ApInit => ApInv
<1> USE ApAssumption
<1> SUFFICES ASSUME ApInit PROVE ApInv OBVIOUS
<1>1. /\ issuer = [pc |-> "next", at |-> Bsp, sent |-> 0]
      /\ tried = {} /\ counted = {} /\ late = FALSE /\ hit = FALSE /\ cpu_on = Zero
      /\ ap = [a \in Aps |-> "off"] /\ bspIdle = FALSE
  BY DEF ApInit
<1>2. \A a \in Aps : ap[a] = "off" BY <1>1
<1>3. ApTyped BY <1>1 DEF ApTyped
<1>4. IssuerInv /\ OffInv /\ OnInv BY <1>1, <1>2 DEF IssuerInv, OffInv, OnInv
<1>5. StackToItself /\ CountedExact BY <1>1, <1>2 DEF StackToItself, Starting, CountedExact
<1> QED BY <1>3, <1>4, <1>5 DEF ApInv

LEMMA ApTypedStep == ApTyped /\ IssuerInv /\ ApNext => ApTyped'
<1> USE ApAssumption
<1> SUFFICES ASSUME ApTyped, IssuerInv, ApNext PROVE ApTyped' OBVIOUS
<1> USE DEF ApTyped, IssuerInv
<1>1. CASE StartUp
  <2>1. issuer' = [pc |-> "poll", at |-> issuer.at, sent |-> issuer.sent + 1] BY <1>1 DEF StartUp
  <2>2. issuer.at \in Aps BY <1>1 DEF StartUp
  <2>3. ap' \in [Aps -> {"off", "trampoline", "entry", "idle"}] BY <1>1, <2>2 DEF StartUp
  <2> QED BY <1>1, <2>1, <2>3 DEF StartUp
<1>2. CASE Seen BY <1>2 DEF Seen
<1>3. CASE TimeOut BY <1>3 DEF TimeOut
<1>4. CASE Finish BY <1>4 DEF Finish
<1>5. ASSUME NEW a \in Aps, Begin(a) PROVE ApTyped' BY <1>5 DEF Begin
<1>6. ASSUME NEW a \in Aps, EnterAp(a) PROVE ApTyped' BY <1>6 DEF EnterAp
<1>7. ASSUME NEW a \in Aps, SignalOn(a) PROVE ApTyped' BY <1>7 DEF SignalOn
<1>8. CASE BspSignalOn BY <1>8 DEF BspSignalOn
<1> QED BY <1>1, <1>2, <1>3, <1>4, <1>5, <1>6, <1>7, <1>8 DEF ApNext

LEMMA ApInvStep == ApInv /\ ApNext => ApInv'
<1> USE ApAssumption
<1> SUFFICES ASSUME ApInv, ApNext PROVE ApInv' OBVIOUS
<1>a. ApTyped' BY ApTypedStep DEF ApInv
<1>b. ApTyped /\ IssuerInv /\ OffInv /\ OnInv /\ StackToItself /\ CountedExact BY DEF ApInv
<1>c. /\ issuer \in [pc : {"next", "sleep", "poll", "done"}, at : Aps \cup {Bsp}, sent : Nat]
      /\ issuer.pc \in {"next", "sleep", "poll", "done"} /\ issuer.at \in Aps \cup {Bsp}
      /\ tried \subseteq Aps /\ ap \in [Aps -> {"off", "trampoline", "entry", "idle"}]
  BY <1>b DEF ApTyped
<1> DEFINE Goal == IssuerInv' /\ OffInv' /\ OnInv' /\ StackToItself' /\ CountedExact'
<1> SUFFICES Goal BY <1>a DEF ApInv
<1> USE DEF IssuerInv, OffInv, OnInv, StackToItself, Starting, CountedExact
<1>1. CASE StartUp
  <2>1. issuer'.pc = "poll" /\ issuer'.at = issuer.at /\ issuer.at \in Aps
    BY <1>1, <1>b, <1>c DEF StartUp
  <2>2. \A a \in Aps : ap'[a] = IF a = issuer.at /\ ap[a] = "off" THEN "trampoline" ELSE ap[a]
    BY <1>1, <1>c DEF StartUp
  <2>3. /\ tried' = tried /\ counted' = counted /\ cpu_on' = cpu_on /\ late' = late /\ hit' = hit
        /\ issuer.pc \in {"sleep", "poll"} /\ issuer.at \in tried
    BY <1>1, <1>b DEF StartUp
  <2>4. IssuerInv' /\ OffInv' BY <2>1, <2>2, <2>3, <1>b
  <2>5. OnInv' BY <2>2, <2>3, <1>b DEF ApTyped
  <2>6. StackToItself' BY <2>1, <2>2, <2>3, <1>b
  <2>7. CountedExact' BY <2>1, <2>2, <2>3, <1>b DEF ApTyped
  <2> QED BY <2>4, <2>5, <2>6, <2>7
<1>2. CASE Seen
  <2>1. issuer'.pc = "next" /\ issuer'.at = issuer.at /\ issuer.at \in Aps
    BY <1>2, <1>b, <1>c DEF Seen
  <2> QED BY <1>2, <2>1, <1>b, <1>c DEF Seen, ApTyped
<1>3. CASE TimeOut
  <2>1. issuer'.pc = "next" /\ issuer'.at = issuer.at BY <1>3, <1>c DEF TimeOut
  <2> QED BY <1>3, <2>1, <1>b, <1>c DEF TimeOut
<1>4. CASE Finish
  <2>1. issuer'.pc = "done" /\ issuer.pc = "next" BY <1>4 DEF Finish
  <2> QED BY <1>4, <2>1, <1>b, <1>c DEF Finish
<1>5. ASSUME NEW a \in Aps, Begin(a) PROVE Goal
  <2>1. /\ issuer'.pc \in {"sleep", "next"} /\ issuer'.at = a /\ tried' = tried \cup {a}
        /\ cpu_on' = Zero /\ UNCHANGED <<counted, ap, late, hit>> /\ issuer.pc = "next" /\ a \notin tried
    BY <1>5, <1>c DEF Begin
  <2> QED BY <2>1, <1>b, <1>c DEF ApTyped
<1>6. ASSUME NEW a \in Aps, EnterAp(a) PROVE Goal
  <2>1. \A b \in Aps : ap'[b] = IF b = a THEN "entry" ELSE ap[b] BY <1>6, <1>c DEF EnterAp
  <2>2. ap[a] = "trampoline" /\ UNCHANGED <<issuer, tried, counted, cpu_on, late, hit>>
    BY <1>6 DEF EnterAp
  <2> QED BY <2>1, <2>2, <1>b, <1>c DEF ApTyped
<1>7. ASSUME NEW a \in Aps, SignalOn(a) PROVE Goal
  <2>1. \A b \in Aps : ap'[b] = IF b = a THEN "idle" ELSE ap[b] BY <1>7, <1>c DEF SignalOn
  <2>2. ap[a] = "entry" /\ cpu_on' = a /\ UNCHANGED <<issuer, tried, counted, late, hit>>
    BY <1>7 DEF SignalOn
  <2>3. Zero \notin Aps /\ ~late => issuer.pc = "poll" /\ issuer.at = a /\ Starting = {a}
    BY <2>2, <1>b
  <2>5. StackToItself' BY <2>1, <2>2, <2>3, <1>b
  <2>6. CountedExact' BY <2>1, <2>2, <2>3, <1>b DEF ApTyped
  <2>7. IssuerInv' /\ OffInv' /\ OnInv' BY <2>1, <2>2, <1>b, <1>c
  <2> QED BY <2>5, <2>6, <2>7
<1>8. CASE BspSignalOn
  <2>1. cpu_on' = Bsp /\ hit' = (hit \/ cpu_on \in Aps) /\ UNCHANGED <<issuer, tried, counted, ap, late>>
    BY <1>8 DEF BspSignalOn
  <2> QED BY <2>1, <1>b, <1>c
<1> QED BY <1>1, <1>2, <1>3, <1>4, <1>5, <1>6, <1>7, <1>8 DEF ApNext

LEMMA ApStill == ASSUME ApInv, UNCHANGED apVars PROVE ApInv'
BY DEF apVars, ApInv, ApTyped, IssuerInv, OffInv, OnInv, StackToItself, Starting, CountedExact

LEMMA ApAlways == ApSpec => []ApInv
<1>1. ApInv /\ [ApNext]_apVars => ApInv' BY ApInvStep, ApStill
<1> QED BY <1>1, ApInvInit, PTL DEF ApSpec

(* A processor that starts has the trampoline and the temporary stack to   *)
(* itself until its idle thread runs, and the boot processor waits for it  *)
(* (cpu_ap_start), unless a start times out.                               *)
THEOREM OneStarts == ApSpec => []StackToItself
<1>1. ApInv => StackToItself BY DEF ApInv
<1> QED BY <1>1, ApAlways, PTL

(* started_cpu counts processors whose idle threads run, whoever answers   *)
(* late; without a late answer, and unless the boot processor's own idle   *)
(* thread has stored over an answer, it misses none.                       *)
THEOREM Counts == ApSpec => []CountedExact
<1>1. ApInv => CountedExact BY DEF ApInv
<1> QED BY <1>1, ApAlways, PTL

(* The composition starts its processors as ApStart says.                  *)
THEOREM CpuStarts == Spec => ApSpec
<1>1. Init => ApInit BY DEF Init
<1>2. [Next]_vars => [ApNext]_apVars BY DEF Next, Starts, vars
<1> QED BY <1>1, <1>2, PTL DEF Spec, ApSpec

-------------------------------------------------------------------------------
(* The list of routines without one of them.                               *)
LEMMA WithoutOne ==
  ASSUME NEW q \in Seq(Routines), Distinct(q), NEW r \in Elements(q)
  PROVE  /\ Without(q, r) \in Seq(Routines) /\ Distinct(Without(q, r))
         /\ Elements(Without(q, r)) = Elements(q) \ {r}
<1> DEFINE w == Without(q, r)
<1>1. PICK k \in DOMAIN q : q[k] = r /\ k = CHOOSE i \in DOMAIN q : q[i] = r BY DEF Elements
<1>2. DOMAIN q = 1 .. Len(q) /\ Len(q) \in Nat BY LenProperties
<1>3. w = [j \in 1 .. Len(q) - 1 |-> IF j < k THEN q[j] ELSE q[j + 1]] BY <1>1 DEF Without
<1>4. /\ DOMAIN w = 1 .. Len(q) - 1
      /\ \A j \in 1 .. Len(q) - 1 : w[j] = IF j < k THEN q[j] ELSE q[j + 1]
  BY <1>3
<1> DEFINE from(j) == IF j < k THEN j ELSE j + 1
<1>5. \A j \in 1 .. Len(q) - 1 : from(j) \in DOMAIN q /\ from(j) # k /\ w[j] = q[from(j)]
  <2> HIDE DEF w
  <2> SUFFICES ASSUME NEW j \in 1 .. Len(q) - 1
               PROVE  from(j) \in DOMAIN q /\ from(j) # k /\ w[j] = q[from(j)]
    OBVIOUS
  <2>1. k \in 1 .. Len(q) /\ w[j] = IF j < k THEN q[j] ELSE q[j + 1] BY <1>1, <1>2, <1>4
  <2>2. CASE j < k BY <1>2, <2>1, <2>2
  <2>3. CASE ~(j < k) BY <1>2, <2>1, <2>3
  <2> QED BY <2>2, <2>3
<1>6. \A i, j \in 1 .. Len(q) - 1 : from(i) = from(j) => i = j BY <1>1, <1>2
<1> HIDE DEF from
<1>7. \A j \in 1 .. Len(q) - 1 : w[j] \in Elements(q) \ {r}
  BY <1>1, <1>5 DEF Distinct, Elements
<1>8. \A x \in Elements(q) : x \in Routines BY <1>2, ElementOfSeq DEF Elements
<1>9. w \in Seq(Routines)
  <2>1. Len(q) - 1 \in Nat BY <1>1, <1>2
  <2>2. \A j \in 1 .. Len(q) - 1 : (IF j < k THEN q[j] ELSE q[j + 1]) \in Routines
    BY <1>4, <1>7, <1>8
  <2> QED BY <1>3, <2>1, <2>2, IsASeq
<1> HIDE DEF w
<1>10. Distinct(w) BY <1>4, <1>5, <1>6 DEF Distinct
<1>11. Elements(w) \subseteq Elements(q) \ {r} BY <1>4, <1>7 DEF Elements
<1>12. ASSUME NEW x \in Elements(q) \ {r} PROVE x \in Elements(w)
  <2>1. PICK i \in DOMAIN q : q[i] = x BY DEF Elements
  <2>2. i # k BY <1>1, <2>1
  <2>3. i \in 1 .. Len(q) /\ k \in 1 .. Len(q) /\ Len(q) \in Nat BY <1>1, <1>2, <2>1
  <2>4. CASE i < k
    <3>1. i \in 1 .. Len(q) - 1 BY <2>3, <2>4
    <3>2. w[i] = q[i] BY <1>4, <2>4, <3>1
    <3> QED BY <1>4, <2>1, <3>1, <3>2 DEF Elements
  <2>5. CASE ~(i < k)
    <3>1. i - 1 \in 1 .. Len(q) - 1 /\ ~(i - 1 < k) /\ i - 1 + 1 = i BY <2>2, <2>3, <2>5
    <3>2. w[i - 1] = q[i] BY <1>4, <3>1
    <3> QED BY <1>4, <2>1, <3>1, <3>2 DEF Elements
  <2> QED BY <2>4, <2>5
<1> QED BY <1>9, <1>10, <1>11, <1>12 DEF w

(* ... and with another one in front.                                      *)
LEMMA WithOne ==
  ASSUME NEW q \in Seq(Routines), Distinct(q), NEW r \in Routines, r \notin Elements(q)
  PROVE  /\ <<r>> \o q \in Seq(Routines) /\ Distinct(<<r>> \o q)
         /\ Elements(<<r>> \o q) = Elements(q) \cup {r}
<1> DEFINE w == <<r>> \o q
<1>1. <<r>> \in Seq(Routines) /\ Len(<<r>>) = 1 /\ <<r>>[1] = r OBVIOUS
<1>2. DOMAIN q = 1 .. Len(q) /\ Len(q) \in Nat BY LenProperties
<1>3. /\ w \in Seq(Routines) /\ Len(w) = 1 + Len(q)
      /\ \A i \in 1 .. 1 + Len(q) : w[i] = IF i <= 1 THEN <<r>>[i] ELSE q[i - 1]
  BY <1>1, ConcatProperties
<1> HIDE DEF w
<1>4. DOMAIN w = 1 .. 1 + Len(q) BY <1>3, LenProperties
<1>5. w[1] = r /\ \A i \in 1 .. Len(q) : w[i + 1] = q[i]
  <2>1. w[1] = r BY <1>1, <1>2, <1>3
  <2>2. ASSUME NEW i \in 1 .. Len(q) PROVE w[i + 1] = q[i]
    <3>1. i + 1 \in 1 .. 1 + Len(q) /\ ~(i + 1 <= 1) /\ i + 1 - 1 = i BY <1>2
    <3> QED BY <1>3, <3>1
  <2> QED BY <2>1, <2>2
<1>6. \A i \in DOMAIN w : i = 1 \/ (i - 1 \in DOMAIN q /\ w[i] = q[i - 1]) BY <1>2, <1>3, <1>4
<1>7. Distinct(w) BY <1>2, <1>4, <1>5, <1>6 DEF Distinct, Elements
<1>8. Elements(w) \subseteq Elements(q) \cup {r} BY <1>4, <1>5, <1>6 DEF Elements
<1>9. r \in Elements(w) BY <1>2, <1>4, <1>5 DEF Elements
<1>10. Elements(q) \subseteq Elements(w)
  <2>1. \A i \in DOMAIN q : i + 1 \in DOMAIN w /\ w[i + 1] = q[i] BY <1>2, <1>4, <1>5
  <2> QED BY <2>1 DEF Elements
<1> QED BY <1>3, <1>7, <1>8, <1>9, <1>10 DEF w

(* What follows a routine in a list is in the list.                        *)
LEMMA AfterIn ==
  ASSUME NEW q \in Seq(Routines), NEW r \in Elements(q)
  PROVE  After(q, r) \in Elements(q) \cup {None}
<1> DEFINE i == CHOOSE i \in DOMAIN q : q[i] = r
<1>1. i \in DOMAIN q BY DEF Elements
<1>2. DOMAIN q = 1 .. Len(q) /\ Len(q) \in Nat BY LenProperties
<1>3. After(q, r) = IF i = Len(q) THEN None ELSE q[i + 1] BY DEF After
<1> HIDE DEF i
<1>4. i # Len(q) => i + 1 \in DOMAIN q BY <1>1, <1>2
<1> QED BY <1>3, <1>4 DEF Elements

LEMMA FirstIn ==
  ASSUME NEW q \in Seq(Routines)
  PROVE  First(q) \in Elements(q) \cup {None}
<1>1. CASE q = <<>> BY <1>1 DEF First
<1>2. CASE q # <<>>
  <2>1. First(q) = q[1] BY <1>2 DEF First
  <2>2. 1 \in DOMAIN q BY <1>2, LenProperties, EmptySeq
  <2> QED BY <2>1, <2>2 DEF Elements
<1> QED BY <1>1, <1>2

LEMMA ElementsTyped == ASSUME NEW q \in Seq(Routines) PROVE Elements(q) \subseteq Routines
<1>1. DOMAIN q = 1 .. Len(q) BY LenProperties
<1> QED BY <1>1, ElementOfSeq DEF Elements

-------------------------------------------------------------------------------
(* A dispatcher is a reader of the list it is at from its subtraction to   *)
(* its addition, and counted in the word of its lock; the routine that it  *)
(* is at is in the list, because a writer waits for the word to be whole.  *)
Places == {"thread", "load", "sub", "install", "uninstall", "installed", "removed"} \cup Inside

Readers(l) == {c \in Cpus : disp[c].pc \in Inside /\ disp[c].l = l}
Holders(l) == {c \in Cpus : disp[c].pc \in {"installed", "removed"} /\ disp[c].l = l}

Spot == [pc : Places, l : Lists, at : Routines \cup {None}]

IsrTyped ==
  /\ list \in [Lists -> Seq(Routines)]
  /\ \A l \in Lists : Distinct(list[l]) /\ \A r \in Elements(list[l]) : ListOf(r) = l
  /\ stale \in [Routines -> Routines \cup {None}]
  /\ DOMAIN word = Lists
  /\ disp \in [Cpus -> Spot]

BusyInv == \A c \in Cpus : disp[c].pc \in {"run", "get", "read", "make"} => disp[c].at # None

(* Writers are at different routines, each where its list has it or not.   *)
WriterOK(c) ==
  /\ Writing(c) => disp[c].at # None /\ disp[c].l = ListOf(disp[c].at)
  /\ disp[c].pc \in {"install", "removed"} => disp[c].at \notin Elements(list[disp[c].l])
  /\ At(c, "uninstall") => disp[c].at \in Elements(list[disp[c].l])
  /\ At(c, "install") => disp[c].at \notin gone
WritersInv ==
  /\ \A c \in Cpus : WriterOK(c)
  /\ \A c, d \in Cpus : Writing(c) /\ Writing(d) /\ c # d => disp[c].at # disp[d].at

ListedInv == gone \subseteq Routines /\ \A l \in Lists : Elements(list[l]) \cap gone = {}

CountOK(l) ==
  IF Holders(l) = {} THEN word[l] = MAXV - Cardinality(Readers(l))
  ELSE word[l] = 0 /\ Readers(l) = {} /\ \E c \in Cpus : Holders(l) = {c}

InList(c) == disp[c].pc \in Inside => disp[c].at \in Elements(list[disp[c].l]) \cup {None}

IsrInv ==
  /\ IsrTyped /\ BusyInv /\ WritersInv /\ ListedInv
  /\ ~torn => (\A l \in Lists : CountOK(l)) /\ \A c \in Cpus : InList(c)

LEMMA ReadersCount ==
  ASSUME NEW l
  PROVE  /\ IsFiniteSet(Readers(l)) /\ Cardinality(Readers(l)) \in Nat
         /\ Cardinality(Readers(l)) < MAXV /\ MAXV \in Nat
         /\ (Cardinality(Readers(l)) = 0) <=> (Readers(l) = {})
         /\ \A c \in Cpus \ Readers(l) :
              Cardinality(Readers(l) \cup {c}) = Cardinality(Readers(l)) + 1
         /\ \A c \in Readers(l) : Cardinality(Readers(l) \ {c}) = Cardinality(Readers(l)) - 1
<1> USE IsrAssumption
<1>1. Readers(l) \subseteq Cpus BY DEF Readers
<1>2. IsFiniteSet(Readers(l)) /\ Cardinality(Readers(l)) <= Cardinality(Cpus) BY <1>1, FS_Subset
<1>3. Cardinality(Readers(l)) \in Nat /\ Cardinality(Cpus) \in Nat BY <1>2, FS_CardinalityType
<1>4. Cardinality(Readers(l)) < MAXV BY <1>2, <1>3
<1>5. (Cardinality(Readers(l)) = 0) <=> (Readers(l) = {}) BY <1>2, FS_EmptySet
<1>6. \A c \in Cpus \ Readers(l) : Cardinality(Readers(l) \cup {c}) = Cardinality(Readers(l)) + 1
  BY <1>2, FS_AddElement
<1>7. \A c \in Readers(l) : Cardinality(Readers(l) \ {c}) = Cardinality(Readers(l)) - 1
  BY <1>2, FS_RemoveElement
<1> QED BY <1>2, <1>3, <1>4, <1>5, <1>6, <1>7

LEMMA IsrInvInit == IsrInit => IsrInv
<1> USE IsrAssumption
<1> SUFFICES ASSUME IsrInit PROVE IsrInv OBVIOUS
<1>1. /\ list = Boot /\ gone = {} /\ disp = [c \in Cpus |-> Outside]
      /\ stale = [r \in Routines |-> None] /\ word = [l \in Lists |-> MAXV]
  BY DEF IsrInit
<1>2. \A c \in Cpus : disp[c] = [pc |-> "thread", l |-> "handlers", at |-> None]
  BY <1>1 DEF Outside
<1>3. [pc |-> "thread", l |-> "handlers", at |-> None] \in Spot BY DEF Spot, Places, Lists
<1>4. disp \in [Cpus -> Spot] BY <1>1, <1>3 DEF Outside
<1>5. IsrTyped 
  <2>1. stale \in [Routines -> Routines \cup {None}] BY <1>1
  <2>2. DOMAIN word = Lists BY <1>1
  <2> QED BY <1>1, <1>4, <2>1, <2>2 DEF IsrTyped
<1>6. \A c \in Cpus : disp[c].pc = "thread" BY <1>2
<1>7. BusyInv /\ WritersInv /\ ListedInv
  BY <1>1, <1>6 DEF BusyInv, WritersInv, WriterOK, Writing, At, ListedInv
<1>8. \A l \in Lists : Readers(l) = {} /\ Holders(l) = {} BY <1>6 DEF Readers, Holders, Inside
<1>9. \A l \in Lists : CountOK(l)
  <2> TAKE l \in Lists
  <2>1. Cardinality(Readers(l)) = 0 BY <1>8, FS_EmptySet
  <2> QED BY <1>1, <1>8, <2>1 DEF CountOK
<1>10. \A c \in Cpus : InList(c) BY <1>6 DEF InList, Inside
<1> QED BY <1>5, <1>7, <1>9, <1>10 DEF IsrInv

(* A step of one CPU that does not change a list or a lock, and by which   *)
(* the CPU neither comes in nor goes out.                                  *)
LEMMA QuietStep ==
  ASSUME IsrInv, NEW c \in Cpus, NEW d \in Spot, disp' = [disp EXCEPT ![c] = d],
         UNCHANGED <<list, stale, word, gone, torn>>,
         \/ /\ disp[c].pc \in Inside /\ d.pc \in Inside /\ d.l = disp[c].l
            /\ d.pc \in {"run", "get", "read", "make"} => d.at # None
            /\ ~torn => d.at \in Elements(list[d.l]) \cup {None}
         \/ disp[c].pc \in {"thread", "load", "sub"} /\ d.pc \in {"thread", "load", "sub"}
  PROVE  IsrInv'
<1>0. IsrTyped /\ BusyInv /\ WritersInv /\ ListedInv BY DEF IsrInv
<1>1. disp'[c] = d /\ \A e \in Cpus \ {c} : disp'[e] = disp[e] BY <1>0 DEF IsrTyped
<1>2. IsrTyped' BY <1>0 DEF IsrTyped
<1>3. BusyInv' BY <1>0, <1>1 DEF BusyInv, Inside
<1>4. ~Writing(c)' /\ \A e \in Cpus \ {c} : Writing(e)' <=> Writing(e)
  BY <1>1 DEF Writing, Inside
<1>5. WritersInv'
  <2>1. ASSUME NEW e \in Cpus PROVE WriterOK(e)'
    <3>1. CASE e = c BY <3>1, <1>4, <1>1 DEF WriterOK, At, Inside, Writing
    <3>2. CASE e # c BY <3>2, <1>0, <1>1 DEF WritersInv, WriterOK, At, Writing
    <3> QED BY <3>1, <3>2
  <2>2. \A e, f \in Cpus : Writing(e)' /\ Writing(f)' /\ e # f => disp'[e].at # disp'[f].at
    BY <1>0, <1>1, <1>4 DEF WritersInv
  <2> QED BY <2>1, <2>2 DEF WritersInv
<1>6. ListedInv' BY <1>0 DEF ListedInv
<1>7. ASSUME ~torn' PROVE (\A l \in Lists : CountOK(l))' /\ (\A e \in Cpus : InList(e))'
  <2>1. (\A l \in Lists : CountOK(l)) /\ (\A e \in Cpus : InList(e)) BY <1>7 DEF IsrInv
  <2>2. ASSUME NEW l \in Lists PROVE Readers(l)' = Readers(l) /\ Holders(l)' = Holders(l)
    BY <1>1 DEF Readers, Holders, Inside
  <2>3. \A l \in Lists : CountOK(l)' BY <2>1, <2>2 DEF CountOK
  <2>4. \A e \in Cpus : InList(e)' BY <1>1, <1>7, <2>1 DEF InList, Inside
  <2> QED BY <2>3, <2>4
<1> QED BY <1>2, <1>3, <1>5, <1>6, <1>7 DEF IsrInv

(* The same where only the place changes.                                  *)
LEMMA QuietPlace ==
  ASSUME IsrInv, NEW c \in Cpus, NEW pc \in Places, Goes(c, pc),
         UNCHANGED <<list, stale, word, gone, torn>>,
         \/ /\ disp[c].pc \in Inside /\ pc \in Inside
            /\ pc \in {"run", "get", "read", "make"} => disp[c].at # None
         \/ disp[c].pc \in {"thread", "load", "sub"} /\ pc \in {"thread", "load", "sub"}
  PROVE  IsrInv'
<1> DEFINE d == [pc |-> pc, l |-> disp[c].l, at |-> disp[c].at]
<1>1. disp[c] \in Spot /\ disp \in [Cpus -> Spot] BY DEF IsrInv, IsrTyped
<1>2. disp' = [disp EXCEPT ![c] = d]
  <2>1. [disp[c] EXCEPT !.pc = pc] = d BY <1>1 DEF Spot
  <2> QED BY <2>1 DEF Goes
<1>3. d \in Spot /\ d.pc = pc /\ d.l = disp[c].l /\ d.at = disp[c].at BY <1>1 DEF Spot
<1>4. ~torn /\ disp[c].pc \in Inside => disp[c].at \in Elements(list[disp[c].l]) \cup {None}
  BY DEF IsrInv, InList
<1> HIDE DEF d
<1>5. \/ /\ disp[c].pc \in Inside /\ d.pc \in Inside /\ d.l = disp[c].l
         /\ d.pc \in {"run", "get", "read", "make"} => d.at # None
         /\ ~torn => d.at \in Elements(list[d.l]) \cup {None}
      \/ disp[c].pc \in {"thread", "load", "sub"} /\ d.pc \in {"thread", "load", "sub"}
  BY <1>3, <1>4
<1> QED BY <1>2, <1>3, <1>5, QuietStep

LEMMA SpotEnter == \A l \in Lists : Enter(l) \in Spot /\ Exit(l) \in Spot
                     /\ Enter(l).pc = "load" /\ Exit(l).pc \in {"thread", "load"}
<1>1. \A l \in Lists : [pc |-> "load", l |-> l, at |-> None] \in Spot BY DEF Spot, Places
<1>2. [pc |-> "thread", l |-> "handlers", at |-> None] \in Spot BY DEF Spot, Places, Lists
<1>3. \A l \in Lists : Enter(l) \in Spot /\ Enter(l).pc = "load" BY <1>1 DEF Enter
<1>4. "eoi" \in Lists BY DEF Lists
<1> QED BY <1>2, <1>3, <1>4 DEF Exit, Outside

(* The return of a routine.                                                *)
LEMMA ReturnStep ==
  ASSUME IsrInv, NEW c \in Cpus, NEW from \in {"run", "get", "read", "make"}, NEW status,
         Return(c, from, status), UNCHANGED <<list, stale, word, gone, torn>>
  PROVE  IsrInv'
<1> DEFINE l == disp[c].l
           r == disp[c].at
           next == IF status = 0 THEN None ELSE Follows(l, r)
           d == [pc |-> "walk", l |-> l, at |-> next]
<1>1. disp[c].pc = from /\ disp' = [disp EXCEPT ![c] = d] BY DEF Return, At
<1>2. r # None /\ r \in Routines /\ l \in Lists /\ list[l] \in Seq(Routines)
  BY <1>1 DEF IsrInv, IsrTyped, BusyInv, Spot
<1>3. next \in Routines \cup {None}
  <2>1. CASE r \in Elements(list[l])
    <3>1. After(list[l], r) \in Elements(list[l]) \cup {None} BY <1>2, <2>1, AfterIn
    <3>2. Elements(list[l]) \subseteq Routines BY <1>2, ElementsTyped
    <3> QED BY <2>1, <3>1, <3>2 DEF Follows
  <2>2. CASE r \notin Elements(list[l])
    <3>1. stale[r] \in Routines \cup {None} BY <1>2 DEF IsrInv, IsrTyped
    <3> QED BY <2>2, <3>1 DEF Follows
  <2> QED BY <2>1, <2>2
<1>4. ASSUME ~torn PROVE next \in Elements(list[l]) \cup {None}
  <2>1. r \in Elements(list[l]) BY <1>1, <1>2, <1>4 DEF IsrInv, InList, Inside
  <2>2. After(list[l], r) \in Elements(list[l]) \cup {None} BY <1>2, <2>1, AfterIn
  <2> QED BY <2>1, <2>2 DEF Follows
<1> HIDE DEF next
<1>5. d \in Spot /\ d.pc = "walk" /\ d.l = l /\ d.at = next BY <1>2, <1>3 DEF Spot, Places, Inside
<1>6. disp[c].pc \in Inside /\ d.pc \in Inside BY <1>1, <1>5 DEF Inside
<1> HIDE DEF d
<1> QED BY <1>1, <1>4, <1>5, <1>6, QuietStep

(* What else in the invariant does not depend on the readers.              *)
LEMMA RestKept ==
  ASSUME IsrInv, NEW c \in Cpus, NEW d \in Spot, disp' = [disp EXCEPT ![c] = d],
         UNCHANGED <<list, stale, gone>>, DOMAIN word' = Lists,
         disp[c].pc \in {"sub", "walk", "add"}, d.pc \in {"thread", "load", "walk"}
  PROVE  /\ IsrTyped' /\ BusyInv' /\ WritersInv' /\ ListedInv'
         /\ disp'[c] = d /\ \A e \in Cpus \ {c} : disp'[e] = disp[e]
<1>0. IsrTyped /\ BusyInv /\ WritersInv /\ ListedInv BY DEF IsrInv
<1>1. disp'[c] = d /\ \A e \in Cpus \ {c} : disp'[e] = disp[e] BY <1>0 DEF IsrTyped
<1>2. IsrTyped' BY <1>0 DEF IsrTyped
<1>3. BusyInv' BY <1>0, <1>1 DEF BusyInv
<1>4. ~Writing(c)' /\ \A e \in Cpus \ {c} : Writing(e)' <=> Writing(e) BY <1>1 DEF Writing
<1>5. WritersInv'
  <2>1. ASSUME NEW e \in Cpus PROVE WriterOK(e)'
    <3>1. CASE e = c BY <3>1, <1>4, <1>1 DEF WriterOK, At, Writing
    <3>2. CASE e # c BY <3>2, <1>0, <1>1 DEF WritersInv, WriterOK, At, Writing
    <3> QED BY <3>1, <3>2
  <2>2. \A e, f \in Cpus : Writing(e)' /\ Writing(f)' /\ e # f => disp'[e].at # disp'[f].at
    BY <1>0, <1>1, <1>4 DEF WritersInv
  <2> QED BY <2>1, <2>2 DEF WritersInv
<1>6. ListedInv' BY <1>0 DEF ListedInv
<1> QED BY <1>1, <1>2, <1>3, <1>5, <1>6

(* The subtraction of a reader, its leaving, and its addition.             *)
LEMMA ReadTakeStep == ASSUME IsrInv, NEW c \in Cpus, ReadTake(c) PROVE IsrInv'
<1>p. disp[c].l \in Lists BY DEF IsrInv, IsrTyped, Spot
<1>q. PICK k \in Lists : k = disp[c].l BY <1>p
<1> DEFINE d == [pc |-> "walk", l |-> k, at |-> First(list[k])]
<1>0. IsrTyped /\ disp[c].pc = "sub" BY DEF IsrInv, ReadTake, At
<1>1. k \in Lists /\ list[k] \in Seq(Routines) BY <1>0 DEF IsrTyped, Spot
<1>2. First(list[k]) \in Elements(list[k]) \cup {None} /\ First(list[k]) \in Routines \cup {None}
  BY <1>1, FirstIn, ElementsTyped
<1>3. d \in Spot /\ d.pc = "walk" /\ d.l = k /\ d.at = First(list[k])
  BY <1>1, <1>2 DEF Spot, Places, Inside
<1>4. /\ disp' = [disp EXCEPT ![c] = d] /\ UNCHANGED <<list, stale, gone>>
      /\ word' = [word EXCEPT ![k] = IF word[k] = 0 THEN MAXV ELSE word[k] - 1]
      /\ torn' = (torn \/ word[k] = 0)
  BY <1>q DEF ReadTake
<1> HIDE DEF d
<1>5. DOMAIN word' = Lists BY <1>0, <1>4 DEF IsrTyped
<1>6. /\ IsrTyped' /\ BusyInv' /\ WritersInv' /\ ListedInv'
      /\ disp'[c] = d /\ \A e \in Cpus \ {c} : disp'[e] = disp[e]
  BY <1>0, <1>3, <1>4, <1>5, RestKept
<1>7. ASSUME ~torn' PROVE (\A l \in Lists : CountOK(l))' /\ (\A e \in Cpus : InList(e))'
  <2>1. ~torn /\ word[k] # 0 BY <1>4, <1>7
  <2>2. (\A l \in Lists : CountOK(l)) /\ (\A e \in Cpus : InList(e)) BY <2>1 DEF IsrInv
  <2>3. /\ c \notin Readers(k) /\ Readers(k)' = Readers(k) \cup {c}
        /\ \A l \in Lists \ {k} : Readers(l)' = Readers(l)
        /\ \A l \in Lists : Holders(l)' = Holders(l)
    BY <1>q, <1>0, <1>3, <1>6 DEF Readers, Holders, Inside
  <2>4. CountOK(k)'
    <3>1. Holders(k) = {} /\ word[k] = MAXV - Cardinality(Readers(k)) BY <1>1, <2>1, <2>2 DEF CountOK
    <3>2. word'[k] = word[k] - 1 BY <1>0, <1>1, <1>4, <2>1 DEF IsrTyped
    <3>3. Cardinality(Readers(k)') = Cardinality(Readers(k)) + 1 BY <2>3, ReadersCount
    <3>4. word'[k] = MAXV - Cardinality(Readers(k)') BY <3>1, <3>2, <3>3, ReadersCount
    <3> QED BY <1>1, <2>3, <3>1, <3>4 DEF CountOK
  <2>5. \A l \in Lists \ {k} : CountOK(l)'
    <3> TAKE l \in Lists \ {k}
    <3>1. word'[l] = word[l] BY <1>0, <1>4 DEF IsrTyped
    <3> QED BY <2>2, <2>3, <3>1 DEF CountOK
  <2>6. \A e \in Cpus : InList(e)' BY <1>2, <1>3, <1>4, <1>6, <2>2 DEF InList
  <2> QED BY <2>4, <2>5, <2>6
<1> QED BY <1>6, <1>7 DEF IsrInv

LEMMA ReadLeaveStep == ASSUME IsrInv, NEW c \in Cpus, ReadLeave(c) PROVE IsrInv'
<1>p. disp[c].l \in Lists BY DEF IsrInv, IsrTyped, Spot
<1>q. PICK k \in Lists : k = disp[c].l BY <1>p
<1>0. /\ IsrTyped /\ disp[c].pc = "walk" /\ disp[c].at = None
      /\ UNCHANGED <<list, stale, word, gone, torn>>
  BY DEF IsrInv, ReadLeave, At
<1>1. k \in Lists OBVIOUS
<1>2. CASE word[k] < MAXV
  <2>1. Goes(c, "add") BY <1>q, <1>2 DEF ReadLeave
  <2>2. {"walk", "add"} \subseteq Inside /\ "add" \in Places BY DEF Inside, Places
  <2> QED BY <1>0, <2>1, <2>2, QuietPlace
<1>3. CASE ~(word[k] < MAXV)
  <2>1. disp' = [disp EXCEPT ![c] = Exit(k)] BY <1>3, <1>q DEF ReadLeave
  <2>2. Exit(k) \in Spot /\ Exit(k).pc \in {"thread", "load"} BY <1>1, SpotEnter
  <2>3. DOMAIN word' = Lists BY <1>0 DEF IsrTyped
  <2>4. IsrTyped' /\ BusyInv' /\ WritersInv' /\ ListedInv'
    BY <1>0, <2>1, <2>2, <2>3, RestKept
  <2>5. torn
    <3> SUFFICES ASSUME ~torn PROVE FALSE OBVIOUS
    <3>1. CountOK(k) BY <1>1 DEF IsrInv
    <3>2. c \in Readers(k) BY <1>q, <1>0 DEF Readers, Inside
    <3>3. Holders(k) = {} /\ word[k] = MAXV - Cardinality(Readers(k)) BY <3>1, <3>2 DEF CountOK
    <3>4. Cardinality(Readers(k)) # 0 BY <3>2, ReadersCount
    <3> QED BY <1>3, <3>3, <3>4, ReadersCount
  <2> QED BY <1>0, <2>4, <2>5 DEF IsrInv
<1> QED BY <1>2, <1>3

LEMMA ReadDropStep == ASSUME IsrInv, NEW c \in Cpus, ReadDrop(c) PROVE IsrInv'
<1>p. disp[c].l \in Lists BY DEF IsrInv, IsrTyped, Spot
<1>q. PICK k \in Lists : k = disp[c].l BY <1>p
<1> DEFINE d == Exit(k)
<1>0. IsrTyped /\ disp[c].pc = "add" BY DEF IsrInv, ReadDrop, At
<1>1. k \in Lists OBVIOUS
<1>2. d \in Spot /\ d.pc \in {"thread", "load"} BY <1>1, SpotEnter
<1>4. /\ disp' = [disp EXCEPT ![c] = d] /\ UNCHANGED <<list, stale, gone, torn>>
      /\ word' = [word EXCEPT ![k] = IF word[k] = MAXV THEN 0 ELSE word[k] + 1]
  BY <1>q DEF ReadDrop
<1> HIDE DEF d
<1>5. DOMAIN word' = Lists BY <1>0, <1>4 DEF IsrTyped
<1>6. /\ IsrTyped' /\ BusyInv' /\ WritersInv' /\ ListedInv'
      /\ disp'[c] = d /\ \A e \in Cpus \ {c} : disp'[e] = disp[e]
  BY <1>0, <1>2, <1>4, <1>5, RestKept
<1>7. ASSUME ~torn' PROVE (\A l \in Lists : CountOK(l))' /\ (\A e \in Cpus : InList(e))'
  <2>2. (\A l \in Lists : CountOK(l)) /\ (\A e \in Cpus : InList(e)) BY <1>4, <1>7 DEF IsrInv
  <2>3. /\ c \in Readers(k) /\ Readers(k)' = Readers(k) \ {c}
        /\ \A l \in Lists \ {k} : Readers(l)' = Readers(l)
        /\ \A l \in Lists : Holders(l)' = Holders(l)
    BY <1>q, <1>0, <1>2, <1>6 DEF Readers, Holders, Inside
  <2>4. CountOK(k)'
    <3>1. Holders(k) = {} /\ word[k] = MAXV - Cardinality(Readers(k)) BY <1>1, <2>2, <2>3 DEF CountOK
    <3>2. Cardinality(Readers(k)) # 0 BY <2>3, ReadersCount
    <3>3. word[k] # MAXV BY <3>1, <3>2, ReadersCount
    <3>4. word'[k] = word[k] + 1 BY <1>0, <1>1, <1>4, <3>3 DEF IsrTyped
    <3>5. Cardinality(Readers(k)') = Cardinality(Readers(k)) - 1 BY <2>3, ReadersCount
    <3>6. word'[k] = MAXV - Cardinality(Readers(k)') BY <3>1, <3>4, <3>5, ReadersCount
    <3> QED BY <1>1, <2>3, <3>1, <3>6 DEF CountOK
  <2>5. \A l \in Lists \ {k} : CountOK(l)'
    <3> TAKE l \in Lists \ {k}
    <3>1. word'[l] = word[l] BY <1>0, <1>4 DEF IsrTyped
    <3> QED BY <2>2, <2>3, <3>1 DEF CountOK
  <2>6. \A e \in Cpus : InList(e)' BY <1>2, <1>4, <1>6, <2>2 DEF InList, Inside
  <2> QED BY <2>4, <2>5, <2>6
<1> QED BY <1>6, <1>7 DEF IsrInv

(* A writer begins: it is at a routine of its own.                         *)
LEMMA BeginStep ==
  ASSUME IsrInv, NEW c \in Cpus, NEW r \in Drivers, Install(c, r) \/ Uninstall(c, r)
  PROVE  IsrInv'
<1> DEFINE pc == IF r \in Elements(list[ListOf(r)]) THEN "uninstall" ELSE "install"
           d == [pc |-> pc, l |-> ListOf(r), at |-> r]
<1>0. IsrTyped /\ BusyInv /\ WritersInv /\ ListedInv BY DEF IsrInv
<1>1. r \in Routines /\ r # None BY IsrAssumption
<1>2. ListOf(r) \in Lists BY DEF ListOf, Lists
<1>3. /\ disp' = [disp EXCEPT ![c] = d] /\ UNCHANGED <<list, word, torn>>
      /\ disp[c].pc = "thread" /\ \A e \in Cpus : Writing(e) => disp[e].at # r
      /\ stale' \in [Routines -> Routines \cup {None}]
      /\ gone' \subseteq gone /\ (pc = "install" => r \notin gone')
  BY <1>0, <1>1 DEF Install, Uninstall, Caller, At, IsrTyped
<1>4. d \in Spot /\ d.pc = pc /\ d.l = ListOf(r) /\ d.at = r /\ pc \in {"install", "uninstall"}
  BY <1>1, <1>2 DEF Spot, Places
<1>5. pc = "uninstall" <=> r \in Elements(list[ListOf(r)]) OBVIOUS
<1> HIDE DEF d, pc
<1>6. disp'[c] = d /\ \A e \in Cpus \ {c} : disp'[e] = disp[e] BY <1>0, <1>3 DEF IsrTyped
<1>7. IsrTyped' BY <1>0, <1>3, <1>4 DEF IsrTyped
<1>8. BusyInv' BY <1>0, <1>4, <1>6 DEF BusyInv
<1>9. Writing(c)' /\ \A e \in Cpus \ {c} : Writing(e)' <=> Writing(e) BY <1>4, <1>6 DEF Writing
<1>10. WritersInv'
  <2>1. ASSUME NEW e \in Cpus PROVE WriterOK(e)'
    <3>1. CASE e = c BY <3>1, <1>1, <1>3, <1>4, <1>5, <1>6 DEF WriterOK, At
    <3>2. CASE e # c BY <3>2, <1>0, <1>3, <1>6 DEF WritersInv, WriterOK, At, Writing
    <3> QED BY <3>1, <3>2
  <2>2. ASSUME NEW e \in Cpus, NEW f \in Cpus, Writing(e)', Writing(f)', e # f
        PROVE  disp'[e].at # disp'[f].at
    BY <2>2, <1>0, <1>3, <1>4, <1>6, <1>9 DEF WritersInv
  <2> QED BY <2>1, <2>2 DEF WritersInv
<1>11. ListedInv' BY <1>0, <1>3 DEF ListedInv
<1>12. ASSUME ~torn' PROVE (\A l \in Lists : CountOK(l))' /\ (\A e \in Cpus : InList(e))'
  <2>1. (\A l \in Lists : CountOK(l)) /\ (\A e \in Cpus : InList(e)) BY <1>3, <1>12 DEF IsrInv
  <2>2. ASSUME NEW l \in Lists PROVE Readers(l)' = Readers(l) /\ Holders(l)' = Holders(l)
    BY <1>3, <1>4, <1>6 DEF Readers, Holders, Inside
  <2>3. \A l \in Lists : CountOK(l)' BY <1>3, <2>1, <2>2 DEF CountOK
  <2>4. \A e \in Cpus : InList(e)' BY <1>3, <1>4, <1>6, <2>1 DEF InList, Inside
  <2> QED BY <2>3, <2>4
<1> QED BY <1>7, <1>8, <1>10, <1>11, <1>12 DEF IsrInv

(* It takes the lock of the list when the word is whole, and changes the   *)
(* list: nobody reads it then.                                             *)
LEMMA WriteTakeStep == ASSUME IsrInv, NEW c \in Cpus, WriteTake(c) PROVE IsrInv'
<1>p. disp[c].l \in Lists /\ disp[c].at \in Routines \cup {None} BY DEF IsrInv, IsrTyped, Spot
<1>q. PICK k \in Lists, r \in Routines \cup {None} : k = disp[c].l /\ r = disp[c].at BY <1>p
<1> DEFINE pc == IF disp[c].pc = "install" THEN "installed" ELSE "removed"
           d == [pc |-> pc, l |-> k, at |-> r]
<1>0. IsrTyped /\ BusyInv /\ WritersInv /\ ListedInv BY DEF IsrInv
<1>1. /\ word[k] = MAXV /\ word' = [word EXCEPT ![k] = 0] /\ UNCHANGED <<gone, torn>>
      /\ disp[c].pc \in {"install", "uninstall"} /\ Goes(c, pc)
      /\ list' = [list EXCEPT ![k] = IF disp[c].pc = "install" THEN <<r>> \o list[k]
                                     ELSE Without(list[k], r)]
      /\ stale' = IF disp[c].pc = "install" THEN stale ELSE [stale EXCEPT ![r] = After(list[k], r)]
  BY <1>q DEF WriteTake, At
<1>2. disp[c] \in Spot /\ WriterOK(c) /\ Writing(c) BY <1>q, <1>0, <1>1 DEF IsrTyped, WritersInv, Writing
<1>3. k \in Lists /\ r \in Routines /\ k = ListOf(r) /\ list[k] \in Seq(Routines) /\ Distinct(list[k])
  BY <1>q, <1>0, <1>2 DEF Spot, WriterOK, IsrTyped
<1>4. disp' = [disp EXCEPT ![c] = d]
  <2>1. [disp[c] EXCEPT !.pc = pc] = d BY <1>q, <1>2 DEF Spot
  <2> QED BY <1>q, <1>1, <2>1 DEF Goes
<1>5. /\ d \in Spot /\ d.pc = pc /\ d.l = k /\ d.at = r /\ pc \in {"installed", "removed"}
      /\ (pc = "removed") <=> (disp[c].pc = "uninstall")
  BY <1>q, <1>1, <1>3 DEF Spot, Places
<1> HIDE DEF d, pc
<1>6. disp'[c] = d /\ \A e \in Cpus \ {c} : disp'[e] = disp[e] BY <1>q, <1>0, <1>4 DEF IsrTyped
<1>7. /\ list'[k] \in Seq(Routines) /\ Distinct(list'[k])
      /\ Elements(list'[k]) \subseteq Elements(list[k]) \cup {r}
      /\ disp[c].pc = "uninstall" => r \notin Elements(list'[k])
      /\ Elements(list[k]) \subseteq Elements(list'[k]) \cup {r}
      /\ disp[c].pc = "install" => r \notin gone
      /\ disp[c].pc = "uninstall" => r \notin gone
  <2>1. CASE disp[c].pc = "install"
    <3>1. r \notin Elements(list[k]) /\ r \notin gone BY <1>q, <2>1, <1>2 DEF WriterOK, At
    <3>2. list'[k] = <<r>> \o list[k] BY <1>q, <2>1, <1>0, <1>1, <1>3 DEF IsrTyped
    <3>3. /\ <<r>> \o list[k] \in Seq(Routines) /\ Distinct(<<r>> \o list[k])
          /\ Elements(<<r>> \o list[k]) = Elements(list[k]) \cup {r}
      BY <1>q, <1>3, <3>1, WithOne
    <3> QED BY <2>1, <3>1, <3>2, <3>3
  <2>2. CASE disp[c].pc = "uninstall"
    <3>1. r \in Elements(list[k]) BY <1>q, <2>2, <1>2 DEF WriterOK, At
    <3>2. list'[k] = Without(list[k], r) BY <1>q, <2>2, <1>0, <1>1, <1>3 DEF IsrTyped
    <3>3. /\ Without(list[k], r) \in Seq(Routines) /\ Distinct(Without(list[k], r))
          /\ Elements(Without(list[k], r)) = Elements(list[k]) \ {r}
      BY <1>q, <1>3, <3>1, WithoutOne
    <3>4. r \notin gone BY <1>q, <3>1, <1>0, <1>3 DEF ListedInv
    <3> QED BY <2>2, <3>2, <3>3, <3>4
  <2> QED BY <1>q, <1>1, <2>1, <2>2
<1>8. \A l \in Lists \ {k} : list'[l] = list[l] BY <1>q, <1>0, <1>1 DEF IsrTyped
<1>9. IsrTyped'
  <2>1. list' \in [Lists -> Seq(Routines)]
    <3>1. DOMAIN list' = Lists BY <1>q, <1>0, <1>1 DEF IsrTyped
    <3>2. \A l \in Lists : list'[l] \in Seq(Routines) BY <1>q, <1>0, <1>7, <1>8 DEF IsrTyped
    <3>3. list' = [l \in Lists |-> list'[l]] BY <1>q, <1>0, <1>1 DEF IsrTyped
    <3> QED BY <3>2, <3>3
  <2>2. ASSUME NEW l \in Lists
        PROVE  Distinct(list'[l]) /\ \A q \in Elements(list'[l]) : ListOf(q) = l
    BY <1>q, <1>0, <1>3, <1>7, <1>8 DEF IsrTyped
  <2>3. stale' \in [Routines -> Routines \cup {None}]
    <3>1. CASE disp[c].pc = "install" BY <1>q, <3>1, <1>0, <1>1 DEF IsrTyped
    <3>2. CASE disp[c].pc # "install"
      <4>1. r \in Elements(list[k]) BY <1>q, <3>2, <1>1, <1>2 DEF WriterOK, At
      <4>2. After(list[k], r) \in Routines \cup {None} BY <1>q, <1>3, <4>1, AfterIn, ElementsTyped
      <4> QED BY <1>q, <3>2, <1>0, <1>1, <1>3, <4>2 DEF IsrTyped
    <3> QED BY <3>1, <3>2
  <2>4. DOMAIN word' = Lists BY <1>q, <1>0, <1>1 DEF IsrTyped
  <2>5. disp' \in [Cpus -> Spot] BY <1>q, <1>0, <1>4, <1>5 DEF IsrTyped
  <2> QED BY <2>1, <2>2, <2>3, <2>4, <2>5 DEF IsrTyped
<1>10. BusyInv' BY <1>q, <1>0, <1>5, <1>6 DEF BusyInv
<1>11. Writing(c)' /\ \A e \in Cpus \ {c} : Writing(e)' <=> Writing(e) BY <1>q, <1>5, <1>6 DEF Writing
<1>12. WritersInv'
  <2>1. ASSUME NEW e \in Cpus PROVE WriterOK(e)'
    <3>1. CASE e = c
      BY <1>q, <3>1, <1>1, <1>2, <1>3, <1>5, <1>6, <1>7, IsrAssumption DEF WriterOK, At
    <3>2. CASE e # c
      <4>1. WriterOK(e) /\ disp'[e] = disp[e] /\ gone' = gone /\ (Writing(e) => disp[e].at # r)
        BY <1>q, <3>2, <1>0, <1>1, <1>2, <1>6 DEF WritersInv
      <4>2. Writing(e) /\ disp[e].l \in Lists =>
              (disp[e].at \in Elements(list'[disp[e].l]) <=> disp[e].at \in Elements(list[disp[e].l]))
        BY <1>q, <4>1, <1>7, <1>8
      <4>3. disp[e].l \in Lists BY <1>q, <1>0 DEF IsrTyped, Spot
      <4> QED BY <4>1, <4>2, <4>3 DEF WriterOK, At, Writing
    <3> QED BY <3>1, <3>2
  <2>2. ASSUME NEW e \in Cpus, NEW f \in Cpus, Writing(e)', Writing(f)', e # f
        PROVE  disp'[e].at # disp'[f].at
    BY <1>q, <2>2, <1>0, <1>2, <1>5, <1>6, <1>11 DEF WritersInv
  <2> QED BY <2>1, <2>2 DEF WritersInv
<1>13. ListedInv' BY <1>q, <1>0, <1>1, <1>7, <1>8 DEF ListedInv
<1>14. ASSUME ~torn' PROVE (\A l \in Lists : CountOK(l))' /\ (\A e \in Cpus : InList(e))'
  <2>1. (\A l \in Lists : CountOK(l)) /\ (\A e \in Cpus : InList(e)) BY <1>q, <1>1, <1>14 DEF IsrInv
  <2>2. Holders(k) = {} /\ Readers(k) = {}
    <3>1. MAXV # 0 BY ReadersCount
    <3>2. Holders(k) = {} /\ word[k] = MAXV - Cardinality(Readers(k))
      BY <1>q, <1>1, <1>3, <2>1, <3>1 DEF CountOK
    <3> QED BY <1>q, <1>1, <3>2, ReadersCount
  <2>3. /\ \A l \in Lists : Readers(l)' = Readers(l)
        /\ \A l \in Lists \ {k} : Holders(l)' = Holders(l)
        /\ Holders(k)' = {c}
    <3>1. \A l \in Lists : Readers(l)' = Readers(l) BY <1>q, <1>1, <1>5, <1>6 DEF Readers, Inside
    <3>2. \A l \in Lists \ {k} : Holders(l)' = Holders(l) BY <1>q, <1>1, <1>5, <1>6 DEF Holders
    <3>3. Holders(k)' = Holders(k) \cup {c} BY <1>q, <1>1, <1>5, <1>6 DEF Holders
    <3> QED BY <2>2, <3>1, <3>2, <3>3
  <2>4. CountOK(k)'
    <3>1. word'[k] = 0 BY <1>q, <1>0, <1>1, <1>3 DEF IsrTyped
    <3> QED BY <1>q, <1>3, <2>2, <2>3, <3>1 DEF CountOK
  <2>5. \A l \in Lists \ {k} : CountOK(l)'
    <3> TAKE l \in Lists \ {k}
    <3>1. word'[l] = word[l] BY <1>q, <1>0, <1>1 DEF IsrTyped
    <3> QED BY <2>1, <2>3, <3>1 DEF CountOK
  <2>6. ASSUME NEW e \in Cpus PROVE InList(e)'
    <3>1. CASE e = c BY <1>q, <3>1, <1>5, <1>6 DEF InList, Inside
    <3>2. CASE e # c
      <4>1. disp'[e] = disp[e] /\ disp[e].l \in Lists BY <1>q, <3>2, <1>0, <1>6 DEF IsrTyped, Spot
      <4>2. disp[e].pc \in Inside => disp[e].l # k BY <2>2 DEF Readers
      <4> QED BY <1>q, <1>8, <2>1, <4>1, <4>2 DEF InList
    <3> QED BY <3>1, <3>2
  <2> QED BY <2>4, <2>5, <2>6
<1> QED BY <1>q, <1>9, <1>10, <1>12, <1>13, <1>14 DEF IsrInv

LEMMA WriteDropStep == ASSUME IsrInv, NEW c \in Cpus, WriteDrop(c) PROVE IsrInv'
<1>p. disp[c].l \in Lists /\ disp[c].at \in Routines \cup {None} BY DEF IsrInv, IsrTyped, Spot
<1>q. PICK k \in Lists, r \in Routines \cup {None} : k = disp[c].l /\ r = disp[c].at BY <1>p
<1>0. IsrTyped /\ BusyInv /\ WritersInv /\ ListedInv BY DEF IsrInv
<1>1. /\ word' = [word EXCEPT ![k] = IF word[k] = 0 THEN MAXV ELSE word[k]]
      /\ UNCHANGED <<list, stale, torn>> /\ disp[c].pc \in {"installed", "removed"}
      /\ gone' = IF disp[c].pc = "removed" THEN gone \cup {r} ELSE gone
      /\ disp' = [disp EXCEPT ![c] = Outside]
  BY <1>q DEF WriteDrop, At
<1>2. disp[c] \in Spot /\ WriterOK(c) /\ Writing(c) BY <1>q, <1>0, <1>1 DEF IsrTyped, WritersInv, Writing
<1>3. k \in Lists /\ r \in Routines /\ k = ListOf(r) BY <1>q, <1>2 DEF Spot, WriterOK
<1>4. Outside \in Spot /\ Outside.pc = "thread" BY DEF Outside, Spot, Places, Lists
<1>6. disp'[c] = Outside /\ \A e \in Cpus \ {c} : disp'[e] = disp[e] BY <1>q, <1>0, <1>1 DEF IsrTyped
<1>7. IsrTyped'
  <2>1. DOMAIN word' = Lists BY <1>q, <1>0, <1>1 DEF IsrTyped
  <2>2. disp' \in [Cpus -> Spot] BY <1>q, <1>0, <1>1, <1>4 DEF IsrTyped
  <2> QED BY <1>q, <1>0, <1>1, <2>1, <2>2 DEF IsrTyped
<1>8. BusyInv' BY <1>q, <1>0, <1>4, <1>6 DEF BusyInv
<1>9. ~Writing(c)' /\ \A e \in Cpus \ {c} : Writing(e)' <=> Writing(e) BY <1>q, <1>4, <1>6 DEF Writing
<1>10. WritersInv'
  <2>1. ASSUME NEW e \in Cpus PROVE WriterOK(e)'
    <3>1. CASE e = c BY <1>q, <3>1, <1>4, <1>6, <1>9 DEF WriterOK, At, Writing
    <3>2. CASE e # c
      <4>1. WriterOK(e) /\ disp'[e] = disp[e] /\ (Writing(e) => disp[e].at # r)
        BY <1>q, <3>2, <1>0, <1>2, <1>6 DEF WritersInv
      <4> QED BY <1>q, <4>1, <1>1 DEF WriterOK, At, Writing
    <3> QED BY <3>1, <3>2
  <2>2. ASSUME NEW e \in Cpus, NEW f \in Cpus, Writing(e)', Writing(f)', e # f
        PROVE  disp'[e].at # disp'[f].at
    BY <1>q, <2>2, <1>0, <1>6, <1>9 DEF WritersInv
  <2> QED BY <2>1, <2>2 DEF WritersInv
<1>11. ListedInv'
  <2> SUFFICES ASSUME NEW l \in Lists PROVE Elements(list[l]) \cap gone' = {}
    <3>1. gone' \subseteq Routines BY <1>q, <1>0, <1>1, <1>3 DEF ListedInv
    <3> QED BY <3>1, <1>1 DEF ListedInv
  <2>1. Elements(list[l]) \cap gone = {} BY <1>q, <1>0 DEF ListedInv
  <2>2. disp[c].pc = "removed" => r \notin Elements(list[l])
    <3>1. CASE l = k BY <1>q, <3>1, <1>2 DEF WriterOK
    <3>2. CASE l # k BY <1>q, <3>2, <1>0, <1>3 DEF IsrTyped
    <3> QED BY <3>1, <3>2
  <2> QED BY <1>q, <1>1, <2>1, <2>2
<1>12. ASSUME ~torn' PROVE (\A l \in Lists : CountOK(l))' /\ (\A e \in Cpus : InList(e))'
  <2>1. (\A l \in Lists : CountOK(l)) /\ (\A e \in Cpus : InList(e)) BY <1>q, <1>1, <1>12 DEF IsrInv
  <2>2. c \in Holders(k) BY <1>q, <1>1 DEF Holders
  <2>3. word[k] = 0 /\ Readers(k) = {} /\ Holders(k) = {c} BY <1>q, <1>3, <2>1, <2>2 DEF CountOK
  <2>4. /\ \A l \in Lists : Readers(l)' = Readers(l)
        /\ \A l \in Lists \ {k} : Holders(l)' = Holders(l)
        /\ Holders(k)' = Holders(k) \ {c}
    <3>1. \A l \in Lists : Readers(l)' = Readers(l) BY <1>q, <1>1, <1>4, <1>6 DEF Readers, Inside
    <3>2. \A l \in Lists \ {k} : Holders(l)' = Holders(l) BY <1>q, <1>1, <1>4, <1>6 DEF Holders
    <3>3. Holders(k)' = Holders(k) \ {c} BY <1>q, <1>1, <1>4, <1>6 DEF Holders
    <3> QED BY <3>1, <3>2, <3>3
  <2>5. CountOK(k)'
    <3>1. word'[k] = MAXV BY <1>q, <1>0, <1>1, <1>3, <2>3 DEF IsrTyped
    <3>2. Readers(k)' = {} /\ Cardinality({}) = 0 BY <2>3, <2>4, FS_EmptySet
    <3>3. word'[k] = MAXV - Cardinality(Readers(k)')
      <4>1. Cardinality(Readers(k)') = 0 BY <3>2
      <4>2. MAXV \in Nat BY IsrAssumption
      <4> HIDE DEF Readers
      <4> QED BY <3>1, <4>1, <4>2
    <3>4. Holders(k)' = {} BY <2>3, <2>4
    <3> QED BY <1>q, <1>3, <3>3, <3>4 DEF CountOK
  <2>6. \A l \in Lists \ {k} : CountOK(l)'
    <3> TAKE l \in Lists \ {k}
    <3>1. word'[l] = word[l] BY <1>q, <1>0, <1>1 DEF IsrTyped
    <3> QED BY <2>1, <2>4, <3>1 DEF CountOK
  <2>7. \A e \in Cpus : InList(e)' BY <1>q, <1>1, <1>4, <1>6, <2>1 DEF InList, Inside
  <2> QED BY <2>5, <2>6, <2>7
<1> QED BY <1>q, <1>7, <1>8, <1>10, <1>11, <1>12 DEF IsrInv

LEMMA IsrKept == ASSUME IsrInv, UNCHANGED <<list, stale, word, disp, gone, torn>> PROVE IsrInv'
<1>1. /\ IsrTyped /\ BusyInv /\ WritersInv /\ ListedInv
      /\ ~torn => (\A l \in Lists : CountOK(l)) /\ \A c \in Cpus : InList(c)
  BY DEF IsrInv
<1>2. IsrTyped' BY <1>1 DEF IsrTyped
<1>3. BusyInv' /\ WritersInv' /\ ListedInv'
  BY <1>1 DEF BusyInv, WritersInv, WriterOK, Writing, At, ListedInv
<1>4. ASSUME NEW l PROVE Readers(l)' = Readers(l) /\ Holders(l)' = Holders(l)
  BY DEF Readers, Holders
<1>5. ~torn' => (\A l \in Lists : CountOK(l))'
  <2> SUFFICES ASSUME ~torn', NEW l \in Lists PROVE CountOK(l)' OBVIOUS
  <2>1. CountOK(l) BY <1>1
  <2> QED BY <1>4, <2>1 DEF CountOK
<1>6. ~torn' => (\A c \in Cpus : InList(c))' BY <1>1 DEF InList
<1> QED BY <1>2, <1>3, <1>5, <1>6 DEF IsrInv

LEMMA ReadsStep == ASSUME IsrInv, NEW c \in Cpus, Reads(c) PROVE IsrInv'
<1>1. CASE Interrupt(c)
  <2>1. /\ disp[c].pc = "thread" /\ disp' = [disp EXCEPT ![c] = Enter("handlers")]
        /\ UNCHANGED <<list, stale, word, gone, torn>>
    BY <1>1 DEF Interrupt, At
  <2>2. "handlers" \in Lists BY DEF Lists
  <2>3. PICK d \in Spot : d = Enter("handlers") /\ d.pc = "load" BY <2>2, SpotEnter
  <2> QED BY <2>1, <2>3, QuietStep
<1>2. CASE ReadSeen(c)
  <2>1. disp[c].pc = "load" /\ Goes(c, "sub") /\ UNCHANGED <<list, stale, word, gone, torn>>
    BY <1>2 DEF ReadSeen, At
  <2>2. "sub" \in Places BY DEF Places
  <2> QED BY <2>1, <2>2, QuietPlace
<1> QED BY <1>1, <1>2, ReadTakeStep, ReadLeaveStep, ReadDropStep DEF Reads

LEMMA ChangesStep == ASSUME IsrInv, NEW c \in Cpus, Changes(c) PROVE IsrInv'
BY WriteTakeStep, WriteDropStep DEF Changes

(* The call of a routine, and its going on.                                *)
LEMMA CallPlace ==
  ASSUME IsrInv, NEW c \in Cpus, NEW to \in {"run", "get", "read", "make"},
         \/ Call(c, to)
         \/ disp[c].pc \in {"get", "read", "make"} /\ Goes(c, to),
         UNCHANGED <<list, stale, word, gone, torn>>
  PROVE  IsrInv'
<1>1. Goes(c, to) /\ disp[c].pc \in {"walk", "get", "read", "make"} /\ disp[c].at # None
  BY DEF IsrInv, BusyInv, Call, At
<1>2. disp[c].pc \in Inside /\ to \in Inside /\ to \in Places BY <1>1 DEF Inside, Places
<1> QED BY <1>1, <1>2, QuietPlace

(* The dispatcher with cpu_process_call_list in its list, and the callers. *)
LEMMA ServiceStep == ASSUME IsrInv, NEW c \in Cpus, Service(c) PROVE IsrInv'
<1>1. CASE Reads(c) BY <1>1, ReadsStep
<1>2. CASE CallOther(c) BY <1>2, CallPlace DEF CallOther, listVars
<1>3. CASE CallProcess(c) BY <1>3, CallPlace DEF CallProcess, listVars
<1>4. CASE ReturnOther(c) BY <1>4, ReturnStep DEF ReturnOther, listVars
<1>5. CASE GetNone(c) BY <1>5, ReturnStep DEF GetNone, listVars
<1>6. CASE Get(c) BY <1>6, CallPlace DEF Get, listVars, At, Goes
<1>7. CASE Read(c) BY <1>7, CallPlace DEF Read, listVars, At, Goes
<1>8. CASE Make(c) BY <1>8, CallPlace DEF Make, listVars, At, Goes
<1> QED BY <1>1, <1>2, <1>3, <1>4, <1>5, <1>6, <1>7, <1>8 DEF Service

LEMMA IsrInvStep == IsrInv /\ [Next]_vars => IsrInv'
<1> SUFFICES ASSUME IsrInv, [Next]_vars PROVE IsrInv' OBVIOUS
<1>1. CASE Starts BY <1>1, IsrKept DEF Starts, isrVars
<1>2. ASSUME NEW k \in Calls, Send(k) PROVE IsrInv' BY <1>2, IsrKept DEF Send
<1>3. ASSUME NEW k \in Calls, NEW c \in Cpus, NEW d \in Cpus, Enqueue(k, c, d) PROVE IsrInv'
  BY <1>3, IsrKept DEF Enqueue, isrVars
<1>4. ASSUME NEW c \in Cpus, Service(c) \/ Begins(c) \/ Change(c) PROVE IsrInv'
  BY <1>4, ServiceStep, BeginStep, ChangesStep DEF Begins, Change
<1>5. CASE UNCHANGED vars BY <1>5, IsrKept DEF vars, isrVars
<1> QED BY <1>1, <1>2, <1>3, <1>4, <1>5 DEF Next

(* isr_uninstall's exchange succeeds when no dispatcher is counted; so     *)
(* when it has returned, its routine is in no dispatcher's way, unless a   *)
(* writer came in between a dispatcher's two accesses.                     *)
THEOREM RemovedIsOut == Spec => []RunsOnlyInstalled
<1>1. IsrInv => RunsOnlyInstalled
  <2> SUFFICES ASSUME IsrInv, ~torn, NEW c \in Cpus, disp[c].pc \in Inside
               PROVE  disp[c].at \notin gone
    BY DEF RunsOnlyInstalled
  <2>1. disp[c].at \in Elements(list[disp[c].l]) \cup {None} BY DEF IsrInv, InList
  <2>2. disp[c].l \in Lists BY DEF IsrInv, IsrTyped, Spot
  <2> QED BY <2>1, <2>2, IsrAssumption DEF IsrInv, ListedInv
<1>2. Init => IsrInv BY IsrInvInit DEF Init, IpiInit
<1> QED BY <1>1, <1>2, IsrInvStep, PTL DEF Spec

-------------------------------------------------------------------------------
(* Lists of nodes without repetition: the first taken off ...              *)
LEMMA TailElements ==
  ASSUME NEW S, NEW q \in Seq(S), Distinct(q), q # <<>>
  PROVE  /\ Tail(q) \in Seq(S) /\ Distinct(Tail(q)) /\ Len(Tail(q)) = Len(q) - 1
         /\ Head(q) \in Elements(q) /\ Elements(Tail(q)) = Elements(q) \ {Head(q)}
<1> DEFINE w == Tail(q)
<1>1. /\ w \in Seq(S) /\ Len(w) = Len(q) - 1 /\ Len(q) \in Nat /\ Len(q) > 0
      /\ Head(q) = q[1] /\ \A i \in 1 .. Len(w) : w[i] = q[i + 1]
  BY HeadTailProperties, LenProperties, EmptySeq
<1> HIDE DEF w
<1>2. DOMAIN w = 1 .. Len(w) /\ DOMAIN q = 1 .. Len(q) BY <1>1, LenProperties
<1>3. \A i \in DOMAIN w : i + 1 \in DOMAIN q /\ i + 1 # 1 /\ w[i] = q[i + 1] BY <1>1, <1>2
<1>4. \A i \in DOMAIN q : i # 1 => i - 1 \in DOMAIN w /\ w[i - 1] = q[i] BY <1>1, <1>2
<1>5. 1 \in DOMAIN q BY <1>1, <1>2
<1>6. Distinct(w)
  <2> SUFFICES ASSUME NEW i \in DOMAIN w, NEW j \in DOMAIN w, w[i] = w[j] PROVE i = j
    BY DEF Distinct
  <2>1. i + 1 = j + 1 BY <1>3 DEF Distinct
  <2> QED BY <2>1, <1>1, <1>2
<1>7. Elements(w) \subseteq Elements(q) \ {q[1]} BY <1>3, <1>5 DEF Elements, Distinct
<1>8. Elements(q) \ {q[1]} \subseteq Elements(w) BY <1>4 DEF Elements
<1>9. q[1] \in Elements(q) BY <1>5 DEF Elements
<1> QED BY <1>1, <1>6, <1>7, <1>8, <1>9 DEF w

(* ... and another one put last.                                           *)
LEMMA AppendElements ==
  ASSUME NEW S, NEW q \in Seq(S), Distinct(q), NEW n \in S \ Elements(q)
  PROVE  /\ Append(q, n) \in Seq(S) /\ Distinct(Append(q, n)) /\ Len(Append(q, n)) = Len(q) + 1
         /\ Elements(Append(q, n)) = Elements(q) \cup {n}
<1> DEFINE w == Append(q, n)
<1>1. /\ w \in Seq(S) /\ Len(w) = Len(q) + 1 /\ Len(q) \in Nat
      /\ w[Len(q) + 1] = n /\ \A i \in 1 .. Len(q) : w[i] = q[i]
  BY AppendProperties, LenProperties
<1> HIDE DEF w
<1>2. DOMAIN w = 1 .. Len(q) + 1 /\ DOMAIN q = 1 .. Len(q) BY <1>1, LenProperties
<1>3. DOMAIN w = DOMAIN q \cup {Len(q) + 1} BY <1>1, <1>2
<1>4. Elements(w) = Elements(q) \cup {n} BY <1>1, <1>2, <1>3 DEF Elements
<1>5. Distinct(w) BY <1>1, <1>2, <1>3 DEF Distinct, Elements
<1> QED BY <1>1, <1>4, <1>5 DEF w

(* The nodes of a CPU are in its pool or in its list.                      *)
Pool(a, s) ==
  /\ a \in Seq(Nodes) /\ s \in Seq(Nodes)
  /\ Distinct(a) /\ Distinct(s) /\ Elements(a) \cap Elements(s) = {}
  /\ Elements(a) \cup Elements(s) = Nodes
  /\ Len(a) + Len(s) = NodeCount

LEMMA PoolMoves ==
  ASSUME NEW a, NEW s, Pool(a, s) \/ Pool(s, a), a # <<>>
  PROVE  /\ Pool(a, s) => Pool(Tail(a), Append(s, Head(a)))
         /\ Pool(s, a) => Pool(Append(s, Head(a)), Tail(a))
<1>1. /\ a \in Seq(Nodes) /\ s \in Seq(Nodes)
      /\ Distinct(a) /\ Distinct(s) /\ Elements(a) \cap Elements(s) = {}
      /\ Elements(a) \cup Elements(s) = Nodes
      /\ Len(a) + Len(s) = NodeCount /\ Len(a) \in Nat /\ Len(s) \in Nat
  BY LenProperties DEF Pool
<1>2. /\ Tail(a) \in Seq(Nodes) /\ Distinct(Tail(a)) /\ Len(Tail(a)) = Len(a) - 1
      /\ Head(a) \in Elements(a) /\ Elements(Tail(a)) = Elements(a) \ {Head(a)}
  BY <1>1, TailElements
<1>3. Head(a) \in Nodes \ Elements(s) BY <1>1, <1>2
<1>4. /\ Append(s, Head(a)) \in Seq(Nodes) /\ Distinct(Append(s, Head(a)))
      /\ Len(Append(s, Head(a))) = Len(s) + 1
      /\ Elements(Append(s, Head(a))) = Elements(s) \cup {Head(a)}
  BY <1>1, <1>3, AppendElements
<1>5. /\ Elements(Tail(a)) \cap Elements(Append(s, Head(a))) = {}
      /\ Elements(Tail(a)) \cup Elements(Append(s, Head(a))) = Nodes
      /\ Len(Tail(a)) + Len(Append(s, Head(a))) = NodeCount
      /\ Len(Append(s, Head(a))) + Len(Tail(a)) = NodeCount
  BY <1>1, <1>2, <1>4
<1>6. /\ Elements(Append(s, Head(a))) \cap Elements(Tail(a)) = {}
      /\ Elements(Append(s, Head(a))) \cup Elements(Tail(a)) = Nodes
  BY <1>5
<1> QED BY <1>2, <1>4, <1>5, <1>6 DEF Pool

LEMMA PoolWhole ==
  ASSUME NEW a, NEW s, Pool(a, s)
  PROVE  Elements(a \o s) = Nodes /\ Len(a \o s) = Cardinality(Nodes)
<1> DEFINE w == a \o s
<1>1. /\ a \in Seq(Nodes) /\ s \in Seq(Nodes) /\ Len(a) \in Nat /\ Len(s) \in Nat
      /\ DOMAIN a = 1 .. Len(a) /\ DOMAIN s = 1 .. Len(s)
      /\ Elements(a) \cup Elements(s) = Nodes /\ Len(a) + Len(s) = NodeCount
  BY LenProperties DEF Pool
<1>2. /\ w \in Seq(Nodes) /\ Len(w) = Len(a) + Len(s)
      /\ \A i \in 1 .. Len(a) + Len(s) : w[i] = IF i <= Len(a) THEN a[i] ELSE s[i - Len(a)]
  BY <1>1, ConcatProperties
<1> HIDE DEF w
<1>3. DOMAIN w = 1 .. Len(a) + Len(s) BY <1>2, LenProperties
<1>4. \A i \in DOMAIN a : i \in DOMAIN w /\ w[i] = a[i] BY <1>1, <1>2, <1>3
<1>5. \A i \in DOMAIN s : i + Len(a) \in DOMAIN w /\ w[i + Len(a)] = s[i] BY <1>1, <1>2, <1>3
<1>6. \A i \in DOMAIN w : \/ i \in DOMAIN a /\ w[i] = a[i]
                          \/ i - Len(a) \in DOMAIN s /\ w[i] = s[i - Len(a)]
  BY <1>1, <1>2, <1>3
<1>7. Elements(w) = Nodes
  <2>1. Elements(a) \subseteq Elements(w) BY <1>4 DEF Elements
  <2>2. Elements(s) \subseteq Elements(w) BY <1>5 DEF Elements
  <2>3. Elements(w) \subseteq Elements(a) \cup Elements(s) BY <1>6 DEF Elements
  <2> QED BY <1>1, <2>1, <2>2, <2>3
<1>8. Cardinality(Nodes) = NodeCount
  <2>1. NodeCount \in Nat BY IpiAssumption
  <2>2. Cardinality(1 .. NodeCount) = NodeCount - 1 + 1 BY <2>1, FS_Interval
  <2> QED BY <2>1, <2>2 DEF Nodes
<1> QED BY <1>1, <1>2, <1>7, <1>8 DEF w

-------------------------------------------------------------------------------
(* Where call k is: in a node of d's list, in a node taken off it and not  *)
(* yet read, or in cpu_process_call_list's hands.                          *)
CallerRecord == [pc : {"new", "queued", "refused", "sent", "silent", "failed"},
                 from : Cpus \cup {None}, to : Cpus \cup {None}]

Queued(k, d)  == \E i \in DOMAIN slots[d] : content[d][slots[d][i]] = k
Reading(k, d) == At(d, "read") /\ content[d][node[d]] = k
Making(k, d)  == At(d, "make") /\ node[d] = k

Once(k, d) ==
  \A i, j \in DOMAIN slots[d] :
    content[d][slots[d][i]] = k /\ content[d][slots[d][j]] = k => i = j

CallTyped ==
  /\ \A c \in Cpus : Pool(avail[c], slots[c])
  /\ DOMAIN avail = Cpus /\ DOMAIN slots = Cpus
  /\ content \in [Cpus -> [Nodes -> Calls \cup {None}]]
  /\ DOMAIN node = Cpus
  /\ \A c \in Cpus : At(c, "read") => node[c] \in Nodes
  /\ DOMAIN sender = Calls
  /\ \A k \in Calls : sender[k] \in CallerRecord
  /\ runs \in [Calls -> Nat]

(* An accepted call is in one place of its target, or made; the others are *)
(* in none.                                                                *)
One(p) == IF p THEN 1 ELSE 0

Kept(k) ==
  /\ \A d \in Cpus : /\ Once(k, d)
                     /\ Queued(k, d) \/ Reading(k, d) \/ Making(k, d) =>
                          Accepted(k) /\ sender[k].to = d
  /\ Accepted(k) =>
       /\ sender[k].to \in Cpus
       /\ \E d \in Cpus : d = sender[k].to /\
            runs[k] + One(Queued(k, d)) + One(Reading(k, d)) + One(Making(k, d)) = 1
  /\ ~Accepted(k) => runs[k] = 0

CallInv == IsrInv /\ CallTyped /\ (~reused => \A k \in Calls : Kept(k))

LEMMA CallInit == Init => CallInv
<1> SUFFICES ASSUME Init PROVE CallInv OBVIOUS
<1> USE IpiAssumption
<1>1. /\ avail = [c \in Cpus |-> [i \in Nodes |-> i]] /\ slots = [c \in Cpus |-> <<>>]
      /\ content = [c \in Cpus |-> [n \in Nodes |-> None]] /\ node = [c \in Cpus |-> None]
      /\ sender = [k \in Calls |-> [pc |-> "new", from |-> None, to |-> None]]
      /\ runs = [k \in Calls |-> 0] /\ \A c \in Cpus : disp[c].pc = "thread"
  BY DEF Init, IpiInit, IsrInit, Free, Outside
<1> DEFINE all == [i \in Nodes |-> i]
<1>2. all \in Seq(Nodes) /\ Len(all) = NodeCount /\ DOMAIN all = Nodes
  <2>1. [i \in 1 .. NodeCount |-> i] \in Seq(1 .. NodeCount) BY IsASeq
  <2> QED BY <2>1, LenProperties DEF Nodes
<1>3. Pool(all, <<>>)
  <2>1. Elements(all) = Nodes /\ Distinct(all) BY <1>2 DEF Elements, Distinct
  <2>2. <<>> \in Seq(Nodes) /\ Len(<<>>) = 0 /\ Elements(<<>>) = {} /\ Distinct(<<>>)
    BY EmptySeq DEF Elements, Distinct
  <2> HIDE DEF all
  <2> QED BY <1>2, <2>1, <2>2 DEF Pool
<1>4. CallTyped BY <1>1, <1>3 DEF CallTyped, CallerRecord, At
<1>5. \A k \in Calls : Kept(k)
  <2> TAKE k \in Calls
  <2>1. ~Accepted(k) /\ runs[k] = 0 BY <1>1 DEF Accepted
  <2>2. ASSUME NEW d \in Cpus PROVE Once(k, d) /\ ~Queued(k, d) /\ ~Reading(k, d) /\ ~Making(k, d)
    BY <1>1 DEF Once, Queued, Reading, Making, At
  <2> QED BY <2>1, <2>2 DEF Kept
<1> QED BY <1>4, <1>5, IsrInvInit DEF CallInv, Init, IpiInit

(* A step in which call k stays where it is.                               *)
LEMMA KeptStays ==
  ASSUME NEW k \in Calls, Kept(k), Accepted(k)' <=> Accepted(k), runs'[k] = runs[k],
         Accepted(k) => sender'[k].to = sender[k].to,
         \A d \in Cpus : /\ Once(k, d)' /\ (Queued(k, d)' <=> Queued(k, d))
                         /\ Reading(k, d)' <=> Reading(k, d)
                         /\ Making(k, d)' <=> Making(k, d)
  PROVE  Kept(k)'
BY DEF Kept, One

(* A step in which it moves on at d, its target.                           *)
LEMMA KeptMoves ==
  ASSUME NEW k \in Calls, Kept(k), UNCHANGED sender, runs[k] \in Nat, NEW d \in Cpus,
         \A e \in Cpus \ {d} : /\ Once(k, e)' /\ (Queued(k, e)' <=> Queued(k, e))
                               /\ Reading(k, e)' <=> Reading(k, e)
                               /\ Making(k, e)' <=> Making(k, e),
         Once(k, d)', runs'[k] \in Nat,
         Queued(k, d) \/ Reading(k, d) \/ Making(k, d),
         runs'[k] + One(Queued(k, d)') + One(Reading(k, d)') + One(Making(k, d)')
           = runs[k] + One(Queued(k, d)) + One(Reading(k, d)) + One(Making(k, d))
  PROVE  Kept(k)'
<1>1. Accepted(k) /\ sender[k].to = d BY DEF Kept
<1>2. Accepted(k)' /\ sender'[k].to = d BY <1>1 DEF Accepted
<1>3. runs'[k] + One(Queued(k, d)') + One(Reading(k, d)') + One(Making(k, d)') = 1
  BY <1>1 DEF Kept
<1>4. \A e \in Cpus \ {d} : ~Queued(k, e)' /\ ~Reading(k, e)' /\ ~Making(k, e)'
  BY <1>1 DEF Kept
<1> QED BY <1>2, <1>3, <1>4 DEF Kept, One

(* A step that leaves the nodes and their lists alone.                     *)
LEMMA CallKept ==
  ASSUME CallInv, [Next]_vars, UNCHANGED <<avail, slots, content, runs, reused>>,
         \A c \in Cpus : \/ disp'[c].pc = disp[c].pc
                         \/ {disp[c].pc, disp'[c].pc} \cap {"read", "make"} = {},
         \A c \in Cpus : disp'[c].pc \in {"read", "make"} => node'[c] = node[c],
         DOMAIN node' = Cpus,
         DOMAIN sender' = Calls,
         \A k \in Calls : /\ sender'[k] \in CallerRecord
                          /\ Accepted(k)' <=> Accepted(k)
                          /\ Accepted(k) => sender'[k].to = sender[k].to
  PROVE  CallInv'
<1>1. IsrInv' BY IsrInvStep DEF CallInv
<1>2. CallTyped' BY DEF CallInv, CallTyped, At
<1>3. ASSUME ~reused', NEW k \in Calls PROVE Kept(k)'
  <2>1. Kept(k) BY <1>3 DEF CallInv
  <2>2. \A d \in Cpus : /\ Once(k, d)' /\ (Queued(k, d)' <=> Queued(k, d))
                        /\ Reading(k, d)' <=> Reading(k, d)
                        /\ Making(k, d)' <=> Making(k, d)
    <3> TAKE d \in Cpus
    <3>1. Once(k, d)' /\ (Queued(k, d)' <=> Queued(k, d)) BY <2>1 DEF Kept, Once, Queued
    <3>2. CASE disp'[d].pc = disp[d].pc
      <4>1. At(d, "read")' <=> At(d, "read") BY <3>2 DEF At
      <4>2. At(d, "make")' <=> At(d, "make") BY <3>2 DEF At
      <4>3. disp'[d].pc \in {"read", "make"} => node'[d] = node[d] OBVIOUS
      <4>4. At(d, "read")' \/ At(d, "make")' => node'[d] = node[d] BY <4>3 DEF At
      <4> QED BY <3>1, <4>1, <4>2, <4>4 DEF Reading, Making
    <3>3. CASE {disp[d].pc, disp'[d].pc} \cap {"read", "make"} = {}
      <4>1. /\ ~At(d, "read") /\ ~At(d, "make") /\ ~At(d, "read")' /\ ~At(d, "make")'
        BY <3>3 DEF At
      <4> QED BY <3>1, <4>1 DEF Reading, Making
    <3> QED BY <3>2, <3>3
  <2> QED BY <2>1, <2>2, KeptStays
<1> QED BY <1>1, <1>2, <1>3 DEF CallInv

LEMMA CallSend ==
  ASSUME CallInv, [Next]_vars, NEW k \in Calls, Send(k)
  PROVE  CallInv'
<1>1. /\ sender[k].pc \in {"queued", "refused"}
      /\ sender' = [sender EXCEPT ![k].pc = IF sender[k].pc = "refused" THEN "failed"
                                            ELSE IF api THEN "sent" ELSE "silent"]
      /\ UNCHANGED <<avail, slots, content, runs, reused, disp, node>>
  BY DEF Send
<1>2. /\ DOMAIN sender = Calls /\ DOMAIN node = Cpus
      /\ \A x \in Calls : sender[x] \in CallerRecord
  BY DEF CallInv, CallTyped
<1>3. DOMAIN sender' = Calls BY <1>1, <1>2
<1>4. ASSUME NEW x \in Calls
      PROVE  /\ sender'[x] \in CallerRecord
             /\ Accepted(x)' <=> Accepted(x)
             /\ Accepted(x) => sender'[x].to = sender[x].to
  BY <1>1, <1>2 DEF Accepted, CallerRecord
<1> QED BY <1>1, <1>2, <1>3, <1>4, CallKept

(* The steps by which a CPU neither takes a node nor reads one.            *)
Elsewhere(e) == \/ disp'[e].pc = disp[e].pc
                \/ {disp[e].pc, disp'[e].pc} \cap {"read", "make"} = {}

LEMMA PlaceElsewhere ==
  ASSUME IsrInv, NEW c \in Cpus,
         \/ Reads(c) \/ CallOther(c) \/ ReturnOther(c) \/ CallProcess(c) \/ GetNone(c)
         \/ Begins(c) \/ Change(c)
  PROVE  \A e \in Cpus : Elsewhere(e)
<1>1. disp \in [Cpus -> Spot] /\ disp[c].l \in Lists /\ \A e \in Cpus : disp[e] \in Spot
  BY DEF IsrInv, IsrTyped, Spot
<1>2. ASSUME NEW d, d.pc \notin {"read", "make"}, disp[c].pc \notin {"read", "make"},
             disp' = [disp EXCEPT ![c] = d]
      PROVE  \A e \in Cpus : Elsewhere(e)
  <2>1. disp'[c] = d /\ \A e \in Cpus : e # c => disp'[e] = disp[e] BY <1>1, <1>2
  <2> QED BY <1>2, <2>1 DEF Elsewhere
<1>3. ASSUME NEW pc, pc \notin {"read", "make"}, disp[c].pc \notin {"read", "make"}, Goes(c, pc)
      PROVE  \A e \in Cpus : Elsewhere(e)
  <2>1. disp'[c].pc = pc /\ \A e \in Cpus : e # c => disp'[e] = disp[e]
    BY <1>1, <1>3 DEF Goes, Spot
  <2> QED BY <1>3, <2>1 DEF Elsewhere
<1>4. CASE Reads(c)
  <2>1. CASE Interrupt(c)
    <3>1. Enter("handlers").pc = "load" BY SpotEnter DEF Lists
    <3> QED BY <2>1, <3>1, <1>2 DEF Interrupt, At
  <2>2. CASE ReadSeen(c) BY <2>2, <1>3 DEF ReadSeen, At
  <2>3. CASE ReadTake(c) BY <2>3, <1>2 DEF ReadTake, At
  <2>4. CASE ReadLeave(c) \/ ReadDrop(c)
    <3>1. Exit(disp[c].l).pc \in {"thread", "load"} BY <1>1, SpotEnter
    <3>2. \/ Goes(c, "add") \/ disp' = [disp EXCEPT ![c] = Exit(disp[c].l)]
      BY <2>4 DEF ReadLeave, ReadDrop
    <3>3. disp[c].pc \in {"walk", "add"} BY <2>4 DEF ReadLeave, ReadDrop, At
    <3> QED BY <3>1, <3>2, <3>3, <1>2, <1>3
  <2> QED BY <1>4, <2>1, <2>2, <2>3, <2>4 DEF Reads
<1>5. CASE CallOther(c) BY <1>5, <1>3 DEF CallOther, Call, At
<1>6. CASE CallProcess(c) BY <1>6, <1>3 DEF CallProcess, Call, At
<1>7. ASSUME NEW from, from \notin {"read", "make"}, NEW status, Return(c, from, status)
      PROVE  \A e \in Cpus : Elsewhere(e)
  <2>1. disp[c].pc = from BY <1>7 DEF Return, At
  <2> DEFINE d == [pc |-> "walk", l |-> disp[c].l,
                   at |-> IF status = 0 THEN None ELSE Follows(disp[c].l, disp[c].at)]
  <2>2. disp' = [disp EXCEPT ![c] = d] /\ d.pc = "walk" BY <1>7 DEF Return
  <2> HIDE DEF d
  <2> QED BY <1>7, <2>1, <2>2, <1>2
<1>8. CASE ReturnOther(c) BY <1>8, <1>7 DEF ReturnOther
<1>9. CASE GetNone(c) BY <1>9, <1>7 DEF GetNone
<1>10. CASE Begins(c)
  <2>1. PICK r \in Drivers : Install(c, r) \/ Uninstall(c, r) BY <1>10 DEF Begins
  <2>2. PICK pc \in {"install", "uninstall"} :
          disp' = [disp EXCEPT ![c] = [pc |-> pc, l |-> ListOf(r), at |-> r]]
    BY <2>1 DEF Install, Uninstall
  <2>3. disp[c].pc = "thread" BY <2>1 DEF Install, Uninstall, Caller, At
  <2> QED BY <2>2, <2>3, <1>2
<1>11. CASE Change(c)
  <2>1. CASE WriteTake(c)
    <3>1. disp[c].pc \in {"install", "uninstall"} BY <2>1 DEF WriteTake, At
    <3>2. Goes(c, "installed") \/ Goes(c, "removed") BY <2>1 DEF WriteTake
    <3> QED BY <3>1, <3>2, <1>3
  <2>2. CASE WriteDrop(c)
    <3>1. disp[c].pc \in {"installed", "removed"} /\ disp' = [disp EXCEPT ![c] = Outside]
      BY <2>2 DEF WriteDrop
    <3>2. Outside.pc = "thread" BY DEF Outside
    <3> QED BY <3>1, <3>2, <1>2
  <2> QED BY <1>11, <2>1, <2>2 DEF Change, Changes
<1> QED BY <1>4, <1>5, <1>6, <1>8, <1>9, <1>10, <1>11

(* Every other step between the sections of a call.                        *)
LEMMA CallOthers ==
  ASSUME CallInv, [Next]_vars,
         \/ Starts \/ UNCHANGED vars
         \/ \E c \in Cpus : \/ Reads(c) /\ UNCHANGED <<up, callVars>>
                            \/ CallOther(c) \/ ReturnOther(c) \/ CallProcess(c) \/ GetNone(c)
                            \/ Begins(c) \/ Change(c)
  PROVE  CallInv'
<1>1. UNCHANGED <<avail, slots, content, runs, reused, sender, node>>
  BY DEF Starts, vars, callVars, CallOther, ReturnOther, CallProcess, GetNone, Begins, Change
<1>2. /\ \A k \in Calls : sender[k] \in CallerRecord
      /\ DOMAIN sender = Calls /\ DOMAIN node = Cpus
  BY DEF CallInv, CallTyped
<1>3. \A k \in Calls : Accepted(k)' <=> Accepted(k) BY <1>1 DEF Accepted
<1>4. \A e \in Cpus : Elsewhere(e)
  <2>1. CASE Starts \/ UNCHANGED vars
    <3>1. disp' = disp BY <2>1 DEF Starts, vars, isrVars
    <3> QED BY <3>1 DEF Elsewhere
  <2> QED BY <2>1, PlaceElsewhere DEF CallInv
<1> QED BY <1>1, <1>2, <1>3, <1>4, CallKept DEF Elsewhere

(* A call is put into the first free node, behind the others.              *)
LEMMA CallEnqueue ==
  ASSUME CallInv, [Next]_vars, NEW k \in Calls, NEW c \in Cpus, NEW d \in Cpus, Enqueue(k, c, d)
  PROVE  CallInv'
<1> USE IpiAssumption
<1> DEFINE n == Head(avail[d])
           s == [pc |-> IF avail[d] = <<>> THEN "refused" ELSE "queued", from |-> c, to |-> d]
<1>1. /\ sender[k].pc = "new" /\ sender' = [sender EXCEPT ![k] = s]
      /\ UNCHANGED <<disp, node, runs>>
  BY DEF Enqueue, isrVars
<1>2. s.pc = (IF avail[d] = <<>> THEN "refused" ELSE "queued") /\ s.to = d
      /\ s \in CallerRecord
  BY DEF CallerRecord
<1>3. CallTyped BY DEF CallInv
<1> HIDE DEF s
<1>4. DOMAIN sender' = Calls /\ sender'[k] = s /\ \A x \in Calls : x # k => sender'[x] = sender[x]
  BY <1>1, <1>3 DEF CallTyped
<1>5. CASE avail[d] = <<>>
  <2>1. UNCHANGED <<avail, slots, content, reused>> BY <1>5 DEF Enqueue
  <2>2. ~Accepted(k) /\ ~Accepted(k)' BY <1>1, <1>2, <1>4, <1>5 DEF Accepted
  <2>3. \A x \in Calls : x # k => (Accepted(x)' <=> Accepted(x)) BY <1>4 DEF Accepted
  <2> QED BY <1>1, <1>2, <1>3, <1>4, <2>1, <2>2, <2>3, CallKept DEF CallTyped
<1>6. CASE avail[d] # <<>>
  <2>1. /\ avail' = [avail EXCEPT ![d] = Tail(avail[d])]
        /\ slots' = [slots EXCEPT ![d] = Append(slots[d], n)]
        /\ content' = [content EXCEPT ![d] = [content[d] EXCEPT ![n] = k]]
        /\ reused' = (reused \/ (At(d, "read") /\ node[d] = n))
    BY <1>6 DEF Enqueue
  <2>2. /\ Pool(avail[d], slots[d]) /\ Pool(Tail(avail[d]), Append(slots[d], n))
        /\ n \in Nodes /\ n \notin Elements(slots[d])
    <3>1. Pool(avail[d], slots[d]) BY <1>3 DEF CallTyped
    <3>2. Pool(Tail(avail[d]), Append(slots[d], n)) BY <3>1, <1>6, PoolMoves
    <3>3. n \in Elements(avail[d]) BY <3>1, <1>6, TailElements DEF Pool
    <3> QED BY <3>1, <3>2, <3>3 DEF Pool
  <2> HIDE DEF n
  <2>3. /\ slots'[d] = Append(slots[d], n) /\ avail'[d] = Tail(avail[d])
        /\ \A e \in Cpus : e # d => slots'[e] = slots[e] /\ avail'[e] = avail[e]
        /\ content' \in [Cpus -> [Nodes -> Calls \cup {None}]]
        /\ content'[d][n] = k /\ \A m \in Nodes : m # n => content'[d][m] = content[d][m]
        /\ \A e \in Cpus : e # d => content'[e] = content[e]
    BY <2>1, <2>2, <1>3 DEF CallTyped
  <2>4. CallTyped'
    <3>1. \A e \in Cpus : Pool(avail'[e], slots'[e]) BY <1>3, <2>2, <2>3 DEF CallTyped
    <3>2. DOMAIN avail' = Cpus /\ DOMAIN slots' = Cpus BY <1>3, <2>1 DEF CallTyped
    <3>3. \A e \in Cpus : At(e, "read")' => node'[e] \in Nodes BY <1>1, <1>3 DEF CallTyped, At
    <3>4. \A x \in Calls : sender'[x] \in CallerRecord
      BY <1>2, <1>3, <1>4 DEF CallTyped
    <3> QED BY <1>1, <1>3, <1>4, <2>3, <3>1, <3>2, <3>3, <3>4 DEF CallTyped
  <2>5. /\ slots[d] \in Seq(Nodes) /\ Len(slots[d]) \in Nat
        /\ DOMAIN slots[d] = 1 .. Len(slots[d]) /\ DOMAIN slots'[d] = 1 .. Len(slots[d]) + 1
        /\ \A i \in DOMAIN slots[d] : /\ slots'[d][i] = slots[d][i]
                                      /\ slots[d][i] \in Nodes /\ slots[d][i] # n
        /\ slots'[d][Len(slots[d]) + 1] = n
    <3>1. slots[d] \in Seq(Nodes) BY <2>2 DEF Pool
    <3>2. /\ Append(slots[d], n) \in Seq(Nodes) /\ Len(Append(slots[d], n)) = Len(slots[d]) + 1
          /\ \A i \in 1 .. Len(slots[d]) : Append(slots[d], n)[i] = slots[d][i]
          /\ Append(slots[d], n)[Len(slots[d]) + 1] = n
      BY <3>1, <2>2, AppendProperties
    <3>3. Len(slots[d]) \in Nat /\ DOMAIN slots[d] = 1 .. Len(slots[d]) BY <3>1, LenProperties
    <3>4. DOMAIN slots'[d] = 1 .. Len(slots[d]) + 1 BY <2>3, <3>2, LenProperties
    <3>5. \A i \in DOMAIN slots[d] : slots[d][i] \in Nodes /\ slots[d][i] # n
      BY <3>1, <3>3, <2>2, ElementOfSeq DEF Elements
    <3> QED BY <2>3, <3>1, <3>2, <3>3, <3>4, <3>5
  <2>6. /\ DOMAIN slots'[d] = DOMAIN slots[d] \cup {Len(slots[d]) + 1}
        /\ Len(slots[d]) + 1 \notin DOMAIN slots[d]
    BY <2>5
  <2>7. /\ \A i \in DOMAIN slots[d] : content'[d][slots'[d][i]] = content[d][slots[d][i]]
        /\ content'[d][slots'[d][Len(slots[d]) + 1]] = k
    BY <2>3, <2>5
  <2>8. ASSUME ~reused', NEW x \in Calls PROVE Kept(x)'
    <3>1. Kept(x) /\ ~(At(d, "read") /\ node[d] = n) BY <2>1, <2>8 DEF CallInv
    <3>2. ASSUME NEW e \in Cpus
          PROVE  /\ Reading(x, e)' <=> Reading(x, e)
                 /\ Making(x, e)' <=> Making(x, e)
      <4>1. Making(x, e)' <=> Making(x, e) BY <1>1 DEF Making, At
      <4>2. At(e, "read")' <=> At(e, "read") BY <1>1 DEF At
      <4>3. At(e, "read") => content'[e][node[e]] = content[e][node[e]]
        BY <1>3, <2>3, <3>1 DEF CallTyped
      <4> QED BY <1>1, <4>1, <4>2, <4>3 DEF Reading
    <3>3. ASSUME NEW e \in Cpus, e # d
          PROVE  /\ Queued(x, e)' <=> Queued(x, e)
                 /\ Once(x, e)' <=> Once(x, e)
      BY <3>3, <2>3 DEF Queued, Once
    <3>4. CASE x # k
      <4>1. Accepted(x)' <=> Accepted(x) BY <1>4, <3>4 DEF Accepted
      <4>2. Queued(x, d)' <=> Queued(x, d) BY <3>4, <2>6, <2>7 DEF Queued
      <4>3. Once(x, d)' BY <3>1, <3>4, <2>6, <2>7 DEF Kept, Once
      <4> QED BY <1>1, <1>4, <3>1, <3>2, <3>3, <3>4, <4>1, <4>2, <4>3, KeptStays DEF Kept
    <3>5. CASE x = k
      <4>1. ~Accepted(k) BY <1>1 DEF Accepted
      <4>2. runs[k] = 0 /\ \A e \in Cpus : ~Queued(k, e) /\ ~Reading(k, e) /\ ~Making(k, e)
        BY <3>1, <3>5, <4>1 DEF Kept
      <4>3. Accepted(k)' /\ sender'[k].to = d BY <1>2, <1>4, <1>6 DEF Accepted
      <4>4. Queued(k, d)' BY <2>6, <2>7 DEF Queued
      <4>5. Once(k, d)' BY <4>2, <2>6, <2>7 DEF Once, Queued
      <4>6. \A e \in Cpus : ~Reading(k, e)' /\ ~Making(k, e)' BY <3>2, <3>5, <4>2
      <4>7. \A e \in Cpus : e # d => ~Queued(k, e)' /\ Once(k, e)'
        BY <3>1, <3>3, <3>5, <4>2 DEF Kept
      <4> QED BY <1>1, <3>5, <4>2, <4>3, <4>4, <4>5, <4>6, <4>7 DEF Kept, One
    <3> QED BY <3>4, <3>5
  <2> QED BY <2>4, <2>8, IsrInvStep DEF CallInv
<1> QED BY <1>5, <1>6

(* What the steps of cpu_process_call_list on c leave alone.               *)
LEMMA PlaceOnly ==
  ASSUME CallInv, NEW c \in Cpus, NEW pc, disp' = [disp EXCEPT ![c].pc = pc],
         NEW n, node' = [node EXCEPT ![c] = n]
  PROVE  /\ disp'[c].pc = pc /\ node'[c] = n /\ DOMAIN node' = Cpus
         /\ \A e \in Cpus : e # c => disp'[e] = disp[e] /\ node'[e] = node[e]
<1>1. DOMAIN node = Cpus /\ disp \in [Cpus -> Spot]
  BY DEF CallInv, CallTyped, IsrInv, IsrTyped
<1> QED BY <1>1 DEF Spot

LEMMA CallGet ==
  ASSUME CallInv, [Next]_vars, NEW c \in Cpus, Get(c)
  PROVE  CallInv'
<1> DEFINE h == Head(slots[c])
<1>1. /\ disp[c].pc = "get" /\ slots[c] # <<>> /\ disp' = [disp EXCEPT ![c].pc = "read"]
      /\ node' = [node EXCEPT ![c] = h]
      /\ slots' = [slots EXCEPT ![c] = Tail(slots[c])]
      /\ avail' = [avail EXCEPT ![c] = Append(avail[c], h)]
      /\ UNCHANGED <<content, sender, runs, reused>>
  BY DEF Get, At
<1>2. CallTyped BY DEF CallInv
<1>3. Pool(avail[c], slots[c]) BY <1>2 DEF CallTyped
<1>4. /\ Pool(Append(avail[c], h), Tail(slots[c])) /\ h \in Nodes /\ h = slots[c][1]
      /\ slots[c] \in Seq(Nodes) /\ Tail(slots[c]) \in Seq(Nodes)
      /\ Len(Tail(slots[c])) = Len(slots[c]) - 1 /\ Len(slots[c]) \in Nat
      /\ \A i \in 1 .. Len(Tail(slots[c])) : Tail(slots[c])[i] = slots[c][i + 1]
  <2>1. slots[c] \in Seq(Nodes) BY <1>3 DEF Pool
  <2>2. Pool(Append(avail[c], h), Tail(slots[c])) BY <1>1, <1>3, PoolMoves
  <2>3. /\ h \in Nodes /\ Tail(slots[c]) \in Seq(Nodes)
        /\ Len(Tail(slots[c])) = Len(slots[c]) - 1
        /\ \A i \in 1 .. Len(Tail(slots[c])) : Tail(slots[c])[i] = slots[c][i + 1]
    BY <1>1, <2>1, HeadTailProperties
  <2>4. h = slots[c][1] BY <1>1, <2>1
  <2> QED BY <2>1, <2>2, <2>3, <2>4, LenProperties
<1> HIDE DEF h
<1>5. /\ disp'[c].pc = "read" /\ node'[c] = h /\ DOMAIN node' = Cpus
      /\ \A e \in Cpus : e # c => disp'[e] = disp[e] /\ node'[e] = node[e]
  BY <1>1, PlaceOnly
<1>6. /\ slots'[c] = Tail(slots[c]) /\ avail'[c] = Append(avail[c], h)
      /\ \A e \in Cpus : e # c => slots'[e] = slots[e] /\ avail'[e] = avail[e]
      /\ DOMAIN slots' = Cpus /\ DOMAIN avail' = Cpus
  BY <1>1, <1>2 DEF CallTyped
<1>7. CallTyped'
  <2>1. \A e \in Cpus : Pool(avail'[e], slots'[e]) BY <1>2, <1>4, <1>6 DEF CallTyped
  <2>2. \A e \in Cpus : At(e, "read")' => node'[e] \in Nodes BY <1>2, <1>4, <1>5 DEF CallTyped, At
  <2> QED BY <1>1, <1>2, <1>5, <1>6, <2>1, <2>2 DEF CallTyped
<1>8. /\ \A i \in DOMAIN slots'[c] : i + 1 \in DOMAIN slots[c] /\ i + 1 # 1
                                     /\ slots'[c][i] = slots[c][i + 1]
      /\ \A i \in DOMAIN slots[c] : i # 1 => i - 1 \in DOMAIN slots'[c]
                                             /\ slots'[c][i - 1] = slots[c][i]
      /\ 1 \in DOMAIN slots[c] /\ \A i, j \in DOMAIN slots'[c] : i + 1 = j + 1 => i = j
  <2>1. DOMAIN slots[c] = 1 .. Len(slots[c]) /\ DOMAIN slots'[c] = 1 .. Len(slots[c]) - 1
    BY <1>4, <1>6, LenProperties
  <2>2. Len(slots[c]) > 0 BY <1>1, <1>4, EmptySeq
  <2>3. \A i \in DOMAIN slots'[c] : i + 1 \in DOMAIN slots[c] /\ i + 1 # 1
                                     /\ slots'[c][i] = slots[c][i + 1]
    BY <1>4, <1>6, <2>1
  <2>4. \A i \in DOMAIN slots[c] : i # 1 => i - 1 \in DOMAIN slots'[c]
                                             /\ slots'[c][i - 1] = slots[c][i]
    <3> TAKE i \in DOMAIN slots[c]
    <3> HAVE i # 1
    <3>1. i - 1 \in DOMAIN slots'[c] /\ i - 1 + 1 = i BY <1>4, <2>1
    <3> QED BY <2>3, <3>1
  <2>5. 1 \in DOMAIN slots[c] /\ \A i, j \in DOMAIN slots'[c] : i + 1 = j + 1 => i = j
    BY <1>4, <2>1, <2>2
  <2> QED BY <2>3, <2>4, <2>5
<1>9. ASSUME ~reused', NEW x \in Calls PROVE Kept(x)'
  <2>1. Kept(x) BY <1>1, <1>9 DEF CallInv
  <2>2. \A e \in Cpus : e # c =>
          /\ Once(x, e)' /\ (Queued(x, e)' <=> Queued(x, e))
          /\ Reading(x, e)' <=> Reading(x, e)
          /\ Making(x, e)' <=> Making(x, e)
    BY <1>1, <1>5, <1>6, <2>1 DEF Kept, Once, Queued, Reading, Making, At
  <2>3. Once(x, c)' BY <1>1, <1>8, <2>1 DEF Kept, Once
  <2>4. /\ ~Reading(x, c) /\ ~Making(x, c) /\ ~Making(x, c)'
        /\ Reading(x, c)' <=> content[c][h] = x
    BY <1>1, <1>5 DEF Reading, Making, At
  <2>5. CASE content[c][h] = x
    <3>1. Queued(x, c) BY <1>4, <1>8, <2>5 DEF Queued
    <3>2. ~Queued(x, c)' BY <1>1, <1>4, <1>8, <2>1, <2>5 DEF Kept, Once, Queued
    <3>3. runs[x] \in Nat /\ runs'[x] = runs[x] BY <1>1, <1>2 DEF CallTyped
    <3>4. runs'[x] + One(Queued(x, c)') + One(Reading(x, c)') + One(Making(x, c)')
            = runs[x] + One(Queued(x, c)) + One(Reading(x, c)) + One(Making(x, c))
      BY <2>4, <2>5, <3>1, <3>2, <3>3 DEF One
    <3> QED BY <1>1, <2>1, <2>2, <2>3, <3>1, <3>3, <3>4, KeptMoves
  <2>6. CASE content[c][h] # x
    <3>1. Queued(x, c)' => Queued(x, c) BY <1>1, <1>8 DEF Queued
    <3>2. Queued(x, c) => Queued(x, c)'
      <4> SUFFICES ASSUME NEW i \in DOMAIN slots[c], content[c][slots[c][i]] = x
                   PROVE  \E j \in DOMAIN slots'[c] : content'[c][slots'[c][j]] = x
        BY DEF Queued
      <4>1. i # 1 BY <1>4, <2>6
      <4> QED BY <1>1, <1>8, <4>1
    <3>3. Accepted(x)' <=> Accepted(x) BY <1>1 DEF Accepted
    <3> QED BY <1>1, <2>1, <2>2, <2>3, <2>4, <2>6, <3>1, <3>2, <3>3, KeptStays
  <2> QED BY <2>5, <2>6
<1> QED BY <1>7, <1>9, IsrInvStep DEF CallInv

LEMMA CallRead ==
  ASSUME CallInv, [Next]_vars, NEW c \in Cpus, Read(c)
  PROVE  CallInv'
<1>1. /\ disp[c].pc = "read" /\ disp' = [disp EXCEPT ![c].pc = "make"]
      /\ node' = [node EXCEPT ![c] = content[c][node[c]]]
      /\ UNCHANGED <<avail, slots, content, sender, runs, reused>>
  BY DEF Read, At
<1>2. CallTyped BY DEF CallInv
<1>3. /\ disp'[c].pc = "make" /\ node'[c] = content[c][node[c]] /\ DOMAIN node' = Cpus
      /\ \A e \in Cpus : e # c => disp'[e] = disp[e] /\ node'[e] = node[e]
  BY <1>1, PlaceOnly
<1>4. CallTyped' BY <1>1, <1>2, <1>3 DEF CallTyped, At
<1>5. ASSUME ~reused', NEW x \in Calls PROVE Kept(x)'
  <2>1. Kept(x) BY <1>1, <1>5 DEF CallInv
  <2>2. \A e \in Cpus : e # c =>
          /\ Once(x, e)' /\ (Queued(x, e)' <=> Queued(x, e))
          /\ Reading(x, e)' <=> Reading(x, e)
          /\ Making(x, e)' <=> Making(x, e)
    BY <1>1, <1>3, <2>1 DEF Kept, Once, Queued, Reading, Making, At
  <2>3. Once(x, c)' /\ (Queued(x, c)' <=> Queued(x, c)) BY <1>1, <2>1 DEF Kept, Once, Queued
  <2>4. ~Making(x, c) /\ ~Reading(x, c)' /\ (Making(x, c)' <=> Reading(x, c))
    BY <1>1, <1>3 DEF Reading, Making, At
  <2>5. CASE Reading(x, c)
    <3>1. runs[x] \in Nat /\ runs'[x] = runs[x] BY <1>1, <1>2 DEF CallTyped
    <3>2. runs'[x] + One(Queued(x, c)') + One(Reading(x, c)') + One(Making(x, c)')
            = runs[x] + One(Queued(x, c)) + One(Reading(x, c)) + One(Making(x, c))
      BY <2>3, <2>4, <2>5, <3>1 DEF One
    <3> QED BY <1>1, <2>1, <2>2, <2>3, <2>5, <3>1, <3>2, KeptMoves
  <2>6. CASE ~Reading(x, c)
    <3>1. Accepted(x)' <=> Accepted(x) BY <1>1 DEF Accepted
    <3> QED BY <1>1, <2>1, <2>2, <2>3, <2>4, <2>6, <3>1, KeptStays
  <2> QED BY <2>5, <2>6
<1> QED BY <1>4, <1>5, IsrInvStep DEF CallInv

LEMMA CallMake ==
  ASSUME CallInv, [Next]_vars, NEW c \in Cpus, Make(c)
  PROVE  CallInv'
<1>1. /\ disp[c].pc = "make" /\ disp' = [disp EXCEPT ![c].pc = "get"]
      /\ node' = [node EXCEPT ![c] = None]
      /\ runs' = [runs EXCEPT ![node[c]] = runs[node[c]] + 1]
      /\ UNCHANGED <<avail, slots, content, sender, reused>>
  BY DEF Make, At
<1>2. CallTyped BY DEF CallInv
<1>3. /\ disp'[c].pc = "get" /\ node'[c] = None /\ DOMAIN node' = Cpus
      /\ \A e \in Cpus : e # c => disp'[e] = disp[e] /\ node'[e] = node[e]
  BY <1>1, PlaceOnly
<1>4. /\ runs' \in [Calls -> Nat]
      /\ \A x \in Calls : runs'[x] = IF x = node[c] THEN runs[x] + 1 ELSE runs[x]
  <2>1. runs \in [Calls -> Nat] BY <1>2 DEF CallTyped
  <2>2. CASE node[c] \in Calls BY <1>1, <2>1, <2>2
  <2>3. CASE node[c] \notin Calls
    <3>1. runs' = runs BY <1>1, <2>1, <2>3
    <3> QED BY <2>1, <2>3, <3>1
  <2> QED BY <2>2, <2>3
<1>5. CallTyped' BY <1>1, <1>2, <1>3, <1>4 DEF CallTyped, At
<1>6. ASSUME ~reused', NEW x \in Calls PROVE Kept(x)'
  <2>1. Kept(x) BY <1>1, <1>6 DEF CallInv
  <2>2. \A e \in Cpus : e # c =>
          /\ Once(x, e)' /\ (Queued(x, e)' <=> Queued(x, e))
          /\ Reading(x, e)' <=> Reading(x, e)
          /\ Making(x, e)' <=> Making(x, e)
    BY <1>1, <1>3, <2>1 DEF Kept, Once, Queued, Reading, Making, At
  <2>3. Once(x, c)' /\ (Queued(x, c)' <=> Queued(x, c)) BY <1>1, <2>1 DEF Kept, Once, Queued
  <2>4. /\ ~Reading(x, c) /\ ~Reading(x, c)' /\ ~Making(x, c)'
        /\ Making(x, c) <=> node[c] = x
    BY <1>1, <1>3 DEF Reading, Making, At
  <2>5. CASE Making(x, c)
    <3>1. runs[x] \in Nat /\ runs'[x] = runs[x] + 1 /\ runs'[x] \in Nat
      BY <1>2, <1>4, <2>4, <2>5 DEF CallTyped
    <3>2. runs'[x] + One(Queued(x, c)') + One(Reading(x, c)') + One(Making(x, c)')
            = runs[x] + One(Queued(x, c)) + One(Reading(x, c)) + One(Making(x, c))
      BY <2>3, <2>4, <2>5, <3>1 DEF One
    <3> QED BY <1>1, <2>1, <2>2, <2>3, <2>5, <3>1, <3>2, KeptMoves
  <2>6. CASE ~Making(x, c)
    <3>1. runs'[x] = runs[x] /\ (Accepted(x)' <=> Accepted(x)) BY <1>1, <1>4, <2>4, <2>6 DEF Accepted
    <3> QED BY <1>1, <2>1, <2>2, <2>3, <2>4, <2>6, <3>1, KeptStays
  <2> QED BY <2>5, <2>6
<1> QED BY <1>5, <1>6, IsrInvStep DEF CallInv

LEMMA CallStep == CallInv /\ [Next]_vars => CallInv'
<1> SUFFICES ASSUME CallInv, [Next]_vars PROVE CallInv' OBVIOUS
<1>1. CASE Starts \/ UNCHANGED vars BY <1>1, CallOthers
<1>2. ASSUME NEW k \in Calls, Send(k) PROVE CallInv' BY <1>2, CallSend
<1>3. ASSUME NEW k \in Calls, NEW c \in Cpus, NEW d \in Cpus, Enqueue(k, c, d) PROVE CallInv'
  BY <1>3, CallEnqueue
<1>4. ASSUME NEW c \in Cpus, Service(c) \/ Begins(c) \/ Change(c) PROVE CallInv'
  BY <1>4, CallOthers, CallGet, CallRead, CallMake DEF Service
<1> QED BY <1>1, <1>2, <1>3, <1>4 DEF Next

(* cpu_enqueue_call and cpu_process_call_list between them lose no node,   *)
(* whatever comes between their sections.  An accepted call waits in one   *)
(* place or has been made once, and a refused one is not made, if no node  *)
(* was filled again between the unlock and the read.                       *)
THEOREM CallsAreKept == Spec => []CallsKept
<1>1. CallInv => CallsKept
  <2> SUFFICES ASSUME CallInv PROVE CallsKept OBVIOUS
  <2>1. ASSUME NEW c \in Cpus
        PROVE  /\ Elements(avail[c] \o slots[c]) = Nodes
               /\ Len(avail[c] \o slots[c]) = Cardinality(Nodes)
    BY PoolWhole DEF CallInv, CallTyped
  <2>2. ASSUME ~reused, NEW k \in Calls, NEW d, d = sender[k].to, NEW w,
               w = IF d = None THEN 0 ELSE
                     Cardinality({i \in DOMAIN slots[d] : content[d][slots[d][i]] = k})
                     + (IF At(d, "read") /\ content[d][node[d]] = k THEN 1 ELSE 0)
                     + (IF At(d, "make") /\ node[d] = k THEN 1 ELSE 0)
        PROVE  runs[k] + w = IF Accepted(k) THEN 1 ELSE 0
    <3>1. Kept(k) /\ runs[k] \in Nat /\ d \in Cpus \cup {None}
      BY <2>2 DEF CallInv, CallTyped, CallerRecord
    <3>2. CASE d = None
      <4>1. ~Accepted(k) BY <2>2, <3>1, <3>2, IpiAssumption DEF Kept
      <4> QED BY <2>2, <3>1, <3>2, <4>1 DEF Kept, Accepted
    <3>3. CASE d # None
      <4> DEFINE at == {i \in DOMAIN slots[d] : content[d][slots[d][i]] = k}
      <4>1. d \in Cpus BY <3>1, <3>3
      <4>2. Once(k, d) BY <3>1, <4>1 DEF Kept
      <4>3. Cardinality(at) = One(Queued(k, d))
        <5>1. CASE Queued(k, d)
          <6>1. PICK i \in DOMAIN slots[d] : content[d][slots[d][i]] = k BY <5>1 DEF Queued
          <6>2. at = {i} BY <4>2, <6>1 DEF Once
          <6> QED BY <5>1, <6>2, FS_Singleton DEF One
        <5>2. CASE ~Queued(k, d)
          <6>1. at = {} BY <5>2 DEF Queued
          <6> QED BY <5>2, <6>1, FS_EmptySet DEF One
        <5> QED BY <5>1, <5>2
      <4> HIDE DEF at
      <4>4. w = One(Queued(k, d)) + One(Reading(k, d)) + One(Making(k, d))
        BY <2>2, <3>3, <4>3 DEF at, One, Reading, Making
      <4>5. CASE Accepted(k)
        <5>1. runs[k] + One(Queued(k, d)) + One(Reading(k, d)) + One(Making(k, d)) = 1
          BY <2>2, <3>1, <4>5 DEF Kept
        <5> QED BY <3>1, <4>4, <4>5, <5>1 DEF Accepted, One
      <4>6. CASE ~Accepted(k)
        <5>1. runs[k] = 0 /\ ~Queued(k, d) /\ ~Reading(k, d) /\ ~Making(k, d)
          BY <3>1, <4>1, <4>6 DEF Kept
        <5> QED BY <4>4, <4>6, <5>1 DEF Accepted, One
      <4> QED BY <4>5, <4>6
    <3> QED BY <3>2, <3>3
  <2> QED BY <2>1, <2>2 DEF CallsKept
<1> QED BY <1>1, CallInit, CallStep, PTL DEF Spec
-------------------------------------------------------------------------------
(* Timers.                                                                 *)
USE TimerAssumption

(* The queues are disjoint; a walk goes over active timers; a processed    *)
(* timer is in no queue; who looks in pend_q last did not leave the timer  *)
(* behind in active_q, unless the tick moved it; a timer that has been     *)
(* called is about to leave its queue.                                     *)
Disjoint == active \cap pending = {}
WalkInv ==
  /\ isr.pc # "idle" => isr.todo \subseteq active
  /\ isr.pc \in {"call", "unlink"} => isr.at \in active /\ isr.at \notin isr.todo
ProcessedInv == processed \cap (active \cup pending) = {}
MissedInv == \A t \in Timers : owner[t] = "pending" /\ t \in active => t \in missed
FiredInv ==
  \A t \in Timers \ Periodic :
    fired[t] /\ t \in active \cup pending => isr.pc = "unlink" /\ isr.at = t

QueueInv ==
  TimerTypeOK /\ Disjoint /\ WalkInv /\ ProcessedInv /\ MissedInv /\ FiredInv /\ QueuedTimersOwned

-------------------------------------------------------------------------------
(* timer_increment keeps nanoseconds below a second.                       *)
LEMMA IncrementedType ==
  ASSUME NEW c \in TimeSpec, NEW s \in TimeSpec
  PROVE  Incremented(c, s) \in TimeSpec
<1> DEFINE n == c.nanosec + s.nanosec
<1>1. /\ c.seconds \in Nat /\ s.seconds \in Nat
      /\ c.nanosec \in 0 .. Second - 1 /\ s.nanosec \in 0 .. Second - 1
  BY DEF TimeSpec
<1>2. (IF n >= Second THEN n - Second ELSE n) \in 0 .. Second - 1
  BY <1>1
<1>3. c.seconds + s.seconds + (IF n >= Second THEN 1 ELSE 0) \in Nat
  BY <1>1
<1> QED BY <1>2, <1>3 DEF Incremented, TimeSpec

LEMMA ZeroTimeType == ZeroTime \in TimeSpec
BY DEF ZeroTime, TimeSpec

LEMMA TimerTypeInit == TimerInit => TimerTypeOK
BY ZeroTimeType DEF TimerInit, TimerTypeOK, Idle

LEMMA TimerTypeStep == TimerTypeOK /\ WalkInv /\ [TimerNext]_timerVars => TimerTypeOK'
<1> SUFFICES ASSUME TimerTypeOK, WalkInv, [TimerNext]_timerVars PROVE TimerTypeOK' OBVIOUS
<1> USE DEF TimerTypeOK, queues
<1>1. CASE TickBegin BY <1>1 DEF TickBegin
<1>2. CASE TimerCall
  <2>1. isr' \in [pc : {"idle", "walk", "call", "unlink"}, at : Timers \cup {NoTimer}, todo : SUBSET Timers]
    BY <1>2 DEF TimerCall
  <2>2. fired' \in [Timers -> BOOLEAN] BY <1>2 DEF TimerCall
  <2>3. cursor' \in [Timers -> TimeSpec] /\ age' \in [Timers -> Nat] BY <1>2, ZeroTimeType DEF TimerCall
  <2> QED BY <1>2, <2>1, <2>2, <2>3 DEF TimerCall
<1>3. CASE Unlink
  <2>1. isr' \in [pc : {"idle", "walk", "call", "unlink"}, at : Timers \cup {NoTimer}, todo : SUBSET Timers]
    BY <1>3 DEF Unlink
  <2>2. isr.at \in Timers BY <1>3 DEF Unlink, WalkInv
  <2> QED BY <1>3, <2>1, <2>2 DEF Unlink
<1>4. CASE TickEnd BY <1>4 DEF TickEnd, Idle
<1>5. ASSUME NEW t \in Timers, TimerEnqueue(t) PROVE TimerTypeOK'
  BY <1>5, ZeroTimeType DEF TimerEnqueue
<1>6. ASSUME NEW t \in Timers, Advance(t) PROVE TimerTypeOK'
  <2>1. Incremented(cursor[t], Step) \in TimeSpec BY IncrementedType
  <2> QED BY <1>6, <2>1 DEF Advance
<1>7. ASSUME NEW t \in Timers, Dequeue(t) PROVE TimerTypeOK'
  BY <1>7 DEF Dequeue, Goto
<1>8. ASSUME NEW t \in Timers, DequeueActive(t) PROVE TimerTypeOK'
  BY <1>8 DEF DequeueActive, Goto
<1>9. ASSUME NEW t \in Timers, DequeuePending(t) PROVE TimerTypeOK'
  BY <1>9 DEF DequeuePending, Goto
<1>10. ASSUME NEW t \in Timers, PollEnds(t) PROVE TimerTypeOK'
  BY <1>10 DEF PollEnds, Goto
<1>11. CASE UNCHANGED timerVars BY <1>11 DEF timerVars
<1> QED BY <1>1, <1>2, <1>3, <1>4, <1>5, <1>6, <1>7, <1>8, <1>9, <1>10, <1>11 DEF TimerNext

-------------------------------------------------------------------------------
LEMMA WalkStep == TimerTypeOK /\ WalkInv /\ [TimerNext]_timerVars => WalkInv'
<1> SUFFICES ASSUME TimerTypeOK, WalkInv, [TimerNext]_timerVars PROVE WalkInv' OBVIOUS
<1> USE DEF WalkInv, queues
<1>0. isr.pc \in {"idle", "walk", "call", "unlink"} BY DEF TimerTypeOK
<1>1. CASE TickBegin BY <1>1 DEF TickBegin
<1>2. CASE TimerCall
  <2>1. isr'.at = isr.at /\ isr'.todo = isr.todo /\ isr'.pc \in {"walk", "unlink"} /\ active' = active
    BY <1>2 DEF TimerCall, TimerTypeOK
  <2> QED BY <1>2, <2>1 DEF TimerCall
<1>3. CASE Unlink
  <2>1. isr'.pc = "walk" /\ isr'.todo = isr.todo /\ active' = active \ {isr.at}
    BY <1>3 DEF Unlink, TimerTypeOK
  <2> QED BY <1>3, <2>1 DEF Unlink
<1>4. CASE TickEnd BY <1>4 DEF TickEnd, Idle
<1>5. ASSUME NEW t \in Timers, TimerEnqueue(t) PROVE WalkInv'
  BY <1>5 DEF TimerEnqueue
<1>6. ASSUME NEW t \in Timers, Advance(t) PROVE WalkInv'
  <2>1. isr'.at = t /\ isr'.todo = isr.todo \ {t} /\ isr'.pc \in {"walk", "call"} /\ active' = active
    BY <1>6 DEF Advance
  <2> QED BY <1>6, <2>1 DEF Advance
<1>7. ASSUME NEW t \in Timers, Dequeue(t) PROVE WalkInv'
  BY <1>7 DEF Dequeue
<1>8. ASSUME NEW t \in Timers, DequeueActive(t) PROVE WalkInv'
  BY <1>8 DEF DequeueActive
<1>9. ASSUME NEW t \in Timers, DequeuePending(t) PROVE WalkInv'
  BY <1>9 DEF DequeuePending
<1>10. ASSUME NEW t \in Timers, PollEnds(t) PROVE WalkInv'
  BY <1>10 DEF PollEnds
<1>11. CASE UNCHANGED timerVars BY <1>11 DEF timerVars
<1> QED BY <1>1, <1>2, <1>3, <1>4, <1>5, <1>6, <1>7, <1>8, <1>9, <1>10, <1>11 DEF TimerNext

LEMMA QueueInit == TimerInit => QueueInv
<1> SUFFICES ASSUME TimerInit PROVE QueueInv OBVIOUS
<1>1. TimerTypeOK BY TimerTypeInit
<1> QED BY <1>1 DEF TimerInit, Idle, QueueInv, Disjoint, WalkInv, ProcessedInv, MissedInv, FiredInv, QueuedTimersOwned

(* What the steps do to the queues, each in turn.                          *)
LEMMA QueueStep == QueueInv /\ [TimerNext]_timerVars => QueueInv'
<1> SUFFICES ASSUME QueueInv, [TimerNext]_timerVars PROVE QueueInv' OBVIOUS
<1>a. TimerTypeOK' /\ WalkInv' BY TimerTypeStep, WalkStep DEF QueueInv
<1>b. /\ active \subseteq Timers /\ pending \subseteq Timers
      /\ owner \in [Timers -> {"out", "armed", "active", "pending"}]
      /\ fired \in [Timers -> BOOLEAN]
      /\ isr.pc \in {"idle", "walk", "call", "unlink"}
  BY DEF QueueInv, TimerTypeOK
<1> DEFINE Goal == Disjoint' /\ ProcessedInv' /\ MissedInv' /\ FiredInv' /\ QueuedTimersOwned'
<1> SUFFICES Goal BY <1>a DEF QueueInv
<1> USE DEF Disjoint, WalkInv, ProcessedInv, MissedInv, FiredInv, QueuedTimersOwned, queues
<1>c. Disjoint /\ WalkInv /\ ProcessedInv /\ MissedInv /\ FiredInv /\ QueuedTimersOwned BY DEF QueueInv
<1>1. CASE TickBegin BY <1>1, <1>b, <1>c DEF TickBegin
<1>2. CASE TimerCall
  <2>1. isr'.at = isr.at /\ isr'.pc = IF isr.at \in Periodic THEN "walk" ELSE "unlink"
    BY <1>2 DEF TimerCall, QueueInv, TimerTypeOK
  <2>2. \A t \in Timers : fired'[t] = IF t = isr.at THEN TRUE ELSE fired[t]
    BY <1>2, <1>b DEF TimerCall
  <2>3. FiredInv' BY <1>2, <2>1, <2>2, <1>b, <1>c DEF TimerCall
  <2> QED BY <1>2, <2>1, <2>3, <1>b, <1>c DEF TimerCall
<1>3. CASE Unlink
  <2>1. isr'.pc = "walk" /\ active' = active \ {isr.at} BY <1>3 DEF Unlink, QueueInv, TimerTypeOK
  <2> QED BY <1>3, <2>1, <1>b, <1>c DEF Unlink
<1>4. CASE TickEnd BY <1>4, <1>b, <1>c DEF TickEnd, Idle
<1>5. ASSUME NEW t \in Timers, TimerEnqueue(t) PROVE Goal
  <2>1. \A r \in Timers : fired'[r] = IF r = t THEN FALSE ELSE fired[r] BY <1>5, <1>b DEF TimerEnqueue
  <2>2. \A r \in Timers : owner'[r] = IF r = t THEN "armed" ELSE owner[r] BY <1>5, <1>b DEF TimerEnqueue
  <2>3. FiredInv' BY <1>5, <2>1, <1>b, <1>c DEF TimerEnqueue
  <2> QED BY <1>5, <2>2, <2>3, <1>b, <1>c DEF TimerEnqueue
<1>6. ASSUME NEW t \in Timers, Advance(t) PROVE Goal
  <2>1. isr'.pc \in {"walk", "call"} BY <1>6 DEF Advance
  <2> QED BY <1>6, <2>1, <1>b, <1>c DEF Advance
<1>7. ASSUME NEW t \in Timers, Dequeue(t) PROVE Goal
  BY <1>7, <1>b, <1>c DEF Dequeue, Goto
<1>8. ASSUME NEW t \in Timers, DequeueActive(t) PROVE Goal
  BY <1>8, <1>b, <1>c DEF DequeueActive, Goto
<1>9. ASSUME NEW t \in Timers, DequeuePending(t) PROVE Goal
  BY <1>9, <1>b, <1>c DEF DequeuePending, Goto
<1>10. ASSUME NEW t \in Timers, PollEnds(t) PROVE Goal
  BY <1>10, <1>b, <1>c, TimerAssumption DEF PollEnds, Goto
<1>11. CASE UNCHANGED timerVars BY <1>11, <1>c DEF timerVars
<1> QED BY <1>1, <1>2, <1>3, <1>4, <1>5, <1>6, <1>7, <1>8, <1>9, <1>10, <1>11 DEF TimerNext

LEMMA QueueAlways == TimerSpec => []QueueInv
BY QueueInit, QueueStep, PTL DEF TimerSpec

(* The variables keep their types: a time stays a number of nanoseconds    *)
(* below a second, however often it is advanced (timer_increment).         *)
THEOREM TimersTypeCorrect == TimerSpec => []TimerTypeOK
<1>1. QueueInv => TimerTypeOK BY DEF QueueInv
<1> QED BY <1>1, QueueAlways, PTL

(* No timer is in a queue when its owner's frame is gone, apart from the   *)
(* two races that the property names (timer_dequeue, apic_timer_init).     *)
THEOREM OwnedQueues == TimerSpec => []QueuedTimersOwned
<1>1. QueueInv => QueuedTimersOwned BY DEF QueueInv
<1> QED BY <1>1, QueueAlways, PTL

-------------------------------------------------------------------------------
(* Time.  A timer that lies in pend_q has not begun; in active_q its       *)
(* cursor is at the ticks that have ended since the first, and one more    *)
(* when the walk has been at it; unless it has been called, it is not due. *)
S == Time(Step)
Ahead(t) == Time(cursor[t]) < Time(Need[t])
Walked(t) == isr.pc # "idle" /\ t \notin isr.todo   \* the walk has been at t

Handled(t) == isr.pc \in {"call", "unlink"} /\ isr.at = t

TimeInv ==
  /\ \A t \in pending : age[t] = 0 /\ cursor[t] = ZeroTime
  /\ \A t \in active :
       /\ Handled(t) /\ isr.pc = "call" =>
            /\ Time(cursor[t]) = age[t] * S
            /\ ~Ahead(t) /\ (age[t] - 1) * S < Time(Need[t])
       /\ ~Handled(t) /\ Walked(t) => Time(cursor[t]) = age[t] * S /\ Ahead(t)
       /\ ~Handled(t) /\ ~Walked(t) => Time(cursor[t]) = (age[t] - 1) * S /\ Ahead(t)

(* What every timer is armed for: some time.                               *)
NeedsTime == \A t \in Timers : Time(Need[t]) > 0

LEMMA TimeNat == ASSUME NEW c \in TimeSpec PROVE Time(c) \in Nat
<1>1. c.seconds \in Nat /\ c.nanosec \in Nat BY DEF TimeSpec
<1>2. c.seconds * Second \in Nat BY <1>1
<1> QED BY <1>1, <1>2 DEF Time

LEMMA TimeZero == Time(ZeroTime) = 0
BY DEF Time, ZeroTime

(* timer_increment adds, carry and all.                                    *)
LEMMA TimeAdds ==
  ASSUME NEW c \in TimeSpec, NEW s \in TimeSpec
  PROVE  Time(Incremented(c, s)) = Time(c) + Time(s)
<1>1. /\ c.seconds \in Nat /\ s.seconds \in Nat /\ Second \in Nat
      /\ c.nanosec \in Nat /\ s.nanosec \in Nat
  BY DEF TimeSpec
<1> DEFINE n == c.nanosec + s.nanosec
<1>2. CASE n >= Second
  <2>1. Incremented(c, s) = [seconds |-> c.seconds + s.seconds + 1, nanosec |-> n - Second]
    BY <1>2 DEF Incremented
  <2>2. (c.seconds + s.seconds + 1) * Second = c.seconds * Second + s.seconds * Second + Second
    BY <1>1
  <2> QED BY <1>1, <2>1, <2>2 DEF Time
<1>3. CASE ~(n >= Second)
  <2>1. Incremented(c, s) = [seconds |-> c.seconds + s.seconds + 0, nanosec |-> n]
    BY <1>3 DEF Incremented
  <2>2. (c.seconds + s.seconds + 0) * Second = c.seconds * Second + s.seconds * Second
    BY <1>1
  <2> QED BY <1>1, <2>1, <2>2 DEF Time
<1> QED BY <1>2, <1>3

(* timer_expired compares as time does.                                    *)
LEMMA TimeOrder ==
  ASSUME NEW c \in TimeSpec, NEW d \in TimeSpec
  PROVE  Expired(c, d) <=> Time(c) <= Time(d)
<1>1. /\ c.seconds \in Nat /\ d.seconds \in Nat /\ Second \in Nat
      /\ c.nanosec \in 0 .. Second - 1 /\ d.nanosec \in 0 .. Second - 1
  BY DEF TimeSpec
<1>2. ASSUME NEW a \in Nat, NEW b \in Nat, a < b PROVE a * Second + Second <= b * Second
  <2>1. PICK k \in Nat : b = a + 1 + k
    <3>1. b - a - 1 \in Nat /\ b = a + 1 + (b - a - 1) BY <1>2
    <3> QED BY <3>1
  <2>2. b * Second = a * Second + Second + k * Second BY <2>1
  <2>3. k * Second \in Nat /\ a * Second \in Nat BY <2>1, <1>1
  <2> QED BY <2>2, <2>3, <1>1
<1>3. c.seconds * Second \in Nat /\ d.seconds * Second \in Nat BY <1>1
<1>4. CASE c.seconds < d.seconds
  <2>1. c.seconds * Second + Second <= d.seconds * Second BY <1>1, <1>2, <1>4
  <2>2. Time(c) <= Time(d) BY <1>1, <1>3, <2>1 DEF Time
  <2> QED BY <2>2, <1>4 DEF Expired
<1>5. CASE c.seconds = d.seconds
  <2>1. Expired(c, d) <=> c.nanosec <= d.nanosec BY <1>1, <1>5 DEF Expired
  <2>2. Time(c) <= Time(d) <=> c.nanosec <= d.nanosec BY <1>1, <1>3, <1>5 DEF Time
  <2> QED BY <2>1, <2>2
<1>6. CASE d.seconds < c.seconds
  <2>1. d.seconds * Second + Second <= c.seconds * Second BY <1>1, <1>2, <1>6
  <2>2. ~(Time(c) <= Time(d)) BY <1>1, <1>3, <2>1 DEF Time
  <2> QED BY <1>1, <2>2, <1>6 DEF Expired
<1> QED BY <1>1, <1>4, <1>5, <1>6

-------------------------------------------------------------------------------
LEMMA OneMore == ASSUME NEW n \in Nat, NEW s \in Nat PROVE (n - 1) * s + s = n * s
OBVIOUS

LEMMA TimeInit == TimerInit => TimeInv
BY DEF TimerInit, TimeInv

LEMMA TimeStep == NeedsTime /\ QueueInv /\ TimeInv /\ [TimerNext]_timerVars => TimeInv'
<1> SUFFICES ASSUME NeedsTime, QueueInv, TimeInv, [TimerNext]_timerVars PROVE TimeInv' OBVIOUS
<1> USE DEF TimeInv, Ahead, Walked, Handled, queues
<1>a. /\ active \subseteq Timers /\ pending \subseteq Timers /\ active \cap pending = {}
      /\ cursor \in [Timers -> TimeSpec] /\ age \in [Timers -> Nat]
      /\ isr.pc \in {"idle", "walk", "call", "unlink"}
      /\ WalkInv
  BY DEF QueueInv, TimerTypeOK, Disjoint
<1>b. \A t \in Timers : Time(Need[t]) \in Nat /\ Time(Need[t]) > 0 BY TimeNat DEF NeedsTime
<1>c. S \in Nat BY TimeNat DEF S
<1>d. \A t \in Timers : Time(cursor[t]) \in Nat BY <1>a, TimeNat
<1>1. CASE TickBegin
  <2>1. isr'.pc = "walk" /\ isr'.todo = active BY <1>1 DEF TickBegin
  <2> QED BY <1>1, <2>1, <1>a DEF TickBegin
<1>2. CASE TimerCall
  <2> DEFINE at == isr.at
  <2>1. at \in active /\ at \notin isr.todo BY <1>2, <1>a DEF TimerCall, WalkInv
  <2>2. isr'.at = at /\ isr'.todo = isr.todo BY <1>2 DEF TimerCall, QueueInv, TimerTypeOK
  <2>3. CASE at \in Periodic
    <3>1. isr'.pc = "walk" BY <1>2, <2>3 DEF TimerCall, QueueInv, TimerTypeOK
    <3>2. /\ cursor'[at] = ZeroTime /\ age'[at] = 0
          /\ \A t \in Timers \ {at} : cursor'[t] = cursor[t] /\ age'[t] = age[t]
      BY <1>2, <2>1, <2>3, <1>a DEF TimerCall
    <3>3. Time(cursor'[at]) = age'[at] * S /\ Time(cursor'[at]) < Time(Need[at])
      BY <3>2, <2>1, <1>a, <1>b, <1>c, TimeZero
    <3> QED BY <1>2, <2>1, <2>2, <3>1, <3>2, <3>3, <1>a DEF TimerCall
  <2>4. CASE at \notin Periodic
    <3>1. isr'.pc = "unlink" BY <1>2, <2>4 DEF TimerCall, QueueInv, TimerTypeOK
    <3> QED BY <1>2, <2>1, <2>2, <2>4, <3>1, <1>a DEF TimerCall
  <2> QED BY <2>3, <2>4
<1>3. CASE Unlink
  <2>1. isr'.pc = "walk" /\ isr'.todo = isr.todo /\ active' = active \ {isr.at}
    BY <1>3 DEF Unlink, QueueInv, TimerTypeOK
  <2> QED BY <1>3, <2>1, <1>a DEF Unlink
<1>4. CASE TickEnd
  <2>1. isr'.pc = "idle" /\ isr.pc = "walk" /\ isr.todo = {} BY <1>4 DEF TickEnd, Idle
  <2>2. \A t \in active \cup pending : age'[t] = age[t] + 1 /\ cursor'[t] = cursor[t]
    BY <1>4, <1>a DEF TickEnd
  <2>3. ASSUME NEW t \in active
        PROVE  Time(cursor'[t]) = (age'[t] - 1) * S /\ Time(cursor'[t]) < Time(Need[t])
    <3>1. Time(cursor[t]) = age[t] * S /\ Time(cursor[t]) < Time(Need[t]) BY <2>1
    <3>2. age'[t] - 1 = age[t] BY <2>2, <1>a
    <3> QED BY <2>2, <3>1, <3>2
  <2>4. ASSUME NEW t \in pending
        PROVE  Time(cursor'[t]) = (age'[t] - 1) * S /\ Time(cursor'[t]) < Time(Need[t])
    <3>1. age'[t] - 1 = 0 /\ cursor'[t] = ZeroTime BY <2>2
    <3> QED BY <3>1, <1>a, <1>b, <1>c, TimeZero
  <2> QED BY <1>4, <2>1, <2>3, <2>4 DEF TickEnd
<1>5. ASSUME NEW t \in Timers, TimerEnqueue(t) PROVE TimeInv'
  <2>1. t \notin active /\ active' = active /\ pending' = pending \cup {t} /\ isr' = isr
    BY <1>5 DEF TimerEnqueue
  <2>2. /\ cursor'[t] = ZeroTime /\ age'[t] = 0
        /\ \A r \in Timers \ {t} : cursor'[r] = cursor[r] /\ age'[r] = age[r]
    BY <1>5, <1>a DEF TimerEnqueue
  <2> QED BY <2>1, <2>2, <1>a
<1>6. ASSUME NEW t \in Timers, Advance(t) PROVE TimeInv'
  <2> DEFINE c == Incremented(cursor[t], Step)
  <2>1. /\ isr.pc = "walk" /\ t \in isr.todo /\ t \in active
        /\ isr'.pc = (IF Expired(Need[t], c) THEN "call" ELSE "walk")
        /\ isr'.at = t /\ isr'.todo = isr.todo \ {t}
        /\ active' = active /\ pending' = pending /\ age' = age
    BY <1>6, <1>a DEF Advance, WalkInv
  <2>2. cursor'[t] = c /\ \A r \in Timers \ {t} : cursor'[r] = cursor[r]
    BY <1>6, <1>a DEF Advance
  <2>3. Time(cursor[t]) = (age[t] - 1) * S /\ Time(cursor[t]) < Time(Need[t]) BY <2>1
  <2>4. cursor[t] \in TimeSpec /\ c \in TimeSpec /\ Need[t] \in TimeSpec BY <1>a, IncrementedType
  <2>5. Time(c) = Time(cursor[t]) + S BY <2>4, TimeAdds DEF S
  <2>6. Time(c) = age[t] * S
    <3>1. (age[t] - 1) * S + S = age[t] * S BY <1>a, <1>c, OneMore
    <3> QED BY <2>3, <2>5, <3>1
  <2>7. Expired(Need[t], c) <=> Time(Need[t]) <= Time(c) BY <2>4, TimeOrder
  <2>8. Time(c) \in Nat BY <2>4, TimeNat
  <2> HIDE DEF c
  <2>9. CASE Expired(Need[t], c)
    <3>1. isr'.pc = "call" /\ ~(Time(c) < Time(Need[t])) /\ (age[t] - 1) * S < Time(Need[t])
      BY <2>1, <2>3, <2>7, <2>8, <2>9, <1>b
    <3> QED BY <2>1, <2>2, <2>6, <3>1, <1>a
  <2>10. CASE ~Expired(Need[t], c)
    <3>1. isr'.pc = "walk" /\ Time(c) < Time(Need[t])
      BY <2>1, <2>7, <2>8, <2>10, <1>b
    <3> QED BY <2>1, <2>2, <2>6, <3>1, <1>a
  <2> QED BY <2>9, <2>10
<1>7. ASSUME NEW t \in Timers, Dequeue(t) PROVE TimeInv'
  BY <1>7 DEF Dequeue
<1>8. ASSUME NEW t \in Timers, DequeueActive(t) PROVE TimeInv'
  BY <1>8 DEF DequeueActive
<1>9. ASSUME NEW t \in Timers, DequeuePending(t) PROVE TimeInv'
  BY <1>9 DEF DequeuePending
<1>10. ASSUME NEW t \in Timers, PollEnds(t) PROVE TimeInv'
  BY <1>10 DEF PollEnds
<1>11. CASE UNCHANGED timerVars BY <1>11 DEF timerVars
<1> QED BY <1>1, <1>2, <1>3, <1>4, <1>5, <1>6, <1>7, <1>8, <1>9, <1>10, <1>11 DEF TimerNext

(* A timer is called in the tick in which its time is up and in no earlier *)
(* one, whatever the resolution of the device (timer_queue_callback); one  *)
(* that is not periodic is called once.  It holds if every timer is armed  *)
(* for some time: to_sleep = 0 is called a tick late.                      *)
THEOREM Punctual == NeedsTime => (TimerSpec => []OnTime)
<1>1. QueueInv /\ TimeInv /\ NeedsTime => OnTime
  <2> SUFFICES ASSUME QueueInv, TimeInv, NeedsTime, isr.pc = "call"
               PROVE  LET t == isr.at
                      IN  /\ age[t] * Time(Step) >= Time(Need[t])
                          /\ (age[t] - 1) * Time(Step) < Time(Need[t])
                          /\ t \notin Periodic => ~fired[t]
    BY DEF OnTime
  <2> DEFINE at == isr.at
  <2>1. at \in active /\ at \in Timers BY DEF QueueInv, TimerTypeOK, WalkInv
  <2>2. Time(cursor[at]) = age[at] * S /\ ~(Time(cursor[at]) < Time(Need[at]))
        /\ (age[at] - 1) * S < Time(Need[at])
    BY <2>1 DEF TimeInv, Ahead, Handled
  <2>3. Time(cursor[at]) \in Nat /\ Time(Need[at]) \in Nat
    BY <2>1, TimeNat DEF QueueInv, TimerTypeOK
  <2>4. at \notin Periodic => ~fired[at] BY <2>1 DEF QueueInv, FiredInv
  <2> QED BY <2>2, <2>3, <2>4 DEF S
<1> SUFFICES ASSUME NeedsTime PROVE TimerSpec => []OnTime OBVIOUS
<1>2. TimerInit => TimeInv BY TimeInit
<1>3. QueueInv /\ TimeInv /\ [TimerNext]_timerVars => TimeInv' BY TimeStep
<1>4. QueueInv /\ TimeInv => OnTime BY <1>1
<1> QED BY <1>2, <1>3, <1>4, QueueAlways, PTL DEF TimerSpec
===============================================================================
