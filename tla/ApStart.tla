-------------------------------- MODULE ApStart --------------------------------
(* arch/x86_64/src/cpu.c, the start of the application processors: the     *)
(* boot processor starts them one by one and polls cpu_on, where a         *)
(* processor leaves its number when its idle thread runs: the boot         *)
(* processor as well, whenever its own idle thread comes to run.  Until    *)
(* then an application processor is on the trampoline and on one temporary *)
(* stack that they all use, and that is wiped before each start.           *)
EXTENDS Integers, FiniteSets

CONSTANTS
  Aps,      \* the application processors in the MADT
  Bsp,      \* the boot processor
  Zero,     \* the number 0, which stands for nobody in cpu_on
  Num,      \* cpu_ap_start's num
  Retries   \* PLATFORM_AP_RETRIES

(* An entry with the boot processor's own number is passed over.           *)
ASSUME ApAssumption == Bsp \notin Aps /\ Num \in Nat /\ Retries \in Nat

VARIABLES
  issuer,   \* cpu_ap_start: its place, the processor it starts, and the SIPIs sent
  tried,    \* the processors it has been through
  counted,  \* those in started_cpu, besides the boot processor
  cpu_on,
  ap,       \* of each application processor: its place
  bspIdle,  \* whether the boot processor's idle thread has signalled
  late,     \* history: a start has timed out
  hit       \* history: that signal has overwritten a processor's

apVars == <<issuer, tried, counted, cpu_on, ap, bspIdle, late, hit>>

ApInit ==
  /\ issuer = [pc |-> "next", at |-> Bsp, sent |-> 0]
  /\ tried = {} /\ counted = {} /\ late = FALSE /\ hit = FALSE
  /\ cpu_on = Zero /\ bspIdle = FALSE
  /\ ap = [a \in Aps |-> "off"]
-------------------------------------------------------------------------------
(* cpu_bring_ap_up: the stack is wiped, cpu_on cleared, the INIT IPI sent, *)
(* and 10 ms slept; a controller that cannot send ends it here.            *)
Begin(a) ==
  /\ issuer.pc = "next" /\ a \in Aps \ tried /\ 1 + Cardinality(counted) < Num
  /\ \E pc \in {"sleep", "next"} : issuer' = [pc |-> pc, at |-> a, sent |-> 0]
  /\ tried' = tried \cup {a}
  /\ cpu_on' = Zero
  /\ UNCHANGED <<counted, ap, bspIdle, late, hit>>

(* A start-up IPI, after the sleep or after the polls for the one before.  *)
(* A processor that is on its way takes no second one.                     *)
StartUp ==
  /\ issuer.pc \in {"sleep", "poll"} /\ issuer.sent < Retries
  /\ issuer' = [issuer EXCEPT !.pc = "poll", !.sent = @ + 1]
  /\ ap' = [ap EXCEPT ![issuer.at] = IF @ = "off" THEN "trampoline" ELSE @]
  /\ UNCHANGED <<tried, counted, cpu_on, bspIdle, late, hit>>

(* Faulty: any processor that is on will do.                               *)
Seen_Any ==
  /\ issuer.pc = "poll" /\ cpu_on # Zero
  /\ cpu_on' = Zero
  /\ counted' = counted \cup {issuer.at}
  /\ issuer' = [issuer EXCEPT !.pc = "next"]
  /\ UNCHANGED <<tried, ap, bspIdle, late, hit>>

(* The compare-and-exchange that succeeds.                                 *)
Seen ==
  /\ issuer.pc = "poll" /\ cpu_on = issuer.at
  /\ cpu_on' = Zero
  /\ counted' = counted \cup {issuer.at}
  /\ issuer' = [issuer EXCEPT !.pc = "next"]
  /\ UNCHANGED <<tried, ap, bspIdle, late, hit>>

(* The polls for the last start-up IPI have ended.                         *)
TimeOut ==
  /\ issuer.pc \in {"sleep", "poll"} /\ issuer.sent = Retries
  /\ issuer' = [issuer EXCEPT !.pc = "next"]
  /\ late' = TRUE
  /\ UNCHANGED <<tried, counted, cpu_on, ap, bspIdle, hit>>

(* The end of the MADT, or of the processors wanted, or an MADT or a       *)
(* mapping that is not to be had: the trampoline is cleared and unmapped,  *)
(* the stack wiped once more.                                              *)
Finish ==
  /\ issuer.pc = "next" /\ (tried \in {{}, Aps} \/ 1 + Cardinality(counted) >= Num)
  /\ issuer' = [pc |-> "done", at |-> Bsp, sent |-> 0]
  /\ UNCHANGED <<tried, counted, cpu_on, ap, bspIdle, late, hit>>
-------------------------------------------------------------------------------
(* Faulty: the processor is on before it has left the temporary stack.     *)
Enter_Signals(a) ==
  /\ ap[a] = "trampoline" /\ ap' = [ap EXCEPT ![a] = "entry"]
  /\ cpu_on' = a
  /\ UNCHANGED <<issuer, tried, counted, bspIdle, late, hit>>

(* cpu_ap_entry_point makes the processor a device ...                     *)
EnterAp(a) ==
  /\ ap[a] = "trampoline" /\ ap' = [ap EXCEPT ![a] = "entry"]
  /\ UNCHANGED <<issuer, tried, counted, cpu_on, bspIdle, late, hit>>

(* ... and sched_unit_init goes over to the idle thread, on its own stack, *)
(* which calls cpu_signal_on.                                              *)
SignalOn(a) ==
  /\ ap[a] = "entry" /\ ap' = [ap EXCEPT ![a] = "idle"]
  /\ cpu_on' = a
  /\ UNCHANGED <<issuer, tried, counted, bspIdle, late, hit>>

(* The boot processor's idle thread does so too, when first nothing else   *)
(* is ready there: cpu_bring_ap_up itself sleeps.                          *)
BspSignalOn ==
  /\ ~bspIdle /\ bspIdle' = TRUE
  /\ cpu_on' = Bsp
  /\ hit' = (hit \/ cpu_on \in Aps)
  /\ UNCHANGED <<issuer, tried, counted, ap, late>>

ApNext ==
  \/ StartUp \/ Seen \/ TimeOut \/ Finish \/ BspSignalOn
  \/ \E a \in Aps : Begin(a) \/ EnterAp(a) \/ SignalOn(a)

ApSpec == ApInit /\ [][ApNext]_apVars
-------------------------------------------------------------------------------
(* The processors that are on the trampoline and the temporary stack.      *)
Starting == {a \in Aps : ap[a] \in {"trampoline", "entry"}}

(* Unless a start times out, a processor is alone there, and the boot      *)
(* processor, which is to wipe both, waits for it.  (An application        *)
(* processor numbered 0 is taken to have answered at once.)                *)
StackToItself ==
  Zero \notin Aps /\ ~late => \A a \in Starting : issuer.pc = "poll" /\ issuer.at = a /\ Starting = {a}

(* However late processors answer, none is counted for another.  Unless a  *)
(* start times out, or the boot processor's own signal overwrites one that *)
(* is not yet read, none comes up unnoticed.                               *)
CountedExact ==
  Zero \notin Aps =>
    /\ \A a \in counted : ap[a] = "idle"
    /\ ~late /\ ~hit => \A a \in Aps : ap[a] = "idle" =>
         a \in counted \/ (issuer.pc = "poll" /\ issuer.at = a /\ cpu_on = a)

===============================================================================
