--------------------------- MODULE CortexMProofs ----------------------------
(***************************************************************************)
(* Cortex-M targets: what is proved of their run control holds for every   *)
(* program, every number of comparators and every set of break- and        *)
(* watchpoints; and of semihosting, for every content of the file and every*)
(* count the host returns.                                                 *)
(***************************************************************************)
EXTENDS CortexM, Semihosting, PointProofs

---------------------------------------------------------------------------
(* Cortex-M: writes to DHCSR.                                              *)

Dhcsr == [debugen : BOOLEAN, halt : BOOLEAN, step : BOOLEAN, maskints : BOOLEAN]

LEMMA BitsTyped ==
    ASSUME NEW d \in BOOLEAN, NEW h \in BOOLEAN, NEW s \in BOOLEAN
    PROVE  Bits(d, h, s) \in Dhcsr
BY Zenon DEF Bits, Dhcsr

\* All bits but C_MASKINTS are as written; that one may keep its value, unless
\* C_HALT was and is set.
LEMMA WrittenIs ==
    ASSUME NEW old \in Dhcsr, NEW new \in Dhcsr, NEW d \in Written({old}, new)
    PROVE  /\ d \in Dhcsr
           /\ d.debugen = new.debugen /\ d.halt = new.halt /\ d.step = new.step
           /\ d.maskints = new.maskints \/ d.maskints = old.maskints
           /\ (old.halt /\ new.halt) \/ old.maskints = new.maskints => d = new
<1>1. d \in IF old.maskints = new.maskints \/ (old.halt /\ new.halt) THEN {new}
            ELSE {new, [new EXCEPT !.maskints = old.maskints]}
  BY Zenon DEF Written
<1> QED BY <1>1, Zenon DEF Dhcsr

LEMMA Unmasked ==
    ASSUME NEW old \in Dhcsr, NEW new \in Dhcsr, ~old.maskints, ~new.maskints, NEW d \in Written({old}, new)
    PROVE  d = new
<1>1. old.maskints = new.maskints
  BY Zenon DEF Dhcsr
<1> QED BY <1>1, Zenon DEF Written

LEMMA WrittenOne ==
    ASSUME NEW regs1, NEW new, NEW d \in Written(regs1, new)
    PROVE  \E old \in regs1 : d \in Written({old}, new)
BY Zenon DEF Written

\* A resume of a core with C_HALT set masks interrupts only if it steps.
LEMMA ResumedIs ==
    ASSUME dhcsr \in Dhcsr, dhcsr.halt, dhcsr.maskints => stepping, stepping \in BOOLEAN,
           NEW step \in BOOLEAN, NEW d \in Resumed(step)
    PROVE  d \in Dhcsr /\ ~d.halt /\ d.step = step /\ (d.maskints => step)
<1> DEFINE mode == Bits(TRUE, FALSE, step)
           lead == [mode EXCEPT !.halt = TRUE]
<1>1. /\ mode \in Dhcsr /\ mode.halt = FALSE /\ mode.step = step /\ mode.maskints = step
      /\ lead \in Dhcsr /\ lead.halt = TRUE /\ lead.maskints = step
  BY Zenon DEF Bits, Dhcsr
<1>2. d \in Written(IF step # stepping THEN Written({dhcsr}, lead) ELSE {dhcsr}, mode)
  BY Zenon DEF Resumed
<1> HIDE DEF mode, lead
<1>3. CASE step # stepping
  <2>1. PICK old \in Written({dhcsr}, lead) : d \in Written({old}, mode)
    BY <1>2, <1>3, WrittenOne, Zenon
  <2>2. old = lead
    BY <1>1, <2>1, WrittenIs
  <2>3. d = mode
    BY <1>1, <2>1, <2>2, WrittenIs
  <2> QED BY <1>1, <2>3, Zenon
<1>4. CASE step = stepping
  <2>1. d \in Written({dhcsr}, mode)
    BY <1>2, <1>4, Zenon
  <2>2. /\ d \in Dhcsr /\ d.halt = mode.halt /\ d.step = mode.step
        /\ d.maskints = mode.maskints \/ d.maskints = dhcsr.maskints
    BY <1>1, <2>1, WrittenIs
  <2> QED BY <1>1, <1>4, <2>2, Zenon
<1> QED BY <1>3, <1>4, Zenon

\* A core with C_HALT set is left with debug disabled and interrupts unmasked.
LEMMA ReleasedIs ==
    ASSUME dhcsr \in Dhcsr, dhcsr.halt, NEW d \in Released
    PROVE  d = Bits(FALSE, FALSE, FALSE)
<1>1. /\ Halting \in Dhcsr /\ Halting.halt /\ ~Halting.maskints
      /\ Bits(TRUE, FALSE, FALSE) \in Dhcsr /\ Bits(FALSE, FALSE, FALSE) \in Dhcsr
      /\ ~Bits(TRUE, FALSE, FALSE).maskints /\ ~Bits(FALSE, FALSE, FALSE).maskints
  BY Zenon DEF Halting, Bits, Dhcsr
<1>2. PICK e \in Written(Written({dhcsr}, Halting), Bits(TRUE, FALSE, FALSE)) : d \in Written({e}, Bits(FALSE, FALSE, FALSE))
  BY WrittenOne, Zenon DEF Released
<1>3. PICK g \in Written({dhcsr}, Halting) : e \in Written({g}, Bits(TRUE, FALSE, FALSE))
  BY <1>2, WrittenOne, Zenon
<1>4. g = Halting
  BY <1>1, <1>3, WrittenIs
<1>5. e = Bits(TRUE, FALSE, FALSE)
  BY <1>1, <1>3, <1>4, Unmasked, Zenon
<1> QED BY <1>1, <1>2, <1>5, Unmasked, Zenon

---------------------------------------------------------------------------
(* Cortex-M: control of the core, and the causes of its stops.             *)

\* The session thinks of a core as halted only after asking for that, and
\* interrupts are masked only for steps.
Control ==
    /\ attached \in BOOLEAN /\ stepping \in BOOLEAN /\ halted \in BOOLEAN
    /\ dhcsr \in Dhcsr /\ cpc \in {"idle", "polling", "flash", "stub"}
    /\ halted => dhcsr.halt
    /\ attached /\ cpc \in {"idle", "flash"} => dhcsr.halt
    /\ attached /\ dhcsr.maskints => stepping
    /\ attached /\ ~dhcsr.halt => dhcsr.step = stepping
    /\ ~attached => /\ ~halted /\ dhcsr = Bits(FALSE, FALSE, FALSE) /\ cpc = "idle"
                    /\ fpb = Cleared("break") /\ dwt = Cleared("watch")

\* DFSR holds nothing of an earlier stop when the session resumes the core; of a
\* stop it polls, DFSR has the causes, and a watchpoint came alone.
Fresh(causes) == causes \subseteq {"halted"}
Causes ==
    /\ attached /\ cpc = "idle" => Fresh(dfsr) /\ Fresh(hits)
    /\ attached /\ cpc = "polling" =>
          /\ ~halted => Fresh(dfsr) /\ Fresh(hits)
          /\ \A e \in {"dwt", "vcatch"} : e \in hits <=> e \in dfsr
          /\ "dwt" \in dfsr => "vcatch" \notin dfsr /\ "bkpt" \notin dfsr

RunInv == Control /\ Causes /\ ReasonTrue

LEMMA RunInit ==
    ASSUME CoreInit
    PROVE  RunInv
BY BitsTyped, Zenon DEF CoreInit, RunInv, Control, Causes, Fresh, ReasonTrue, Nothing, Bits

LEMMA SessionRuns ==
    ASSUME RunInv, Attach \/ Detach \/ HaltRequest \/ Query \/ Reset
    PROVE  RunInv'
<1> USE DEF RunInv
<1>1. Halting \in Dhcsr /\ Halting.halt = TRUE /\ Halting.maskints = FALSE
  BY Zenon DEF Halting, Bits, Dhcsr
<1>2. CASE Attach
  <2>1. dhcsr \in Dhcsr /\ dhcsr' \in Written({dhcsr}, Halting) /\ ~dhcsr.maskints
    BY <1>2 DEF Attach, Control, Bits
  <2>2. dhcsr' = Halting
    BY <1>1, <2>1, Unmasked, SMTT(30)
  <2> QED BY <1>1, <1>2, <2>2, Zenon DEF Attach, Control, Causes, Fresh, ReasonTrue
<1>3. CASE Detach
  <2>1. dhcsr' = Bits(FALSE, FALSE, FALSE)
    BY <1>3, ReleasedIs, Zenon DEF Detach, Control
  <2> QED BY <1>3, <2>1, BitsTyped, Zenon DEF Detach, Control, Causes, ReasonTrue
<1>4. CASE HaltRequest
  <2>1. dhcsr \in Dhcsr /\ dhcsr' \in Written({dhcsr}, Halting)
    BY <1>4, Zenon DEF HaltRequest, Control
  <2>2. /\ dhcsr' \in Dhcsr /\ dhcsr'.halt = TRUE
        /\ dhcsr'.maskints = FALSE \/ dhcsr'.maskints = dhcsr.maskints
    BY <1>1, <2>1, WrittenIs
  <2> QED BY <1>4, <2>2, Zenon DEF HaltRequest, Control, Causes, ReasonTrue, probeVars, slotVars
<1>5. CASE Query
  BY <1>5, Zenon DEF Query, Control, Causes, Fresh, ReasonTrue, probeVars, slotVars, coreVars
<1>6. CASE Reset
  <2>1. dhcsr' \in Dhcsr /\ dhcsr'.halt = TRUE /\ dhcsr'.maskints = dhcsr.maskints
    BY <1>6, Zenon DEF Reset, Control, Dhcsr
  <2> QED BY <1>6, <2>1, Zenon DEF Reset, Control, Causes, Fresh, ReasonTrue, Nothing, probeVars, slotVars
<1> QED BY <1>2, <1>3, <1>4, <1>5, <1>6, Zenon

LEMMA PlacesRun ==
    ASSUME RunInv, NEW place \in Places, SetPlace(place) \/ ClearPlace(place)
    PROVE  RunInv'
BY Zenon DEF RunInv, SetPlace, ClearPlace, Control, Causes, ReasonTrue, probeVars, coreVars

\* A resume of a halted core, from any of the states of the session.
LEMMA ResumeRuns ==
    ASSUME Control, attached, halted, NEW at, NEW onBkpt, NEW step \in BOOLEAN, ResumeAt(at, onBkpt, step),
           attached' = attached, cpc' \in {"polling", "stub"}
    PROVE  Control' /\ halted' = FALSE /\ hits' = {}
<1>1. dhcsr \in Dhcsr /\ dhcsr.halt /\ (dhcsr.maskints => stepping) /\ stepping \in BOOLEAN
  BY Zenon DEF Control
<1>2. dhcsr' \in Resumed(step) /\ stepping' = step /\ halted' = FALSE /\ hits' = {}
  BY Zenon DEF ResumeAt
<1>3. dhcsr' \in Dhcsr /\ ~dhcsr'.halt /\ dhcsr'.step = step /\ (dhcsr'.maskints => step)
  BY <1>1, <1>2, ResumedIs, Zenon
<1> QED BY <1>2, <1>3, Zenon DEF Control

LEMMA ResumesRun ==
    ASSUME RunInv, (\E step \in BOOLEAN : Resume(step)) \/ StubStart \/ PollSyscall
    PROVE  RunInv'
<1> USE DEF RunInv
<1>1. ASSUME NEW step \in BOOLEAN, Resume(step) PROVE RunInv'
  <2>1. Control' /\ halted' = FALSE /\ hits' = {}
    BY <1>1, ResumeRuns, Zenon DEF Resume
  <2> QED BY <1>1, <2>1, Zenon DEF Resume, Causes, Fresh, ReasonTrue, Nothing
<1>2. CASE StubStart
  <2>1. Control' /\ halted' = FALSE /\ hits' = {}
    BY <1>2, ResumeRuns, Zenon DEF StubStart
  <2> QED BY <1>2, <2>1, Zenon DEF StubStart, Causes, ReasonTrue
<1>3. CASE PollSyscall
  <2>1. stepping \in BOOLEAN /\ cpc' = cpc /\ cpc \in {"polling", "stub"}
    BY <1>3, Zenon DEF PollSyscall, Polls, Control
  <2>2. Control' /\ halted' = FALSE /\ hits' = {}
    BY <1>3, <2>1, ResumeRuns, Zenon DEF PollSyscall, Polls
  <2>3. dfsr' = {} /\ told' = told
    BY <1>3, Zenon DEF PollSyscall, ClearDfsr
  <2> QED BY <2>1, <2>2, <2>3, Zenon DEF Causes, Fresh, ReasonTrue
<1> QED BY <1>1, <1>2, <1>3, Zenon

\* A stop after steps, for one cause.
LEMMA ExitRuns ==
    ASSUME RunInv, PollExit
    PROVE  RunInv'
<1> USE DEF RunInv
<1>1. /\ attached /\ attached' = attached /\ cpc' = cpc /\ told' = told /\ halted' = TRUE /\ stepping' = TRUE
      /\ cpc \in {"polling", "stub"} /\ dhcsr \in Dhcsr /\ dhcsr.halt /\ (dhcsr.maskints => stepping)
      /\ stepping \in BOOLEAN
  BY Zenon DEF PollExit, Polls, Control
<1> DEFINE mode == Bits(TRUE, FALSE, TRUE)
<1>2. mode \in Dhcsr
  BY Zenon DEF Bits, Dhcsr
<1>3. dhcsr' \in Stepped(Written(Stepped(Resumed(TRUE)), mode))
  BY Zenon DEF PollExit
<1> HIDE DEF mode
<1>4. PICK e \in Written(Stepped(Resumed(TRUE)), mode) : dhcsr' = [e EXCEPT !.halt = TRUE]
  BY <1>3, Zenon DEF Stepped
<1>5. PICK g \in Stepped(Resumed(TRUE)) : e \in Written({g}, mode)
  BY <1>4, WrittenOne, Zenon
<1>6. PICK d \in Resumed(TRUE) : g = [d EXCEPT !.halt = TRUE]
  BY <1>5, Zenon DEF Stepped
<1>7. d \in Dhcsr
  BY <1>1, <1>6, ResumedIs, Zenon
<1>8. g \in Dhcsr
  BY <1>6, <1>7, Zenon DEF Dhcsr
<1>9. e \in Dhcsr
  BY <1>2, <1>5, <1>8, WrittenIs
<1>10. dhcsr' \in Dhcsr /\ dhcsr'.halt
  BY <1>4, <1>9, Zenon DEF Dhcsr
<1>11. Control'
  BY <1>1, <1>10, Zenon DEF Control
<1>12. PICK end \in StepEnds(After(pc)) : dfsr' = end.why /\ hits' = end.why
  BY Zenon DEF PollExit
<1>13. "dwt" \in end.why => "vcatch" \notin end.why /\ "bkpt" \notin end.why
  <2>1. end.why \in {{"vcatch"}, {"bkpt"}, {"halted"}, {"dwt", "halted"}}
    BY <1>12 DEF StepEnds
  <2>2. ASSUME NEW why \in {{"vcatch"}, {"bkpt"}, {"halted"}, {"dwt", "halted"}}, "dwt" \in why
        PROVE  "vcatch" \notin why /\ "bkpt" \notin why
    <3>1. why = {"dwt", "halted"}
      BY <2>2
    <3> QED BY <3>1, Zenon
  <2> QED BY <2>1, <2>2, Zenon
<1>14. Causes'
  BY <1>1, <1>12, <1>13, Zenon DEF Causes
<1>15. ReasonTrue'
  BY <1>1, Zenon DEF ReasonTrue
<1> QED BY <1>11, <1>14, <1>15, Zenon

\* The causes that a report gives, by its reason.
LEMMA ReportsRun ==
    ASSUME RunInv, PollFault \/ PollInterrupted \/ PollStopped
    PROVE  RunInv'
<1> USE DEF RunInv
<1> DEFINE why == IF PollFault THEN "fault" ELSE IF PollInterrupted THEN "request" ELSE Reason
<1>1. /\ attached /\ cpc \in {"polling", "stub"} /\ halted /\ dfsr' = {} /\ Report(why)
      /\ UNCHANGED <<attached, stepping, slotVars, dhcsr, halted, pc>>
  BY Zenon DEF PollFault, PollInterrupted, PollStopped, Polls, ClearDfsr, probeVars
<1>2. cpc = "polling" =>
        /\ why = "watchpoint" => "dwt" \in hits
        /\ why = "fault" => "vcatch" \in hits
        /\ "dwt" \in hits => why = "watchpoint"
  <2> SUFFICES ASSUME cpc = "polling"
               PROVE  /\ why = "watchpoint" => "dwt" \in hits
                      /\ why = "fault" => "vcatch" \in hits
                      /\ "dwt" \in hits => why = "watchpoint"
    BY Zenon
  <2>1. /\ "dwt" \in hits <=> "dwt" \in dfsr
        /\ "vcatch" \in hits <=> "vcatch" \in dfsr
        /\ "dwt" \in dfsr => "vcatch" \notin dfsr /\ "bkpt" \notin dfsr
    BY <1>1, Zenon DEF Causes
  <2>2. CASE PollFault
    BY <2>1, <2>2, Zenon DEF PollFault
  <2>3. CASE ~PollFault /\ PollInterrupted
    BY <2>1, <2>3, Zenon DEF PollInterrupted
  <2>4. CASE ~PollFault /\ ~PollInterrupted
    <3>1. why = Reason
      BY <2>4, Zenon
    <3>2. /\ "dwt" \in dfsr => Reason = "watchpoint"
          /\ "dwt" \notin dfsr => Reason \in {"breakpoint", "step", "request"}
      BY Zenon DEF Reason
    <3> HIDE DEF why
    <3> QED BY <2>1, <3>1, <3>2, Zenon
  <2> QED BY <2>2, <2>3, <2>4, Zenon
<1> HIDE DEF why
<1>3. Control'
  BY <1>1, Zenon DEF Control, Report, slotVars
<1>4. Causes'
  BY <1>1, Zenon DEF Causes, Fresh, Report
<1>5. ReasonTrue'
  BY <1>1, <1>2 DEF ReasonTrue, Report
<1> QED BY <1>3, <1>4, <1>5, Zenon

LEMMA StubsRun ==
    ASSUME RunInv, StubUnstarted \/ StubTimeout
    PROVE  RunInv'
<1> USE DEF RunInv
<1>1. CASE StubUnstarted
  BY <1>1, Zenon DEF StubUnstarted, Control, Causes, ReasonTrue, probeVars, slotVars, coreVars
<1>2. CASE StubTimeout
  <2>1. Halting \in Dhcsr /\ Halting.halt = TRUE /\ Halting.maskints = FALSE
    BY Zenon DEF Halting, Bits, Dhcsr
  <2>2. dhcsr \in Dhcsr /\ dhcsr' \in Written({dhcsr}, Halting)
    BY <1>2, Zenon DEF StubTimeout, Control
  <2>3. /\ dhcsr' \in Dhcsr /\ dhcsr'.halt = TRUE
        /\ dhcsr'.maskints = FALSE \/ dhcsr'.maskints = dhcsr.maskints
    BY <2>1, <2>2, WrittenIs
  <2> QED BY <1>2, <2>3, Zenon DEF StubTimeout, Control, Causes, ReasonTrue, probeVars, slotVars
<1> QED BY <1>1, <1>2, Zenon

\* A stop for the causes it adds: a watchpoint needs a comparator, and no core
\* stops that the session has not resumed, except as it was told to.
LEMMA StopRuns ==
    ASSUME RunInv, ~halted, NEW why, NEW at, Stop(why, at), UNCHANGED <<probeVars, slotVars, cpc, told, stub>>,
           attached, dhcsr.halt => why = {"halted"},
           "dwt" \in why => "vcatch" \notin why /\ "bkpt" \notin why
    PROVE  RunInv'
<1> USE DEF RunInv
<1>1. /\ halted' = TRUE /\ dhcsr' = [dhcsr EXCEPT !.halt = TRUE]
      /\ dfsr' = dfsr \cup why /\ hits' = hits \cup why
  BY Zenon DEF Stop
<1>2. dhcsr' \in Dhcsr /\ dhcsr'.halt = TRUE /\ dhcsr'.maskints = dhcsr.maskints
  BY <1>1, Zenon DEF Control, Dhcsr
<1>3. Control'
  BY <1>1, <1>2, Zenon DEF Control, probeVars, slotVars
<1>4. Causes'
  BY <1>1, Zenon DEF Causes, Control, Fresh, probeVars
<1> QED BY <1>3, <1>4, Zenon DEF ReasonTrue

LEMMA CoreRuns ==
    ASSUME RunInv, CoreHitsBreak \/ CoreExecutes \/ CoreFaults \/ CoreObeys
    PROVE  RunInv'
<1> USE DEF RunInv
<1>1. ~halted /\ UNCHANGED <<probeVars, slotVars, cpc, told, stub>>
  BY Zenon DEF CoreHitsBreak, CoreExecutes, CoreFaults, CoreObeys
<1>2. ~attached => ~dhcsr.debugen /\ ~dhcsr.halt /\ ~dhcsr.step /\ ~Watched
  BY DEF Control, Bits, Watched, Cleared
<1>3. CASE CoreHitsBreak
  BY <1>1, <1>2, <1>3, StopRuns, SMTT(30) DEF CoreHitsBreak
<1>4. CASE CoreFaults
  BY <1>1, <1>2, <1>4, StopRuns, SMTT(30) DEF CoreFaults
<1>5. CASE CoreObeys
  BY <1>1, <1>2, <1>5, StopRuns, SMTT(30) DEF CoreObeys
<1>6. CASE CoreExecutes
  <2>1. ~dhcsr.halt
    BY <1>6, Zenon DEF CoreExecutes
  <2>2. CASE UNCHANGED <<dhcsr, halted, dfsr, hits>>
    BY <1>1, <2>2, Zenon DEF Control, Causes, ReasonTrue, probeVars, slotVars
  <2>3. ASSUME NEW at, dhcsr.step, Stop({"halted"}, at) PROVE RunInv'
    BY <1>1, <1>2, <2>1, <2>3, StopRuns, Zenon
  <2>4. ASSUME NEW at, Watched, Stop({"dwt"} \cup (IF dhcsr.step THEN {"halted"} ELSE {}), at) PROVE RunInv'
    <3>1. PICK why : why = {"dwt"} \cup (IF dhcsr.step THEN {"halted"} ELSE {})
      BY ZenonT(30)
    <3>2. "vcatch" \notin why /\ "bkpt" \notin why
      BY <3>1, Zenon
    <3> QED BY <1>1, <1>2, <2>1, <2>4, <3>1, <3>2, StopRuns, Zenon
  <2> QED BY <1>6, <2>2, <2>3, <2>4, SMTT(30) DEF CoreExecutes
<1> QED BY <1>3, <1>4, <1>5, <1>6, Zenon

LEMMA RunNext ==
    ASSUME RunInv, [CoreNext]_coreMVars
    PROVE  RunInv'
<1>1. CASE UNCHANGED coreMVars
  BY <1>1, Zenon DEF coreMVars, probeVars, slotVars, coreVars, RunInv, Control, Causes, ReasonTrue
<1> QED BY <1>1, SessionRuns, PlacesRun, ResumesRun, ExitRuns, ReportsRun, StubsRun, CoreRuns, Zenon DEF CoreNext

LEMMA RunHolds == CoreSpec => []RunInv
BY RunInit, RunNext, PTL DEF CoreSpec

\* cortexm_halt_poll never reports the cause of an earlier stop, and reports
\* every watchpoint as one.
THEOREM ReasonsTrue == CoreSpec => []ReasonTrue
<1>1. RunInv => ReasonTrue
  BY Zenon DEF RunInv
<1> QED BY RunHolds, <1>1, PTL

\* cortexm_halt_resume and cortexm_detach leave no core with its interrupts
\* masked, debug enabled or a comparator set, where they should not.
THEOREM CoresRunFree == CoreSpec => []RunsFree
<1>1. RunInv => RunsFree
  BY DEF RunInv, Control, RunsFree, Bits
<1> QED BY RunHolds, <1>1, PTL

---------------------------------------------------------------------------
(* Cortex-M: the comparators.                                              *)

Entries == [place : Places, reserved : Nat]
Unit(type) == {p \in Places : p.type = type}

\* The comparators of a session fit what was set in it.
UnitFits(type, comp, used, list, ins) == Fits(Slots(type), Unit(type), comp, used, list, ins)
SlotInv ==
    /\ attached \in BOOLEAN /\ bw_list \in Seq(Entries) /\ inserted \in SUBSET Places
    /\ attached => /\ UnitFits("break", fpb, hw_breakpoint, bw_list, inserted)
                   /\ UnitFits("watch", dwt, hw_watchpoint, bw_list, inserted)

LEMMA UnitAddressed ==
    ASSUME NEW type
    PROVE  Addressed(Unit(type))
<1>1. ASSUME NEW p \in Unit(type) PROVE p.addr \in Nat /\ p = [type |-> type, addr |-> p.addr]
  <2>1. p \in [type : {"break", "watch"}, addr : Addrs] /\ p.type = type
    BY CortexMAssumption, Zenon DEF Unit
  <2> QED BY <2>1, CortexMAssumption, Zenon
<1>2. ASSUME NEW p \in Unit(type), NEW q \in Unit(type), p.addr = q.addr PROVE p = q
  BY <1>1, <1>2, Zenon
<1> QED BY <1>1, <1>2, Zenon DEF Addressed

LEMMA FitsExactly ==
    ASSUME NEW type, NEW comp, NEW used, NEW list, inserted \in SUBSET Places,
           UnitFits(type, comp, used, list, inserted)
    PROVE  Exactly(type, comp, used)
<1> DEFINE on == {i \in DOMAIN comp : comp[i] # Off}
<1> USE DEF UnitFits
<1>1. DOMAIN comp = Slots(type)
  BY Zenon DEF Fits
<1>2. ASSUME NEW i \in on PROVE comp[i] \in {p.addr : p \in {q \in inserted : q.type = type}}
  <2>1. PICK q \in inserted : q \in Unit(type) /\ q.addr = comp[i]
    BY <1>1, <1>2, Zenon DEF Fits, Off, Unarmed
  <2> QED BY <2>1, Zenon DEF Unit
<1>3. ASSUME NEW q \in inserted, q.type = type PROVE q.addr \in {comp[i] : i \in on}
  <2>1. PICK k \in 1..Len(list) : list[k].reserved \in Slots(type) /\ comp[list[k].reserved] = q.addr
    BY <1>3, Zenon DEF Fits, Unit
  <2>2. q.addr # Off
    BY CortexMAssumption DEF Off
  <2>3. list[k].reserved \in on
    BY <1>1, <2>1, <2>2, Zenon
  <2> QED BY <2>1, <2>3, Zenon
<1>4. {comp[i] : i \in on} = {p.addr : p \in {q \in inserted : q.type = type}}
  BY <1>2, <1>3, Zenon
<1>5. \A i, j \in on : comp[i] = comp[j] => i = j
  BY <1>1, Zenon DEF Fits, Off, Unarmed
<1>6. \A i \in DOMAIN comp : used[i] <=> i \in on
  BY <1>1, Zenon DEF Fits, Off, Unarmed
<1> QED BY <1>4, <1>5, <1>6, Zenon DEF Exactly

LEMMA SetSlots ==
    ASSUME SlotInv, NEW p \in Places, SetPlace(p)
    PROVE  SlotInv'
<1>1. PICK i : i = FirstFree(p.type)
  BY Zenon
<1> DEFINE e == [place |-> p, reserved |-> i]
<1>2. i \in Slots(p.type) /\ ~Used(p.type)[i]
  <2>1. Free(p.type) \in SUBSET Nat /\ Free(p.type) # {}
    BY DEF Free, Slots, SetPlace
  <2>2. i \in Free(p.type)
    BY <1>1, <2>1, MinIn, Zenon DEF FirstFree
  <2> QED BY <2>2, Zenon DEF Free
<1>3. /\ attached /\ attached' = attached /\ p \notin inserted
      /\ Assign(p.type, i, TRUE, p.addr) /\ bw_list' = <<e>> \o bw_list /\ inserted' = inserted \cup {p}
  BY <1>1, Zenon DEF SetPlace, probeVars
<1>4. e \in Entries /\ e.place = p
  BY <1>2 DEF Entries, Slots
<1>5. bw_list \in Seq(Entries) /\ inserted \in SUBSET Places
  BY Zenon DEF SlotInv
<1>6. bw_list' \in Seq(Entries) /\ inserted' \in SUBSET Places
  BY <1>3, <1>4, <1>5, Prepended, Zenon
<1>7. p.type \in {"break", "watch"} /\ p \in Unit(p.type) /\ \A t : t # p.type => p \notin Unit(t)
  BY CortexMAssumption, Zenon DEF Unit
<1>8. CASE p.type = "break"
  <2>1. UnitFits("break", fpb', hw_breakpoint', bw_list', inserted')
    <3>1. fpb' = [fpb EXCEPT ![i] = p.addr] /\ hw_breakpoint' = [hw_breakpoint EXCEPT ![i] = TRUE]
      BY <1>3, <1>8, Zenon DEF Assign
    <3>2. i \in Slots("break") /\ ~hw_breakpoint[i] /\ p \in Unit("break")
      BY <1>2, <1>7, <1>8, Zenon DEF Used
    <3>3. Fits(Slots("break"), Unit("break"), fpb, hw_breakpoint, bw_list, inserted)
      BY <1>3, Zenon DEF SlotInv, UnitFits
    <3> QED BY <1>3, <1>4, <1>5, <3>1, <3>2, <3>3, FitsSet, UnitAddressed, Zenon DEF UnitFits
  <2>2. UnitFits("watch", dwt', hw_watchpoint', bw_list', inserted')
    <3>1. UNCHANGED <<dwt, hw_watchpoint>>
      BY <1>3, <1>8, Zenon DEF Assign
    <3>2. e.place \notin Unit("watch")
      BY <1>4, <1>7, <1>8, Zenon
    <3>3. Fits(Slots("watch"), Unit("watch"), dwt, hw_watchpoint, bw_list, inserted)
      BY <1>3, Zenon DEF SlotInv, UnitFits
    <3>4. Fits(Slots("watch"), Unit("watch"), dwt, hw_watchpoint, <<e>> \o bw_list, inserted \cup {e.place})
      BY <1>4, <1>5, <3>2, <3>3, FitsSetOther, Zenon
    <3> QED BY <1>3, <1>4, <3>1, <3>4, Zenon DEF UnitFits
  <2> QED BY <1>3, <1>6, <2>1, <2>2, SMTT(30) DEF SlotInv
<1>9. CASE p.type = "watch"
  <2>1. UnitFits("watch", dwt', hw_watchpoint', bw_list', inserted')
    <3>1. dwt' = [dwt EXCEPT ![i] = p.addr] /\ hw_watchpoint' = [hw_watchpoint EXCEPT ![i] = TRUE]
      BY <1>3, <1>9, Zenon DEF Assign
    <3>2. i \in Slots("watch") /\ ~hw_watchpoint[i] /\ p \in Unit("watch")
      BY <1>2, <1>7, <1>9, Zenon DEF Used
    <3>3. Fits(Slots("watch"), Unit("watch"), dwt, hw_watchpoint, bw_list, inserted)
      BY <1>3, Zenon DEF SlotInv, UnitFits
    <3> QED BY <1>3, <1>4, <1>5, <3>1, <3>2, <3>3, FitsSet, UnitAddressed, Zenon DEF UnitFits
  <2>2. UnitFits("break", fpb', hw_breakpoint', bw_list', inserted')
    <3>1. UNCHANGED <<fpb, hw_breakpoint>>
      BY <1>3, <1>9, Zenon DEF Assign
    <3>2. e.place \notin Unit("break")
      BY <1>4, <1>7, <1>9, Zenon
    <3>3. Fits(Slots("break"), Unit("break"), fpb, hw_breakpoint, bw_list, inserted)
      BY <1>3, Zenon DEF SlotInv, UnitFits
    <3>4. Fits(Slots("break"), Unit("break"), fpb, hw_breakpoint, <<e>> \o bw_list, inserted \cup {e.place})
      BY <1>4, <1>5, <3>2, <3>3, FitsSetOther, Zenon
    <3> QED BY <1>3, <1>4, <3>1, <3>4, Zenon DEF UnitFits
  <2> QED BY <1>3, <1>6, <2>1, <2>2, Zenon DEF SlotInv
<1> QED BY <1>7, <1>8, <1>9, Zenon

LEMMA ClearSlots ==
    ASSUME SlotInv, NEW p \in Places, ClearPlace(p)
    PROVE  SlotInv'
<1>1. PICK n : n = Entry(p)
  BY Zenon
<1>2. bw_list \in Seq(Entries) /\ inserted \in SUBSET Places
  BY Zenon DEF SlotInv
<1>3. n \in 1..Len(bw_list) /\ NewestAt(bw_list, n, p) /\ bw_list[n].place = p
  <2>1. \E k \in 1..Len(bw_list) : bw_list[k].place = p
    BY <1>2 DEF ClearPlace, Matching
  <2>2. n \in 1..Len(bw_list) /\ NewestAt(bw_list, n, p)
    BY <1>1, <1>2, <2>1, FirstNewest, Zenon DEF Entry, Matching
  <2> QED BY <2>2, Zenon DEF NewestAt
<1>4. /\ attached /\ attached' = attached /\ p \in inserted
      /\ Assign(p.type, bw_list[n].reserved, FALSE, Off)
      /\ bw_list' = RemoveAt(bw_list, n) /\ inserted' = inserted \ {p}
  BY <1>1, Zenon DEF ClearPlace, probeVars, Unlinked, RemoveAt
<1>5. bw_list' \in Seq(Entries) /\ inserted' \in SUBSET Places
  BY <1>2, <1>3, <1>4, Removed, Zenon
<1>6. p.type \in {"break", "watch"} /\ p \in Unit(p.type) /\ \A t : t # p.type => p \notin Unit(t)
  BY CortexMAssumption, Zenon DEF Unit
<1>7. CASE p.type = "break"
  <2>1. UnitFits("break", fpb', hw_breakpoint', bw_list', inserted')
    <3>1. /\ fpb' = [fpb EXCEPT ![bw_list[n].reserved] = Unarmed]
          /\ hw_breakpoint' = [hw_breakpoint EXCEPT ![bw_list[n].reserved] = FALSE]
      BY <1>4, <1>7, Zenon DEF Assign, Off, Unarmed
    <3>2. p \in Unit("break")
      BY <1>6, <1>7, Zenon
    <3>3. Fits(Slots("break"), Unit("break"), fpb, hw_breakpoint, bw_list, inserted)
      BY <1>4, Zenon DEF SlotInv, UnitFits
    <3> QED BY <1>2, <1>3, <1>4, <3>1, <3>2, <3>3, FitsClear, UnitAddressed, Zenon DEF UnitFits
  <2>2. UnitFits("watch", dwt', hw_watchpoint', bw_list', inserted')
    <3>1. UNCHANGED <<dwt, hw_watchpoint>>
      BY <1>4, <1>7, Zenon DEF Assign
    <3>2. bw_list[n].place \notin Unit("watch")
      BY <1>3, <1>6, <1>7, Zenon
    <3>3. Fits(Slots("watch"), Unit("watch"), dwt, hw_watchpoint, bw_list, inserted)
      BY <1>4, Zenon DEF SlotInv, UnitFits
    <3>4. Fits(Slots("watch"), Unit("watch"), dwt, hw_watchpoint, RemoveAt(bw_list, n), inserted \ {bw_list[n].place})
      BY <1>2, <1>3, <3>2, <3>3, FitsClearOther, Zenon
    <3> QED BY <1>3, <1>4, <3>1, <3>4, Zenon DEF UnitFits
  <2> QED BY <1>4, <1>5, <2>1, <2>2, Zenon DEF SlotInv
<1>8. CASE p.type = "watch"
  <2>1. UnitFits("watch", dwt', hw_watchpoint', bw_list', inserted')
    <3>1. /\ dwt' = [dwt EXCEPT ![bw_list[n].reserved] = Unarmed]
          /\ hw_watchpoint' = [hw_watchpoint EXCEPT ![bw_list[n].reserved] = FALSE]
      BY <1>4, <1>8, Zenon DEF Assign, Off, Unarmed
    <3>2. p \in Unit("watch")
      BY <1>6, <1>8, Zenon
    <3>3. Fits(Slots("watch"), Unit("watch"), dwt, hw_watchpoint, bw_list, inserted)
      BY <1>4, Zenon DEF SlotInv, UnitFits
    <3> QED BY <1>2, <1>3, <1>4, <3>1, <3>2, <3>3, FitsClear, UnitAddressed, Zenon DEF UnitFits
  <2>2. UnitFits("break", fpb', hw_breakpoint', bw_list', inserted')
    <3>1. UNCHANGED <<fpb, hw_breakpoint>>
      BY <1>4, <1>8, Zenon DEF Assign
    <3>2. bw_list[n].place \notin Unit("break")
      BY <1>3, <1>6, <1>8, Zenon
    <3>3. Fits(Slots("break"), Unit("break"), fpb, hw_breakpoint, bw_list, inserted)
      BY <1>4, Zenon DEF SlotInv, UnitFits
    <3>4. Fits(Slots("break"), Unit("break"), fpb, hw_breakpoint, RemoveAt(bw_list, n), inserted \ {bw_list[n].place})
      BY <1>2, <1>3, <3>2, <3>3, FitsClearOther, Zenon
    <3> QED BY <1>3, <1>4, <3>1, <3>4, Zenon DEF UnitFits
  <2> QED BY <1>4, <1>5, <2>1, <2>2, Zenon DEF SlotInv
<1> QED BY <1>6, <1>7, <1>8, Zenon

LEMMA SlotsNext ==
    ASSUME SlotInv, [CoreNext]_coreMVars
    PROVE  SlotInv'
<1>1. CASE Attach
  BY <1>1, FitsNothing, Zenon DEF Attach, SlotInv, UnitFits, Cleared, AllFree, Off, Unarmed
<1>2. CASE Detach
  BY <1>2, Zenon DEF Detach, SlotInv
<1>3. CASE UNCHANGED <<attached, slotVars>>
  BY <1>3, Zenon DEF slotVars, SlotInv
<1>4. ASSUME NEW step \in BOOLEAN, Resume(step) PROVE UNCHANGED <<attached, slotVars>>
  BY <1>4, Zenon DEF Resume
<1>5. HaltRequest \/ Query \/ Reset => UNCHANGED <<attached, slotVars>>
  BY Zenon DEF HaltRequest, Query, Reset, probeVars
<1>6. PollFault \/ PollSyscall \/ PollExit \/ PollInterrupted \/ PollStopped => UNCHANGED <<attached, slotVars>>
  BY Zenon DEF PollFault, PollSyscall, PollExit, PollInterrupted, PollStopped, probeVars
<1>7. StubStart \/ StubUnstarted \/ StubTimeout => UNCHANGED <<attached, slotVars>>
  BY Zenon DEF StubStart, StubUnstarted, StubTimeout, probeVars
<1>8. CoreHitsBreak \/ CoreExecutes \/ CoreFaults \/ CoreObeys => UNCHANGED <<attached, slotVars>>
  BY Zenon DEF CoreHitsBreak, CoreExecutes, CoreFaults, CoreObeys, probeVars
<1>9. UNCHANGED coreMVars => UNCHANGED <<attached, slotVars>>
  BY Zenon DEF coreMVars, probeVars
<1> QED BY <1>1, <1>2, <1>3, <1>4, <1>5, <1>6, <1>7, <1>8, <1>9, SetSlots, ClearSlots, Zenon DEF CoreNext

\* The comparators of an attached Cortex-M are those that GDB's Z and z packets
\* of this session ask for (cortexm_breakwatch_set, cortexm_breakwatch_clear and
\* the list of target_breakwatch_set), whatever earlier sessions left on the list.
THEOREM ComparatorsExact == CoreSpec => []BreakpointsExact
<1>1. ASSUME CoreInit PROVE SlotInv
  <2>1. attached = FALSE /\ bw_list = <<>> /\ inserted = {}
    BY <1>1, Zenon DEF CoreInit
  <2>2. <<>> \in Seq(Entries) /\ {} \in SUBSET Places
    OBVIOUS
  <2> QED BY <2>1, <2>2, Zenon DEF SlotInv
<1>2. SlotInv => BreakpointsExact
  BY FitsExactly, Zenon DEF SlotInv, BreakpointsExact
<1> QED BY <1>1, <1>2, SlotsNext, PTL DEF CoreSpec

---------------------------------------------------------------------------
(* Semihosting: what a call has transferred and the program has not        *)
(* counted yet is in the file, or in the buffer.                           *)

FileCalls == {"open", "write", "flen", "seek", "read", "close"}

\* The memory operations are exchanged exactly while GDB serves such a call.
PathInv ==
    mem_path = "target" \/ (call.state = "served" /\ call.sys \in ToProbe)

\* What the call that was answered has transferred, and the program has not counted yet.
Transferred(sys) ==
    IF call.state = "answered" /\ call.sys = sys /\ r0 # -1 THEN call.len - r0 ELSE 0

\* Where the program is, and the call it has made.
Phase ==
    /\ program \in FileCalls \cup {"end"} /\ r0 \in Int /\ position \in Int
    /\ got \in Seq(Int) /\ buffer \in Seq(Int) /\ Len(buffer) = Len(Data)
    /\ call.state \in {"none", "asked", "answered"}
    /\ IF call.state = "none" THEN call.sys = "none" ELSE call.sys \in Misc \cup ({program} \cap FileCalls)
    /\ call.sys = "write" => call.len = Len(Data) - done
    /\ call.sys = "read" => call.len = Len(Data) - Len(got)
    /\ program = "open" => done = 0
    /\ program \in {"open", "write", "flen"} => size = -1
    /\ program \in {"open", "write", "flen", "seek"} => got = <<>>
    /\ program \in {"flen", "seek", "read"} => done = Len(Data)

WrittenInv ==
    /\ done \in Nat /\ Transferred("write") \in Nat /\ done + Transferred("write") <= Len(Data)
    /\ file = SubSeq(Data, 1, done + Transferred("write"))
    /\ size # -1 => size = Len(file)

FlenInv == call.state = "answered" /\ call.sys = "flen" /\ r0 # -1 => r0 = Len(file)
SeekInv == call.state = "answered" /\ call.sys = "seek" /\ r0 = 0 => position = 0

ReadInv ==
    /\ Transferred("read") >= 0 /\ Len(got) + Transferred("read") <= Len(Data)
    /\ \A i \in 1..Len(got) : got[i] = Data[i]
    /\ \A i \in 1..Transferred("read") : buffer[i] = Data[Len(got) + i]
    /\ program = "read" => \/ position = Len(got) + Transferred("read")
                           \/ call.state = "answered" /\ call.sys = "read" /\ r0 = -1

HostedInv == build = "hosted" => Phase /\ WrittenInv /\ FlenInv /\ SeekInv /\ ReadInv

SemiInv == PathInv /\ HostedInv

LEMMA DataLength == Len(Data) \in Nat /\ Data \in Seq(Int)
  BY DataAssumption DEF DataAssumption

\* What concatenation is, element by element.
LEMMA CatIs ==
    ASSUME NEW S, NEW s \in Seq(S), NEW t \in Seq(S)
    PROVE  /\ s \o t \in Seq(S) /\ Len(s \o t) = Len(s) + Len(t)
           /\ \A i \in 1..Len(s) : (s \o t)[i] = s[i]
           /\ \A i \in 1..Len(t) : (s \o t)[Len(s) + i] = t[i]
OBVIOUS

\* Sequences are equal if they have the same length and the same elements.
LEMMA SameSeq ==
    ASSUME NEW S, NEW s \in Seq(S), NEW t \in Seq(S), Len(s) = Len(t), \A i \in 1..Len(s) : s[i] = t[i]
    PROVE  s = t
<1>1. s = [i \in 1..Len(s) |-> s[i]] /\ t = [i \in 1..Len(t) |-> t[i]]
  OBVIOUS
<1> QED BY <1>1, Zenon

\* An array is a sequence.
LEMMA FunSeq ==
    ASSUME NEW n \in Nat, NEW S, NEW f \in [1..n -> S]
    PROVE  f \in Seq(S) /\ Len(f) = n
OBVIOUS

\* What SubSeq takes out of a sequence.
LEMMA Slice ==
    ASSUME NEW S, NEW s \in Seq(S), NEW p \in Nat, NEW m \in Nat, p + m <= Len(s)
    PROVE  /\ Len(SubSeq(s, p + 1, p + m)) = m
           /\ \A i \in 1..m : SubSeq(s, p + 1, p + m)[i] = s[p + i]
OBVIOUS

\* What is written next goes on where the last write ended.
LEMMA Joined ==
    ASSUME NEW d \in Nat, NEW n \in Nat, d + n <= Len(Data)
    PROVE  SubSeq(Data, 1, d) \o SubSeq(SubSeq(Data, d + 1, Len(Data)), 1, n) = SubSeq(Data, 1, d + n)
<1> DEFINE a == SubSeq(Data, 1, d)  r == SubSeq(Data, d + 1, Len(Data))  b == SubSeq(r, 1, n)
           c == SubSeq(Data, 1, d + n)
<1>0. Len(Data) \in Nat /\ Data \in Seq(Int)
  BY DataLength, Zenon
<1>1. a \in Seq(Int) /\ Len(a) = d /\ \A i \in 1..d : a[i] = Data[i]
  BY <1>0, SMTT(60)
<1>2. r \in Seq(Int) /\ Len(r) = Len(Data) - d /\ \A i \in 1..(Len(Data) - d) : r[i] = Data[d + i]
  BY <1>0
<1>3. c \in Seq(Int) /\ Len(c) = d + n /\ \A i \in 1..(d + n) : c[i] = Data[i]
  BY <1>0
<1> HIDE DEF a, r, c
<1>4. b \in Seq(Int) /\ Len(b) = n /\ \A i \in 1..n : b[i] = r[i]
  BY <1>0, <1>2, SMTT(60)
<1> HIDE DEF b
<1>5. /\ a \o b \in Seq(Int) /\ Len(a \o b) = Len(a) + Len(b)
      /\ \A i \in 1..Len(a) : (a \o b)[i] = a[i]
      /\ \A i \in 1..Len(b) : (a \o b)[Len(a) + i] = b[i]
  <2>1. a \in Seq(Int) /\ b \in Seq(Int)
    BY <1>1, <1>4, Zenon
  <2> QED BY <2>1, CatIs
<1>6. ASSUME NEW i \in 1..(d + n) PROVE (a \o b)[i] = c[i]
  <2>1. CASE i <= d
    <3>1. i \in 1..d
      BY <2>1
    <3> QED BY <1>1, <1>3, <1>5, <3>1, Zenon
  <2>2. CASE i > d
    <3>1. PICK j \in 1..n : i = d + j /\ j \in 1..(Len(Data) - d)
      <4>1. i - d \in 1..n /\ i = d + (i - d) /\ i - d \in 1..(Len(Data) - d)
        BY <1>0, <2>2
      <4> QED BY <4>1, Zenon
    <3>2. (a \o b)[i] = b[j]
      BY <1>1, <1>4, <1>5, <3>1, Zenon
    <3>3. b[j] = r[j] /\ r[j] = Data[d + j] /\ c[i] = Data[i]
      BY <1>2, <1>3, <1>4, <3>1, SMTT(60)
    <3> QED BY <3>1, <3>2, <3>3, Zenon
  <2>3. i <= d \/ i > d
    OBVIOUS
  <2> QED BY <2>1, <2>2, <2>3, Zenon
<1>7. a \o b = c
  <2>1. Len(a \o b) = d + n
    BY <1>1, <1>4, <1>5, Zenon
  <2>2. Len(a \o b) = Len(c) /\ \A i \in 1..Len(a \o b) : (a \o b)[i] = c[i]
    BY <1>3, <1>6, <2>1, Zenon
  <2> QED BY <1>3, <1>5, <2>2, SameSeq, Zenon
<1> QED BY <1>7, Zenon DEF a, r, b, c

\* What HostOutcomes allows for each call.
LEMMA Outcomes ==
    ASSUME NEW sys \in FileCalls, NEW fd, NEW length, NEW o \in HostOutcomes(sys, fd, length)
    PROVE  \/ o = Failed
           \/ sys = "open" /\ o = [Failed EXCEPT !.result = Descriptor, !.file = <<>>, !.position = 0]
           \/ /\ sys = "write"
              /\ \E n \in 1..length : o = [Failed EXCEPT !.result = n, !.file = file \o SubSeq(Rest, 1, n),
                                                         !.position = position + n]
           \/ /\ sys = "read" /\ position >= 0
              /\ \E n \in 0..length : /\ position + n <= Len(file)
                                      /\ o = [Failed EXCEPT !.result = n, !.position = position + n,
                                                !.bytes = SubSeq(file, position + 1, position + n)]
           \/ sys = "seek" /\ o = [Failed EXCEPT !.result = 0, !.position = 0]
           \/ sys = "flen" /\ o = [Failed EXCEPT !.result = Len(file)]
           \/ sys = "close" /\ o = [Failed EXCEPT !.result = 0, !.position = -1]
<1>1. CASE sys = "open"
  BY <1>1, SMTT(30) DEF HostOutcomes
<1>2. CASE sys = "write"
  BY <1>2, ZenonT(30) DEF HostOutcomes
<1>3. CASE sys = "read"
  BY <1>3, ZenonT(30) DEF HostOutcomes, Open
<1>4. CASE sys \in {"seek", "flen", "close"}
  BY <1>4, Zenon DEF HostOutcomes
<1> QED BY <1>1, <1>2, <1>3, <1>4, Zenon DEF FileCalls

\* The memory operations are put back before the call ends.
LEMMA PathStep ==
    ASSUME PathInv, [SemiNext]_semiVars
    PROVE  PathInv'
<1>1. CASE ProgramCalls
  <2>1. call = NoCall /\ mem_path' = mem_path
    BY <1>1, Zenon DEF ProgramCalls, Trap
  <2> QED BY <2>1, Zenon DEF PathInv, NoCall
<1>2. CASE ProgramGoesOn \/ HostedRequest \/ OwnAnswer \/ GdbContinues
  BY <1>2, Zenon DEF ProgramGoesOn, HostedRequest, OwnAnswer, GdbContinues, PathInv
<1>3. CASE RequestFileIo
  <2>1. mem_path = "target"
    BY <1>3, Zenon DEF RequestFileIo, PathInv
  <2>2. CASE call.sys \in ToProbe
    <3>1. call' = [call EXCEPT !.state = "served"]
      BY <1>3, <2>2, Zenon DEF RequestFileIo, tc_call, hostio_call, ToProbe
    <3> QED BY <2>2, <3>1 DEF PathInv
  <2>3. CASE call.sys \notin ToProbe
    BY <1>3, <2>1, <2>3, Zenon DEF RequestFileIo, PathInv
  <2> QED BY <2>2, <2>3, Zenon
<1>4. CASE FileIoReply \/ FileIoMemory
  <2>1. mem_path' = IF call.sys \in ToProbe THEN "target" ELSE mem_path
    BY <1>4, Zenon DEF FileIoReply, FileIoMemory, Served, SavedPath
  <2> QED BY <2>1, Zenon DEF PathInv
<1>5. CASE UNCHANGED semiVars
  BY <1>5, Zenon DEF semiVars, PathInv
<1> QED BY <1>1, <1>2, <1>3, <1>4, <1>5, Zenon DEF SemiNext

\* A call that transfers nothing, or whose result the program has taken.
LEMMA NoTransfer ==
    ASSUME NEW sys, call.state # "answered" \/ call.sys # sys \/ r0 = -1
    PROVE  Transferred(sys) = 0
BY Zenon DEF Transferred

LEMMA MiscCalls == Misc \cap FileCalls = {} /\ "none" \notin Misc /\ "none" \notin FileCalls
BY Zenon DEF Misc, FileCalls

\* A call that leaves the file alone.
LEMMA OtherCalls ==
    ASSUME HostedInv, build = "hosted", UNCHANGED <<programVars, hostVars, buffer>>,
           call'.state \in {"none", "asked", "answered"}, r0' \in Int,
           IF call'.state = "none" THEN call'.sys = "none" ELSE call'.sys \in Misc \cup ({program} \cap FileCalls),
           call'.sys = "write" => call'.len = Len(Data) - done,
           call'.sys = "read" => call'.len = Len(Data) - Len(got),
           call.state # "answered" \/ call.sys \in Misc,
           call'.state # "answered" \/ call'.sys \in Misc
    PROVE  HostedInv'
<1>0. Phase /\ WrittenInv /\ ReadInv
  BY Zenon DEF HostedInv
<1>1. /\ Transferred("write") = 0 /\ Transferred("read") = 0
      /\ Transferred("write")' = 0 /\ Transferred("read")' = 0
      /\ call'.state = "answered" => call'.sys \notin {"flen", "seek", "read", "write"}
      /\ call.state = "answered" => call.sys \notin {"flen", "seek", "read", "write"}
  BY Zenon DEF Transferred, Misc
<1>2. UNCHANGED <<program, handle, done, size, got, file, position, buffer>>
  BY Zenon DEF programVars, hostVars
<1>3. Phase'
  BY <1>0, <1>2, Zenon DEF Phase
<1>4. WrittenInv'
  BY <1>0, <1>1, <1>2, Zenon DEF WrittenInv
<1>5. FlenInv' /\ SeekInv'
  BY <1>1, Zenon DEF FlenInv, SeekInv
<1>6. ReadInv'
  BY <1>0, <1>1, <1>2, Zenon DEF ReadInv
<1> QED BY <1>3, <1>4, <1>5, <1>6, Zenon DEF HostedInv

\* The program calls, and what cortexm_hostio_request answers by itself.
LEMMA CallsInv ==
    ASSUME HostedInv, build = "hosted", ProgramCalls \/ OwnAnswer \/ GdbContinues
    PROVE  HostedInv'
<1>0. Phase
  BY Zenon DEF HostedInv
<1>1. CASE ProgramCalls
  <2>1. /\ call = NoCall /\ UNCHANGED <<programVars, hostVars, buffer, r0>>
        /\ call'.state = "asked" /\ call'.sys \in Misc \cup ({program} \cap FileCalls)
        /\ call'.sys = "write" => call'.len = Len(Rest)
        /\ call'.sys = "read" => call'.len = Len(Data) - Len(got)
    <3>0. UNCHANGED programVars /\ "write" \notin Misc /\ "read" \notin Misc
      BY <1>1, Zenon DEF ProgramCalls, Misc
    <3>1. CASE program \in {"open", "flen", "seek", "close"} /\ Trap(program, handle - 1, 0)
      BY <3>0, <3>1, Zenon DEF Trap, FileCalls
    <3>2. CASE program = "write" /\ Trap("write", handle - 1, Len(Rest))
      BY <3>0, <3>2, Zenon DEF Trap, FileCalls
    <3>3. CASE program = "read" /\ Trap("read", handle - 1, Len(Data) - Len(got))
      BY <3>0, <3>3, Zenon DEF Trap, FileCalls
    <3>4. ASSUME NEW sys \in Misc, Trap(sys, 0, 0)
          PROVE  /\ call = NoCall /\ UNCHANGED <<programVars, hostVars, buffer, r0>>
                 /\ call'.state = "asked" /\ call'.sys \in Misc \cup ({program} \cap FileCalls)
                 /\ call'.sys = "write" => call'.len = Len(Rest)
                 /\ call'.sys = "read" => call'.len = Len(Data) - Len(got)
      BY <3>0, <3>4, Zenon DEF Trap
    <3> QED BY <1>1, <3>1, <3>2, <3>3, <3>4, ZenonT(60) DEF ProgramCalls
  <2>2. call'.sys = "write" => call'.len = Len(Data) - done
    <3> SUFFICES ASSUME call'.sys = "write" PROVE Len(Rest) = Len(Data) - done
      BY <2>1, Zenon
    <3>1. done \in Nat /\ done <= Len(Data)
      BY <2>1, NoTransfer DEF HostedInv, WrittenInv, NoCall
    <3> QED BY <3>1, DataLength DEF Rest
  <2> QED BY <1>0, <2>1, <2>2, OtherCalls, Zenon DEF Phase, NoCall
<1>2. CASE OwnAnswer
  <2>1. Own \subseteq Misc /\ r0' \in Int /\ UNCHANGED <<programVars, hostVars, buffer>>
        /\ call.sys \in Own /\ call.state = "asked" /\ call' = [call EXCEPT !.state = "answered"]
    BY <1>2 DEF OwnAnswer, OwnResults, Own, Misc
  <2>2. call.sys \notin {"read", "write"} /\ call'.sys = call.sys /\ call'.state = "answered"
    BY <2>1, SMTT(60) DEF Own
  <2> QED BY <2>1, <2>2, OtherCalls, Zenon
<1>3. CASE GdbContinues
  <2>1. UNCHANGED <<build, program, handle, done, size, got, call, r0, buffer, file, position>>
    BY <1>3, Zenon DEF GdbContinues, programVars, hostVars
  <2> QED BY <2>1, SMTT(30) DEF HostedInv, Phase, WrittenInv, FlenInv, SeekInv, ReadInv, Transferred
<1> QED BY <1>1, <1>2, <1>3, Zenon

\* What the hosted build does to the file, the buffer and the result.
LEMMA Answers ==
    ASSUME HostedInv, build = "hosted", HostedRequest, call.sys \notin Misc
    PROVE  /\ call.sys = program /\ program \in FileCalls /\ UNCHANGED programVars
           /\ call'.sys = call.sys /\ call'.len = call.len /\ call'.state = "answered"
           /\ buffer' \in Seq(Int) /\ Len(buffer') = Len(Data)
           /\ \/ r0' = -1 /\ file' = file /\ (position' = position \/ (program = "read" /\ position' \in Int))
              \/ program = "open" /\ r0' = 4 /\ file' = <<>> /\ position' = 0
              \/ /\ program = "write"
                 /\ \E n \in 1..call.len : r0' = call.len - n /\ file' = file \o SubSeq(Rest, 1, n) /\ position' = position + n
              \/ /\ program = "read" /\ position >= 0 /\ file' = file
                 /\ \E n \in 0..call.len : /\ position + n <= Len(file) /\ position' = position + n /\ r0' = call.len - n
                                          /\ \A i \in 1..n : buffer'[i] = file[position + i]
              \/ program = "seek" /\ r0' = 0 /\ position' = 0 /\ file' = file
              \/ program = "flen" /\ r0' = Len(file) /\ position' = position /\ file' = file
              \/ program = "close" /\ r0' = 0 /\ position' = -1 /\ file' = file
<1>0. Phase /\ WrittenInv /\ ReadInv
  BY Zenon DEF HostedInv
<1>1. call.state = "asked" /\ call.sys = program /\ program \in FileCalls /\ call' = [call EXCEPT !.state = "answered"]
  BY <1>0, Zenon DEF HostedRequest, Phase
<1>2. call'.sys = call.sys /\ call'.len = call.len /\ call'.state = "answered" /\ UNCHANGED programVars
  <2>1. call'.sys = call.sys /\ call'.len = call.len
    BY <1>1
  <2>2. call'.state = "answered"
    BY <1>0, <1>1 DEF Phase
  <2> QED BY <2>1, <2>2, Zenon DEF HostedRequest
<1>3. PICK o \in HostOutcomes(call.sys, call.fd, call.len), memory \in BOOLEAN :
        LET forgone == ~memory /\ call.sys \in {"open", "write"}
        IN /\ r0' = IF ~memory /\ call.sys \in {"open", "read", "write"} THEN -1
                    ELSE Result(call.sys, o.result, call.len)
           /\ file' = IF forgone THEN file ELSE o.file
           /\ position' = IF forgone THEN position ELSE o.position
           /\ buffer' = IF call.sys = "read" /\ memory
                        THEN [i \in 1..Len(Data) |->
                                 IF i <= Len(o.bytes) THEN o.bytes[i]
                                 ELSE IF i <= call.len THEN Junk ELSE buffer[i]]
                        ELSE buffer
  BY Zenon DEF HostedRequest
<1>4. \/ o = Failed
      \/ program = "open" /\ o = [Failed EXCEPT !.result = Descriptor, !.file = <<>>, !.position = 0]
      \/ /\ program = "write"
         /\ \E n \in 1..call.len : o = [Failed EXCEPT !.result = n, !.file = file \o SubSeq(Rest, 1, n),
                                                      !.position = position + n]
      \/ /\ program = "read" /\ position >= 0
         /\ \E n \in 0..call.len : /\ position + n <= Len(file)
                                  /\ o = [Failed EXCEPT !.result = n, !.position = position + n,
                                            !.bytes = SubSeq(file, position + 1, position + n)]
      \/ program = "seek" /\ o = [Failed EXCEPT !.result = 0, !.position = 0]
      \/ program = "flen" /\ o = [Failed EXCEPT !.result = Len(file)]
      \/ program = "close" /\ o = [Failed EXCEPT !.result = 0, !.position = -1]
  BY <1>1, <1>3, Outcomes, ZenonT(60)
<1>5. /\ file \in Seq(Int) /\ Len(file) \in Nat /\ position \in Int /\ Len(Data) \in Nat
      /\ buffer \in Seq(Int) /\ Len(buffer) = Len(Data) /\ DOMAIN buffer = 1..Len(Data)
      /\ program = "read" => call.len \in Nat /\ call.len <= Len(Data)
      /\ program = "write" => call.len \in Nat
  <2>1. /\ done \in Nat /\ done + Transferred("write") <= Len(Data) /\ Transferred("write") \in Nat
        /\ file = SubSeq(Data, 1, done + Transferred("write"))
    BY <1>0, ZenonT(60) DEF WrittenInv
  <2>2. Len(got) \in Nat /\ Len(got) <= Len(Data) /\ position \in Int /\ buffer \in Seq(Int) /\ Len(buffer) = Len(Data)
    <3>1. Transferred("read") = 0
      BY <1>1, Zenon DEF Transferred
    <3> QED BY <1>0, <3>1, SMTT(60) DEF Phase, ReadInv
  <2>3. file \in Seq(Int) /\ Len(file) \in Nat
    BY <2>1, DataLength, SMTT(60)
  <2>4. /\ program = "read" => call.len = Len(Data) - Len(got)
        /\ program = "write" => call.len = Len(Data) - done
    BY <1>0, <1>1, Zenon DEF Phase
  <2>5. Len(Data) \in Nat /\ Len(Data) - Len(got) \in Nat /\ Len(Data) - Len(got) <= Len(Data) /\ Len(Data) - done \in Nat
    BY <2>1, <2>2, DataLength, SMTT(60)
  <2> QED BY <2>2, <2>3, <2>4, <2>5, SMTT(60)
<1>6. buffer' \in Seq(Int) /\ Len(buffer') = Len(Data)
  <2>1. CASE call.sys = "read" /\ memory
    <3>1. o.bytes \in Seq(Int)
      <4>1. o = Failed \/ \E n \in 0..call.len : /\ position >= 0 /\ position + n <= Len(file)
                                  /\ o = [Failed EXCEPT !.result = n, !.position = position + n,
                                            !.bytes = SubSeq(file, position + 1, position + n)]
        BY <1>1, <1>4, <2>1, ZenonT(60)
      <4>2. CASE o = Failed
        BY <4>2, SMTT(60) DEF Failed
      <4>3. ASSUME NEW n \in 0..call.len, position >= 0, position + n <= Len(file),
                   o = [Failed EXCEPT !.result = n, !.position = position + n,
                                      !.bytes = SubSeq(file, position + 1, position + n)]
            PROVE  o.bytes \in Seq(Int)
        <5>1. o.bytes = SubSeq(file, position + 1, position + n)
          BY <4>3, Zenon DEF Failed
        <5>2. call.len \in Nat
          BY <1>1, <1>5, <2>1, ZenonT(60)
        <5> QED BY <1>5, <4>3, <5>1, <5>2, SMTT(60)
      <4> QED BY <4>1, <4>2, <4>3, ZenonT(30)
    <3>2. buffer' \in [1..Len(Data) -> Int]
      <4>1. \A i \in 1..Len(Data) : i <= Len(o.bytes) => o.bytes[i] \in Int
        BY <1>5, <3>1, SMTT(60)
      <4>2. \A i \in 1..Len(Data) : buffer[i] \in Int
        BY <1>5
      <4> QED BY <1>3, <2>1, <4>1, <4>2, SMTT(60) DEF Junk
    <3> QED BY <1>5, <3>2, FunSeq, SMTT(30)
  <2>2. CASE ~(call.sys = "read" /\ memory)
    BY <1>3, <1>5, <2>2, Zenon
  <2> QED BY <2>1, <2>2, Zenon
<1>7. CASE o = Failed \/ (~memory /\ program \in {"open", "write"})
  <2>1. CASE ~memory /\ program \in {"open", "write"}
    BY <1>1, <1>2, <1>3, <1>6, <2>1, ZenonT(60)
  <2>2. CASE o = Failed /\ ~(~memory /\ program \in {"open", "write"})
    <3>1. o.result = -1 /\ o.file = file /\ o.position = position
      BY <2>2, Zenon DEF Failed
    <3>2. Result(call.sys, -1, call.len) = -1
      BY Zenon DEF Result
    <3>3. r0' = -1 /\ file' = file /\ position' = position
      BY <1>1, <1>3, <2>2, <3>1, <3>2, ZenonT(60)
    <3> QED BY <1>1, <1>2, <1>6, <3>3, Zenon
  <2> QED BY <1>7, <2>1, <2>2, Zenon
<1>8. CASE o # Failed /\ program = "open" /\ memory
  <2>1. o.result = 3 /\ o.file = <<>> /\ o.position = 0
    BY <1>4, <1>8, Zenon DEF Failed, Descriptor
  <2>2. Result("open", 3, call.len) = 4
    BY DEF Result
  <2>3. r0' = 4 /\ file' = <<>> /\ position' = 0
    BY <1>1, <1>3, <1>8, <2>1, <2>2, ZenonT(60)
  <2> QED BY <1>1, <1>2, <1>6, <1>8, <2>3, ZenonT(60)
<1>9. CASE o # Failed /\ program = "write" /\ memory
  <2>1. PICK n \in 1..call.len : o = [Failed EXCEPT !.result = n, !.file = file \o SubSeq(Rest, 1, n),
                                                      !.position = position + n]
    BY <1>4, <1>9, Zenon
  <2>2. o.result = n /\ o.file = file \o SubSeq(Rest, 1, n) /\ o.position = position + n /\ n # -1
    <3>1. o.result = n /\ o.file = file \o SubSeq(Rest, 1, n) /\ o.position = position + n
      BY <2>1, Zenon DEF Failed
    <3>2. n # -1
      OBVIOUS
    <3> QED BY <3>1, <3>2, Zenon
  <2> QED BY <1>1, <1>2, <1>3, <1>6, <1>9, <2>2, ZenonT(60) DEF Result
<1>10. CASE o # Failed /\ program = "read"
  <2>1. PICK n \in 0..call.len : /\ position + n <= Len(file)
                                /\ o = [Failed EXCEPT !.result = n, !.position = position + n,
                                            !.bytes = SubSeq(file, position + 1, position + n)]
    BY <1>4, <1>10, Zenon
  <2>2. /\ o.result = n /\ o.file = file /\ o.position = position + n /\ n # -1 /\ n \in Nat /\ position >= 0
        /\ o.bytes = SubSeq(file, position + 1, position + n)
    <3>1. /\ o.result = n /\ o.file = file /\ o.position = position + n
          /\ o.bytes = SubSeq(file, position + 1, position + n)
      BY <2>1, Zenon DEF Failed
    <3>2. n # -1 /\ n \in Nat
      OBVIOUS
    <3>3. position >= 0
      BY <1>4, <1>10, Zenon
    <3> QED BY <3>1, <3>2, <3>3, Zenon
  <2>3. CASE ~memory
    <3>1. position' = position + n /\ position + n \in Int
      BY <1>1, <1>3, <1>5, <1>10, <2>2, SMTT(60)
    <3> QED BY <1>1, <1>2, <1>3, <1>6, <1>10, <2>2, <2>3, <3>1, ZenonT(60)
  <2>4. CASE memory
    <3>1. r0' = call.len - n /\ file' = file /\ position' = position + n
      BY <1>1, <1>3, <1>10, <2>2, <2>4, ZenonT(60) DEF Result
    <3>2. Len(o.bytes) = n /\ \A i \in 1..n : o.bytes[i] = file[position + i]
      <4>1. position \in Nat /\ n \in Nat /\ position + n <= Len(file)
        BY <1>5, <2>1, <2>2, SMTT(60)
      <4>2. file \in Seq(Int)
        BY <1>5, Zenon
      <4>3. /\ Len(SubSeq(file, position + 1, position + n)) = n
            /\ \A i \in 1..n : SubSeq(file, position + 1, position + n)[i] = file[position + i]
        BY <4>1, <4>2, Slice, ZenonT(60)
      <4> QED BY <2>2, <4>3, Zenon
    <3>3. \A i \in 1..n : buffer'[i] = file[position + i]
      <4> SUFFICES ASSUME NEW i \in 1..n PROVE buffer'[i] = file[position + i]
        BY Zenon
      <4>1. i \in 1..Len(Data) /\ i <= Len(o.bytes)
        <5>1. call.len \in Nat /\ call.len <= Len(Data) /\ Len(Data) \in Nat
          BY <1>5, <1>10, Zenon
        <5> QED BY <3>2, <5>1, SMTT(60)
      <4>2. buffer'[i] = o.bytes[i]
        BY <1>1, <1>3, <1>10, <2>4, <4>1, ZenonT(60)
      <4> QED BY <3>2, <4>2, Zenon
    <3> QED BY <1>1, <1>2, <1>6, <1>10, <2>1, <2>2, <3>1, <3>3, ZenonT(60)
  <2> QED BY <2>3, <2>4, Zenon
<1>11. CASE o # Failed /\ program \in {"seek", "flen", "close"}
  <2>1. /\ r0' = Result(program, o.result, call.len) /\ file' = o.file /\ position' = o.position
    BY <1>1, <1>3, <1>11, Zenon
  <2>2. CASE program = "seek"
    BY <1>1, <1>2, <1>4, <1>6, <1>11, <2>1, <2>2, ZenonT(60) DEF Failed, Result
  <2>3. CASE program = "flen"
    <3>1. o.result = Len(file) /\ o.file = file /\ o.position = position /\ Len(file) # -1
      BY <1>4, <1>5, <1>11, <2>3, ZenonT(60) DEF Failed
    <3> QED BY <1>1, <1>2, <1>6, <2>1, <2>3, <3>1, ZenonT(60) DEF Result
  <2>4. CASE program = "close"
    BY <1>1, <1>2, <1>4, <1>6, <1>11, <2>1, <2>4, ZenonT(60) DEF Failed, Result
  <2> QED BY <1>11, <2>2, <2>3, <2>4, ZenonT(60)
<1> QED BY <1>1, <1>3, <1>7, <1>8, <1>9, <1>10, <1>11, ZenonT(60) DEF FileCalls

\* The hosted build performs the call.
LEMMA AnswerInv ==
    ASSUME HostedInv, build = "hosted", HostedRequest
    PROVE  HostedInv'
<1>0. Phase /\ WrittenInv /\ ReadInv /\ build' = build
  BY Zenon DEF HostedInv, HostedRequest
<1>1. CASE call.sys \in Misc
  <2>1. /\ r0' \in Int /\ UNCHANGED <<programVars, hostVars, buffer>>
        /\ call.state = "asked" /\ call' = [call EXCEPT !.state = "answered"]
    BY <1>1 DEF HostedRequest
  <2>2. call'.sys = call.sys /\ call'.state = "answered" /\ call.sys \notin {"read", "write"}
    <3>1. call'.sys = call.sys /\ call.sys \notin {"read", "write"}
      BY <1>1, <2>1 DEF Misc
    <3>2. call'.state = "answered"
      BY <1>0, <2>1 DEF Phase
    <3> QED BY <3>1, <3>2, Zenon
  <2> QED BY <1>1, <2>1, <2>2, OtherCalls, Zenon
<1>2. CASE call.sys \notin Misc
  <2>1. /\ call.sys = program /\ program \in FileCalls /\ UNCHANGED <<program, handle, done, size, got>>
        /\ call'.sys = program /\ call'.len = call.len /\ call'.state = "answered"
        /\ buffer' \in Seq(Int) /\ Len(buffer') = Len(Data)
    BY <1>2, Answers, Zenon DEF programVars
  <2>2. call.state = "asked"
    BY Zenon DEF HostedRequest
  <2>3. Transferred("write") = 0 /\ Transferred("read") = 0
    BY <2>2, NoTransfer, Zenon
  <2>4. /\ done \in Nat /\ done <= Len(Data) /\ file = SubSeq(Data, 1, done) /\ (size # -1 => size = Len(file))
        /\ Len(Data) \in Nat /\ Data \in Seq(Int)
    BY <1>0, <2>3, DataLength, SMTT(60) DEF WrittenInv
  <2>5. /\ got \in Seq(Int) /\ Len(got) \in Nat /\ Len(got) <= Len(Data) /\ position \in Int
        /\ \A i \in 1..Len(got) : got[i] = Data[i]
        /\ program = "read" => position = Len(got)
    BY <1>0, <2>2, <2>3, SMTT(60) DEF Phase, ReadInv
  <2>6. file \in Seq(Int) /\ Len(file) = done /\ \A i \in 1..done : file[i] = Data[i]
    BY <2>4
  <2>7. ASSUME r0' \in Int, position' \in Int PROVE Phase'
    BY <1>0, <2>1, <2>2, <2>7, Zenon DEF Phase
  <2>8. ASSUME file' = file, program # "write" \/ r0' = -1 PROVE WrittenInv'
    <3>1. Transferred("write")' = 0
      BY <2>1, <2>8, Zenon DEF Transferred
    <3> QED BY <2>1, <2>4, <2>8, <3>1, SMTT(60) DEF WrittenInv
  <2>9. ASSUME program # "read" \/ r0' = -1 PROVE ReadInv'
    <3>1. Transferred("read")' = 0
      BY <2>1, <2>9, Zenon DEF Transferred
    <3>2. program = "read" => call'.state = "answered" /\ call'.sys = "read" /\ r0' = -1
      BY <2>1, <2>9, Zenon
    <3> QED BY <2>1, <2>5, <3>1, <3>2, SMTT(60) DEF ReadInv
  <2>10. CASE r0' = -1 /\ file' = file /\ (position' = position \/ (program = "read" /\ position' \in Int))
    <3>1. position' \in Int
      BY <2>5, <2>10, Zenon
    <3> QED BY <1>0, <2>7, <2>8, <2>9, <2>10, <3>1, SMTT(60) DEF HostedInv, FlenInv, SeekInv
  <2>11. CASE program = "open" /\ r0' = 4 /\ file' = <<>> /\ position' = 0
    <3>1. done = 0
      BY <1>0, <2>11, Zenon DEF Phase
    <3>2. file' = file
      <4>1. SubSeq(Data, 1, 0) = <<>>
        BY <2>4
      <4> QED BY <2>4, <2>11, <3>1, <4>1, Zenon
    <3> QED BY <1>0, <2>1, <2>7, <2>8, <2>9, <2>11, <3>2, SMTT(60) DEF HostedInv, FlenInv, SeekInv
  <2>12. ASSUME program = "write", NEW n \in 1..call.len,
                r0' = call.len - n, file' = file \o SubSeq(Rest, 1, n), position' = position + n
         PROVE  HostedInv'
    <3>1. call.len = Len(Data) - done /\ size = -1
      BY <1>0, <2>1, <2>12, Zenon DEF Phase
    <3>2. n \in Nat /\ done + n <= Len(Data) /\ r0' \in Int /\ r0' # -1 /\ call.len - r0' = n /\ position' \in Int
      <4>1. done \in Nat /\ Len(Data) \in Nat /\ position \in Int
        BY <2>4, <2>5, Zenon
      <4>2. n \in 1..call.len /\ r0' = call.len - n /\ position' = position + n
        BY <2>12, Zenon
      <4> QED BY <3>1, <4>1, <4>2, SMTT(60)
    <3>3. Transferred("write")' = n
      BY <2>1, <2>12, <3>2, Zenon DEF Transferred
    <3>4. file' = SubSeq(Data, 1, done + n)
      BY <2>4, <2>12, <3>2, Joined, Zenon DEF Rest
    <3>5. WrittenInv'
      BY <2>1, <2>4, <3>1, <3>2, <3>3, <3>4, ZenonT(60) DEF WrittenInv
    <3> QED BY <1>0, <2>1, <2>7, <2>9, <2>12, <3>2, <3>5, ZenonT(60) DEF HostedInv, FlenInv, SeekInv
  <2>13. ASSUME program = "read", NEW n \in 0..call.len, file' = file, position + n <= Len(file),
                position' = position + n, r0' = call.len - n, \A i \in 1..n : buffer'[i] = file[position + i]
         PROVE  HostedInv'
    <3>1. call.len = Len(Data) - Len(got) /\ done = Len(Data)
      BY <1>0, <2>1, <2>13, Zenon DEF Phase
    <3>2. n \in Nat /\ Len(got) + n <= Len(Data) /\ r0' \in Int /\ r0' # -1 /\ call.len - r0' = n /\ position' \in Int
          /\ position = Len(got) /\ position' = Len(got) + n
      <4>1. position = Len(got) /\ Len(got) \in Nat /\ Len(Data) \in Nat /\ Len(got) <= Len(Data)
        BY <2>4, <2>5, <2>13, Zenon
      <4>2. n \in Nat /\ n <= call.len
        BY <3>1, <4>1
      <4> QED BY <2>13, <3>1, <4>1, <4>2, SMTT(60)
    <3>3. Transferred("read")' = n
      BY <2>1, <2>13, <3>2, Zenon DEF Transferred
    <3>4. \A i \in 1..n : buffer'[i] = Data[Len(got) + i]
      <4> SUFFICES ASSUME NEW i \in 1..n PROVE buffer'[i] = Data[Len(got) + i]
        BY Zenon
      <4>1. Len(got) + i \in 1..done
        <5>1. n \in Nat /\ Len(got) \in Nat /\ done \in Nat /\ Len(got) + n <= done
          BY <2>4, <2>5, <3>1, <3>2, Zenon
        <5>2. i \in 1..n
          BY Zenon
        <5> QED BY <5>1, <5>2
      <4> QED BY <2>6, <2>13, <3>2, <4>1, Zenon
    <3>5. ReadInv'
      BY <2>1, <2>5, <3>2, <3>3, <3>4, SMTT(60) DEF ReadInv
    <3> QED BY <1>0, <2>1, <2>7, <2>8, <2>13, <3>2, <3>5, ZenonT(60) DEF HostedInv, FlenInv, SeekInv
  <2>14. CASE program = "seek" /\ r0' = 0 /\ position' = 0 /\ file' = file
    BY <1>0, <2>1, <2>7, <2>8, <2>9, <2>14, SMTT(60) DEF HostedInv, FlenInv, SeekInv
  <2>15. CASE program = "flen" /\ r0' = Len(file) /\ position' = position /\ file' = file
    BY <1>0, <2>1, <2>5, <2>6, <2>4, <2>7, <2>8, <2>9, <2>15, SMTT(60) DEF HostedInv, FlenInv, SeekInv
  <2>16. CASE program = "close" /\ r0' = 0 /\ position' = -1 /\ file' = file
    BY <1>0, <2>1, <2>7, <2>8, <2>9, <2>16, SMTT(60) DEF HostedInv, FlenInv, SeekInv
  <2> QED BY <1>2, <2>10, <2>11, <2>12, <2>13, <2>14, <2>15, <2>16, Answers, ZenonT(60)
<1> QED BY <1>1, <1>2, Zenon

\* The program counts what the call has transferred.
LEMMA GoesOnInv ==
    ASSUME HostedInv, build = "hosted", ProgramGoesOn
    PROVE  HostedInv'
<1>0. Phase /\ WrittenInv /\ FlenInv /\ SeekInv /\ ReadInv
  BY Zenon DEF HostedInv
<1>1. /\ call.state = "answered" /\ call' = NoCall
      /\ UNCHANGED <<build, r0, buffer, file, position>>
  BY Zenon DEF ProgramGoesOn, hostVars
<1>2. call'.state = "none" /\ call'.sys = "none" /\ Transferred("write")' = 0 /\ Transferred("read")' = 0
  BY <1>1, Zenon DEF NoCall, Transferred
<1>3. FlenInv' /\ SeekInv'
  BY <1>2, Zenon DEF FlenInv, SeekInv
<1>4. call.sys \in Misc \cup ({program} \cap FileCalls)
  BY <1>0, <1>1, Zenon DEF Phase
<1>5. /\ r0 \in Int /\ position \in Int /\ got \in Seq(Int) /\ Len(got) \in Nat /\ buffer \in Seq(Int) /\ Len(buffer) = Len(Data)
      /\ done \in Nat /\ Len(Data) \in Nat /\ Data \in Seq(Int)
  BY <1>0, DataLength DEF Phase, WrittenInv
<1>6. CASE call.sys \in Misc
  <2>1. UNCHANGED <<program, handle, done, size, got>>
    BY <1>6, Zenon DEF ProgramGoesOn, programVars, Misc
  <2>2. Transferred("write") = 0 /\ Transferred("read") = 0
    BY <1>6, NoTransfer, Zenon DEF Misc
  <2>3. Phase'
    BY <1>0, <1>1, <1>2, <2>1, Zenon DEF Phase
  <2>4. WrittenInv'
    BY <1>0, <1>1, <1>2, <2>1, <2>2, ZenonT(60) DEF WrittenInv
  <2>5. ReadInv'
    BY <1>0, <1>1, <1>2, <1>6, <2>1, <2>2, ZenonT(60) DEF ReadInv, Misc
  <2> QED BY <1>3, <2>3, <2>4, <2>5, Zenon DEF HostedInv
<1>7. CASE call.sys \in FileCalls /\ call.sys = program /\ call.sys \notin {"write", "read"}
  <2>1. Transferred("write") = 0 /\ Transferred("read") = 0
    BY <1>7, NoTransfer, Zenon
  <2>2. /\ UNCHANGED <<done, got>>
        /\ \/ program = "open" /\ program' \in {"end", "write"} /\ size' = size
           \/ program = "flen" /\ program' = "seek" /\ size' = r0
           \/ program = "seek" /\ program' = (IF r0 = 0 THEN "read" ELSE "close") /\ size' = size
           \/ program = "close" /\ program' = "end" /\ size' = size
    BY <1>7, Zenon DEF ProgramGoesOn, FileCalls
  <2>3. Phase'
    BY <1>0, <1>1, <1>2, <2>2, Zenon DEF Phase, FileCalls
  <2>4. WrittenInv'
    BY <1>0, <1>1, <1>2, <1>7, <2>1, <2>2, ZenonT(60) DEF WrittenInv, FlenInv
  <2>5. ReadInv'
    <3>1. program' = "read" => position' = Len(got') + 0
      <4> SUFFICES ASSUME program' = "read" PROVE position = Len(got) + 0
        BY <1>1, <2>2, Zenon
      <4>1. program = "seek" /\ r0 = 0
        BY <2>2, Zenon
      <4>2. position = 0 /\ got = <<>>
        BY <1>0, <1>1, <1>7, <4>1, ZenonT(60) DEF SeekInv, Phase
      <4> QED BY <4>2
    <3> QED BY <1>0, <1>1, <1>2, <2>1, <2>2, <3>1, ZenonT(60) DEF ReadInv
  <2> QED BY <1>3, <2>3, <2>4, <2>5, Zenon DEF HostedInv
<1>8. CASE call.sys = "write" /\ program = "write"
  <2>1. /\ done' = IF r0 = -1 THEN done ELSE done + call.len - r0
        /\ program' = IF r0 = -1 THEN "close" ELSE IF done' = Len(Data) THEN "flen" ELSE "write"
        /\ UNCHANGED <<size, got>>
    BY <1>8, Zenon DEF ProgramGoesOn
  <2>2. call.len = Len(Data) - done /\ got = <<>> /\ size = -1
    BY <1>0, <1>8, Zenon DEF Phase
  <2>3. done' = done + Transferred("write")
    BY <1>1, <1>5, <1>8, <2>1, <2>2, SMTT(60) DEF Transferred
  <2>4. Transferred("read") = 0
    BY <1>8, NoTransfer, Zenon
  <2>5. Phase'
    BY <1>0, <1>1, <1>2, <2>1, <2>2, ZenonT(60) DEF Phase, FileCalls
  <2>6. WrittenInv'
    BY <1>0, <1>1, <1>2, <2>1, <2>2, <2>3, SMTT(60) DEF WrittenInv
  <2>7. ReadInv'
    BY <1>0, <1>1, <1>2, <2>1, <2>4, Zenon DEF ReadInv
  <2> QED BY <1>3, <2>5, <2>6, <2>7, Zenon DEF HostedInv
<1>9. CASE call.sys = "read" /\ program = "read"
  <2>1. /\ got' = IF r0 = -1 THEN got ELSE got \o SubSeq(buffer, 1, call.len - r0)
        /\ program' \in {"close", "read"} /\ (r0 = -1 => program' = "close")
        /\ UNCHANGED <<size, done>>
    BY <1>9, Zenon DEF ProgramGoesOn
  <2>2. call.len = Len(Data) - Len(got) /\ done = Len(Data) /\ Transferred("write") = 0
    BY <1>0, <1>9, NoTransfer, Zenon DEF Phase
  <2>3. PICK n : n = Transferred("read")
    BY Zenon
  <2>4. n = (IF r0 = -1 THEN 0 ELSE call.len - r0) /\ n \in Int
    BY <1>1, <1>5, <1>9, <2>2, <2>3, SMTT(60) DEF Transferred
  <2>5. /\ Len(got) + n <= Len(Data) /\ \A i \in 1..n : buffer[i] = Data[Len(got) + i]
        /\ \A i \in 1..Len(got) : got[i] = Data[i]
        /\ r0 # -1 => position = Len(got) + n
    BY <1>0, <1>9, <2>3, Zenon DEF ReadInv
  <2>6. n >= 0
    BY <1>0, <1>1, <1>9, <2>3, Zenon DEF ReadInv
  <2>7. got' \in Seq(Int) /\ Len(got') = Len(got) + n /\ \A i \in 1..(Len(got) + n) : got'[i] = Data[i]
    <3>1. CASE r0 = -1
      BY <1>5, <2>1, <2>4, <2>5, <3>1, SMTT(60)
    <3>2. CASE r0 # -1
      <4> DEFINE b == SubSeq(buffer, 1, n)
      <4>1. b \in Seq(Int) /\ Len(b) = n /\ \A i \in 1..n : b[i] = buffer[i]
        <5>1. n \in Nat /\ n <= Len(buffer)
          BY <1>5, <2>4, <2>5, <2>6, SMTT(60)
        <5> QED BY <1>5, <5>1
      <4>2. got' = got \o b
        BY <2>1, <2>4, <3>2, Zenon
      <4> HIDE DEF b
      <4>3. /\ got \o b \in Seq(Int) /\ Len(got \o b) = Len(got) + Len(b)
            /\ \A i \in 1..Len(got) : (got \o b)[i] = got[i]
            /\ \A i \in 1..Len(b) : (got \o b)[Len(got) + i] = b[i]
        <5>1. got \in Seq(Int)
          BY <1>5, Zenon
        <5>2. b \in Seq(Int)
          BY <4>1, Zenon
        <5> QED BY <5>1, <5>2, CatIs, SMTT(60)
      <4>4. ASSUME NEW i \in 1..(Len(got) + n) PROVE got'[i] = Data[i]
        <5>1. CASE i \in 1..Len(got)
          BY <2>5, <4>2, <4>3, <5>1, Zenon
        <5>2. CASE i \notin 1..Len(got)
          <6>1. PICK j \in 1..n : i = Len(got) + j
            <7>1. i - Len(got) \in 1..n /\ i = Len(got) + (i - Len(got))
              BY <1>5, <2>4, <2>6, <5>2, SMTT(60)
            <7> QED BY <7>1, Zenon
          <6> QED BY <2>5, <4>1, <4>2, <4>3, <6>1, Zenon
        <5> QED BY <5>1, <5>2, Zenon
      <4> QED BY <4>1, <4>2, <4>3, <4>4, Zenon
    <3> QED BY <3>1, <3>2, Zenon
  <2>8. Phase'
    BY <1>0, <1>1, <1>2, <1>9, <2>1, <2>7, ZenonT(60) DEF Phase, FileCalls
  <2>9. WrittenInv'
    BY <1>0, <1>1, <1>2, <2>1, <2>2, ZenonT(60) DEF WrittenInv
  <2>10. ReadInv'
    <3>1. program' = "read" => position = Len(got') + 0
      BY <1>5, <2>1, <2>4, <2>5, <2>7, SMTT(60)
    <3>2. Len(got') + 0 <= Len(Data)
      BY <1>5, <2>4, <2>5, <2>7, SMTT(60)
    <3> QED BY <1>1, <1>2, <2>7, <3>1, <3>2, SMTT(60) DEF ReadInv
  <2> QED BY <1>3, <2>8, <2>9, <2>10, Zenon DEF HostedInv
<1> QED BY <1>4, <1>6, <1>7, <1>8, <1>9, ZenonT(60)

\* cortexm_hostio_request leaves the memory operations as it found them; and with the
\* hosted build a program writes and reads what it counts as written and read.
THEOREM FilesKept == SemiSpec => []FilesExact
<1>1. SemiInit => SemiInv
  <2> SUFFICES ASSUME SemiInit PROVE SemiInv
    BY Zenon
  <2>1. PathInv
    BY Zenon DEF SemiInit, PathInv
  <2>2. /\ call = NoCall /\ program = "open" /\ r0 = 0 /\ position = -1 /\ done = 0 /\ size = -1 /\ got = <<>> /\ file = <<>>
        /\ buffer = [i \in 1..Len(Data) |-> -1]
    BY Zenon DEF SemiInit, Junk
  <2>3. Transferred("write") = 0 /\ Transferred("read") = 0 /\ call.state = "none" /\ call.sys = "none"
    BY <2>2, Zenon DEF Transferred, NoCall
  <2>4. buffer \in Seq(Int) /\ Len(buffer) = Len(Data)
    <3>1. buffer \in [1..Len(Data) -> Int]
      BY <2>2
    <3> QED BY <3>1, FunSeq, DataLength, Zenon
  <2>5. Phase
    BY <2>2, <2>3, <2>4, SMTT(60) DEF Phase, FileCalls
  <2>6. WrittenInv
    <3>1. SubSeq(Data, 1, 0) = <<>> /\ 0 <= Len(Data)
      BY DataLength
    <3> QED BY <2>2, <2>3, <3>1, SMTT(60) DEF WrittenInv
  <2>7. ReadInv
    <3>1. Len(got) = 0 /\ 0 <= Len(Data)
      BY <2>2, DataLength
    <3> QED BY <2>2, <2>3, <3>1, SMTT(60) DEF ReadInv
  <2>8. FlenInv /\ SeekInv
    BY <2>3, Zenon DEF FlenInv, SeekInv
  <2> QED BY <2>1, <2>5, <2>6, <2>7, <2>8, Zenon DEF SemiInv, HostedInv
<1>2. SemiInv /\ [SemiNext]_semiVars => SemiInv'
  <2> SUFFICES ASSUME SemiInv, [SemiNext]_semiVars PROVE SemiInv'
    BY Zenon
  <2>1. PathInv'
    BY PathStep, Zenon DEF SemiInv
  <2>2. build' = build
    BY Zenon DEF SemiNext, ProgramCalls, Trap, ProgramGoesOn, RequestFileIo, FileIoReply, FileIoMemory, Served,
           HostedRequest, OwnAnswer, GdbContinues, semiVars
  <2>3. ASSUME build = "hosted" PROVE HostedInv'
    <3>1. ~RequestFileIo /\ ~FileIoReply /\ ~FileIoMemory
      BY <2>3, Zenon DEF SemiInv, HostedInv, Phase, RequestFileIo, FileIoReply, FileIoMemory
    <3>2. CASE UNCHANGED semiVars
      <4>1. UNCHANGED <<build, program, handle, done, size, got, call, r0, buffer, file, position>>
        BY <3>2, Zenon DEF semiVars, programVars, hostVars
      <4> QED BY <4>1, Zenon DEF SemiInv, HostedInv, Phase, WrittenInv, FlenInv, SeekInv, ReadInv, Transferred
    <3> QED BY <2>3, <3>1, <3>2, CallsInv, AnswerInv, GoesOnInv, ZenonT(60) DEF SemiNext, SemiInv
  <2> QED BY <2>1, <2>2, <2>3, Zenon DEF SemiInv, HostedInv
<1>3. SemiInv => FilesExact
  <2> SUFFICES ASSUME SemiInv, call = NoCall
               PROVE  /\ mem_path = "target"
                      /\ build = "hosted" =>
                           /\ file = SubSeq(Data, 1, done)
                           /\ size # -1 => size = Len(file)
                           /\ got = SubSeq(Data, 1, Len(got))
    BY Zenon DEF FilesExact
  <2>1. call.state = "none" /\ Transferred("write") = 0 /\ Transferred("read") = 0
    BY Zenon DEF NoCall, Transferred
  <2>2. mem_path = "target"
    BY <2>1, Zenon DEF SemiInv, PathInv
  <2>3. ASSUME build = "hosted"
        PROVE  file = SubSeq(Data, 1, done) /\ (size # -1 => size = Len(file)) /\ got = SubSeq(Data, 1, Len(got))
    <3>1. Phase /\ WrittenInv /\ ReadInv
      BY <2>3, Zenon DEF SemiInv, HostedInv
    <3>2. file = SubSeq(Data, 1, done) /\ (size # -1 => size = Len(file))
      BY <2>1, <3>1, SMTT(60) DEF WrittenInv
    <3>3. got \in Seq(Int) /\ Len(got) \in Nat /\ Len(got) <= Len(Data) /\ \A i \in 1..Len(got) : got[i] = Data[i]
      BY <2>1, <3>1, SMTT(60) DEF Phase, ReadInv
    <3>4. /\ SubSeq(Data, 1, Len(got)) \in Seq(Int) /\ Len(SubSeq(Data, 1, Len(got))) = Len(got)
          /\ \A i \in 1..Len(got) : SubSeq(Data, 1, Len(got))[i] = Data[i]
      BY <3>3, DataLength, SMTT(60)
    <3>5. \A i \in 1..Len(got) : got[i] = SubSeq(Data, 1, Len(got))[i]
      BY <3>3, <3>4, Zenon
    <3>6. got = SubSeq(Data, 1, Len(got))
      BY <3>3, <3>4, <3>5, SameSeq, ZenonT(60)
    <3> QED BY <3>2, <3>6, Zenon
  <2> QED BY <2>2, <2>3, Zenon
<1> QED BY <1>1, <1>2, <1>3, PTL DEF SemiSpec
=============================================================================
