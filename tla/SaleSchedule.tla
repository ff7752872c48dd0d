---------------------------- MODULE SaleSchedule ----------------------------
(***************************************************************************)
(* What staff configure for the shop: the daily restocking schedule, and   *)
(* the names of the cards that are made for a plan (salecore.go,           *)
(* sale_card_schedule_store.go).  SaleRestock has what the scheduler does  *)
(* with them.                                                              *)
(*                                                                         *)
(* Operators only.  A time of day is the number of its minute, NoTime an   *)
(* empty text, any other number a text that is no time.                    *)
(***************************************************************************)
EXTENDS Lists, FiniteSetsExt

NoTime == -1
ValidTime(t) == t \in 0..1439

CONSTANTS
  Groups,      \* the slots of a day, a sequence of [group, time]
  Templates,   \* the plans, a function: plan -> its slot
  PlanOrder,   \* the plans in some order, as the map of templates is walked
  Zones        \* time zones the host knows

\* The slots have names of their own, and each plan is walked once.
ASSUME HostAssumption ==
  /\ Groups \in Seq([group : STRING, time : 0..1439])
  /\ \A i, j \in DOMAIN Groups : Groups[i].group = Groups[j].group => i = j
  /\ PlanOrder \in Seq(DOMAIN Templates) /\ DOMAIN Templates \subseteq STRING
  /\ \A i, j \in DOMAIN PlanOrder : PlanOrder[i] = PlanOrder[j] => i = j
  /\ "Asia/Shanghai" \in Zones

ZoneOr(zone) == IF zone = "" THEN "Asia/Shanghai" ELSE zone

Plans == DOMAIN Templates
PlanSlot(plan) == IF plan \in Plans THEN Templates[plan] ELSE ""

\* What staff may post.
Jobs == [plan : STRING, target : Int, enabled : BOOLEAN]
Slots == [group : STRING, time : Int, enabled : BOOLEAN, jobs : Seq(Jobs)]
Schedules == [enabled : BOOLEAN, zone : STRING, slots : Seq(Slots)]

MaxTarget == 2000
Refused(why) == [ok |-> FALSE, why |-> why]

(***************************************************************************)
(* The schedule: [enabled, zone, slots], a slot is [group, time, enabled,  *)
(* jobs] and a job [plan, target, enabled].                                *)
(***************************************************************************)

\* Seeded fault: a group nobody submitted gets the plans of every group.
DefaultJobs_OfAll(group) ==
  [i \in DOMAIN PlanOrder |-> [plan |-> PlanOrder[i], target |-> 0, enabled |-> FALSE]]

DefaultJobs(group) ==
  LET of == Picked(PlanOrder, {i \in DOMAIN PlanOrder : PlanSlot(PlanOrder[i]) = group})
  IN  [i \in DOMAIN of |-> [plan |-> of[i], target |-> 0, enabled |-> FALSE]]

DefaultSchedule ==
  [enabled |-> FALSE, zone |-> "Asia/Shanghai",
   slots |-> [i \in DOMAIN Groups |->
     [group |-> Groups[i].group, time |-> Groups[i].time, enabled |-> FALSE,
      jobs |-> DefaultJobs(Groups[i].group)]]]

\* Why the jobs of a group are refused, in the order of the checks; "" if they are not.
WhyNot(group, jobs, i) ==
  IF jobs[i].plan \notin Plans THEN "unknown plan"
  ELSE IF PlanSlot(jobs[i].plan) # group THEN "plan of another slot"
  ELSE IF \E k \in 1..(i - 1) : jobs[k].plan = jobs[i].plan THEN "plan twice"
  ELSE IF jobs[i].target \notin 0..MaxTarget THEN "target"
  ELSE ""

JobFault(group, jobs) ==
  LET bad == {i \in DOMAIN jobs : WhyNot(group, jobs, i) # ""}
  IN  IF bad = {} THEN "" ELSE WhyNot(group, jobs, Min(bad))

\* The last slot submitted under the group's name counts.
SlotFor(def, submitted) ==
  LET own == {i \in DOMAIN submitted : submitted[i].group = def.group}
      s   == submitted[Max(own)]
  IN  IF own = {} THEN [group |-> def.group, time |-> def.time, enabled |-> FALSE,
                        jobs |-> DefaultJobs(def.group)]
      ELSE [s EXCEPT !.time = IF @ = NoTime THEN def.time ELSE @]

\* The first fault of a slot: its jobs are looked at before its time.
SlotFault(slot) == LET why == JobFault(slot.group, slot.jobs)
                   IN  IF why = "" /\ ~ValidTime(slot.time) THEN "time" ELSE why

NormalizeSchedule(schedule) ==
  LET slots  == [i \in DOMAIN Groups |-> SlotFor(Groups[i], schedule.slots)]
      faults == {i \in DOMAIN slots : SlotFault(slots[i]) # ""}
      zone   == ZoneOr(schedule.zone)
  IN  IF faults # {} THEN Refused(SlotFault(slots[Min(faults)]))
      ELSE IF zone \notin Zones THEN Refused("zone")
      ELSE [ok |-> TRUE, schedule |->
                      [enabled |-> schedule.enabled, zone |-> zone, slots |-> slots]]

\* The schedule the scheduler works with: nothing is done while it cannot be read.
LoadSchedule(stored) == IF stored = <<>> THEN [ok |-> TRUE, schedule |-> DefaultSchedule]
                        ELSE NormalizeSchedule(stored[1])

\* The file after staff posted a schedule.
SaveSchedule(stored, posted) ==
  LET result == NormalizeSchedule(posted)
  IN  IF result.ok THEN <<result.schedule>> ELSE stored

\* The restock rows a pass at this minute adds: [group, plan, target].
DueJobs(stored, minute) ==
  LET loaded == LoadSchedule(stored)
      slots  == {s \in Range(loaded.schedule.slots) : s.enabled /\ s.time = minute}
  IN  IF ~loaded.ok \/ ~loaded.schedule.enabled THEN {}
      ELSE UNION {{[group |-> s.group, plan |-> job.plan, target |-> job.target] :
                     job \in {j \in Range(s.jobs) : j.enabled /\ j.target > 0}} : s \in slots}

(***************************************************************************)
(* Names of cards: [prefix, seq], the moment they were made between them.  *)
(* A slug is a sequence of letters and dashes, "_" stands for other signs. *)
(***************************************************************************)

MaxName == 30
StampLength == 15

TrimDashes(slug) ==
  LET kept == {i \in DOMAIN slug : slug[i] # "-"}
  IN  IF kept = {} THEN <<>> ELSE SubSeq(slug, Min(kept), Max(kept))

\* Runs of anything but letters become one dash.
Sanitize(slug) ==
  LET at == {i \in DOMAIN slug :
               slug[i] \notin {"-", "_"} \/ (i > 1 /\ slug[i - 1] \notin {"-", "_"})}
      dashed == [i \in DOMAIN slug |-> IF slug[i] = "_" THEN "-" ELSE slug[i]]
  IN  TrimDashes(Picked(dashed, at))

Truncate(slug, max) ==
  IF max <= 0 THEN <<>>
  ELSE LET trimmed == TrimDashes(slug)
       IN  TrimDashes(IF Len(trimmed) > max THEN SubSeq(trimmed, 1, max) ELSE trimmed)

SeqWidth(total) == IF total < 100 THEN 2 ELSE IF total < 1000 THEN 3 ELSE 4

\* Seeded fault: the sequence number is not counted when the slug is cut.
Room_WithoutSeq(total) == MaxName - StampLength - 1

\* Signs left for the slug.
Room(total) == IF total <= 1 THEN MaxName - StampLength - 1
               ELSE MaxName - StampLength - SeqWidth(total) - 2

BatchName(slug, index, total) ==
  LET clean  == Sanitize(slug)
      cut    == Truncate(IF clean = <<>> THEN <<"t", "o", "k", "e", "n">> ELSE clean,
                         Room(total))
      prefix == IF cut = <<>> THEN <<"s", "a", "l", "e">> ELSE cut
  IN  [prefix |-> prefix, seq |-> IF total <= 1 THEN 0 ELSE index + 1,
       length |-> Len(prefix) + 1 + StampLength + (IF total <= 1 THEN 0 ELSE 1 + SeqWidth(total))]

(***************************************************************************)
(* Properties                                                              *)
(***************************************************************************)

\* A schedule the panel accepted is read back as it was saved (a schedule that cannot be
\* read stops restocking without a word), the one shown at first is among them, and what
\* it makes due is within the limits.
SavedScheduleWorks(posted, minute) ==
  LET stored == SaveSchedule(<<>>, posted)
      loaded == LoadSchedule(stored)
  IN  /\ loaded.ok /\ NormalizeSchedule(DefaultSchedule).ok
      /\ stored # <<>> => loaded.schedule = stored[1]
      /\ \A job \in DueJobs(stored, minute) :
           /\ job.target \in 1..MaxTarget /\ PlanSlot(job.plan) = job.group
           /\ \A other \in DueJobs(stored, minute) : other.plan = job.plan => other = job

\* The names of a batch fit the upstream's limit and differ from each other, whatever
\* the plan's slug looks like.
BatchNamesFit(slug, total) ==
  /\ \A i \in 0..(total - 1) : BatchName(slug, i, total).length <= MaxName
  /\ \A i, j \in 0..(total - 1) :
       BatchName(slug, i, total) = BatchName(slug, j, total) => i = j
=============================================================================
