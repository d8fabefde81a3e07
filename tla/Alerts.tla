------------------------------- MODULE Alerts -------------------------------
(***************************************************************************)
(* The alert manager (backend/server/alert.go): rules added and deleted    *)
(* through REST, Check for every point that is written, cooldowns and the  *)
(* history of triggers, and alerts.json, which is truncated and rewritten  *)
(* in place at every change, loaded at start-up and replaced by default    *)
(* rules when it holds none.                                               *)
(*                                                                         *)
(* A rule's operator and threshold are the set of values that breach it.   *)
(* am.mu is held from a change of the rules to the end of its save; every  *)
(* other section under it is one step.  The callback that Check starts for each  *)
(* trigger takes no lock of the manager: it is an alert of Broker.         *)
(***************************************************************************)
EXTENDS Integers, SequencesExt

CONSTANTS
  Series,
  Values,
  Conditions,  \* the sets of values that a rule can watch for
  Defaults,    \* Seq of [series, cond]: the rules of a manager that has none
  IdMod,       \* 100000, of the ids of rules and triggers
  Cooldown,    \* 5 seconds
  MaxHistory,  \* 100 triggers
  Faults,      \* what may fail: see FaultKinds
  MaxTime,     \* bound: seconds
  MaxFired     \* bound: triggers of a process

\* open: alerts.json cannot be opened for writing; write: it is truncated and
\* not written; read: it cannot be read at start-up.
FaultKinds == {"open", "write", "read"}

Ids  == 0..(IdMod - 1)
Rule == [id : Ids, series : Series, cond : Conditions]
Trigger == [rule : Ids, val : Values, time : 0..MaxTime, num : 1..MaxFired]

ASSUME AlertsAssumption ==
  /\ \A cond \in Conditions : cond \subseteq Values
  /\ Defaults \in Seq([series : Series, cond : Conditions]) /\ Defaults # <<>>
  /\ IdMod \in Nat \ {0} /\ Cooldown \in Nat /\ MaxHistory \in Nat \ {0}
  /\ Faults \subseteq FaultKinds
  /\ MaxTime \in Nat /\ MaxFired \in Nat

VARIABLES
  file,      \* SUBSET Rule, or noFile when alerts.json is missing or cut off
  rules,     \* SUBSET Rule: am.rules, by id
  nextID,    \* am.nextID modulo IdMod
  cooldown,  \* [Ids -> time]: am.cooldown
  triggers,  \* Seq(Trigger): am.triggers, the newest first
  saving,    \* saveRulesLocked, under am.mu: "no", "opening" or "writing"
  seeds,     \* the default rules that NewAlertManager has yet to add
  clock,     \* time.Now().Unix()
  \* history
  failed,    \* the last save of this process failed
  fired      \* Seq(Trigger): the triggers of this process

vars == <<file, rules, nextID, cooldown, triggers, saving, seeds,
          clock, failed, fired>>

noFile == {[id |-> -1]}
never  == -Cooldown

Init ==
  /\ file = noFile /\ rules = {}
  /\ nextID \in Ids
  /\ cooldown = [i \in Ids |-> never]
  /\ triggers = <<>> /\ saving = "no" /\ seeds = Defaults
  /\ clock = 0 /\ failed = FALSE /\ fired = <<>>

MuFree == saving = "no"
-----------------------------------------------------------------------------
(* Changes of the rules *)

\* Mutant: the ids of rules are not taken modulo IdMod.
Insert_NoMod(s, cond) ==
  /\ nextID' = nextID + 1
  /\ rules' = {r \in rules : r.id # nextID + 1}
                \cup {[id |-> nextID + 1, series |-> s, cond |-> cond]}
  /\ saving' = "opening"
  /\ UNCHANGED <<file, cooldown, triggers, clock, failed, fired>>

\* A new rule takes the next id, and the place of a rule that has it.
Insert(s, cond) ==
  LET id == (nextID + 1) % IdMod
  IN /\ nextID' = id
     /\ rules' = {r \in rules : r.id # id}
                   \cup {[id |-> id, series |-> s, cond |-> cond]}
     /\ saving' = "opening"
     /\ UNCHANGED <<file, cooldown, triggers, clock, failed, fired>>

AddRule(s, cond) == seeds = <<>> /\ MuFree /\ Insert(s, cond) /\ UNCHANGED seeds

\* NewAlertManager with no rule loaded.
SeedRule ==
  /\ seeds # <<>> /\ MuFree
  /\ Insert(Head(seeds).series, Head(seeds).cond)
  /\ seeds' = Tail(seeds)

\* Mutant: the rules are not saved.
DeleteRule_NotSaved(r) ==
  /\ seeds = <<>> /\ MuFree
  /\ rules' = rules \ {r}
  /\ UNCHANGED <<file, nextID, cooldown, triggers, saving, seeds, clock,
                 failed, fired>>

\* Mutant: the rule's cooldown is deleted with it.
DeleteRule_ForgetsCooldown(r) ==
  /\ seeds = <<>> /\ MuFree
  /\ rules' = rules \ {r}
  /\ cooldown' = [cooldown EXCEPT ![r.id] = never]
  /\ saving' = "opening"
  /\ UNCHANGED <<file, nextID, triggers, seeds, clock, failed, fired>>

\* The rule's cooldown stays.
DeleteRule(r) ==
  /\ seeds = <<>> /\ MuFree
  /\ rules' = rules \ {r}
  /\ saving' = "opening"
  /\ UNCHANGED <<file, nextID, cooldown, triggers, seeds, clock, failed, fired>>

\* saveRulesLocked: os.WriteFile opens and truncates alerts.json, ...
OpenFile ==
  /\ saving = "opening"
  /\ \/ file' = noFile /\ saving' = "writing" /\ UNCHANGED failed
     \/ "open" \in Faults /\ saving' = "no" /\ failed' = TRUE /\ UNCHANGED file
  /\ UNCHANGED <<rules, nextID, cooldown, triggers, seeds, clock, fired>>

\* ... and writes it.  Both callers ignore an error.
WriteFile ==
  /\ saving = "writing"
  /\ saving' = "no"
  /\ \/ file' = rules /\ failed' = FALSE
     \/ "write" \in Faults /\ failed' = TRUE /\ UNCHANGED file
  /\ UNCHANGED <<rules, nextID, cooldown, triggers, seeds, clock, fired>>
-----------------------------------------------------------------------------
(* Check *)

\* "keep max 100"
Recent(trigs) == SubSeq(trigs, 1, IF Len(trigs) > MaxHistory THEN MaxHistory ELSE Len(trigs))

\* The rules that a point triggers: no more than once per Cooldown each.
Breached(s, val) ==
  {r \in rules : r.series = s /\ val \in r.cond /\ clock - cooldown[r.id] >= Cooldown}

\* One point: its rules trigger in the order of a walk over a map.
Check(s, val) == \E order \in SetToSeqs(Breached(s, val)) :
  LET n     == Len(order)
      trigs == [i \in 1..n |-> [rule |-> order[i].id, val |-> val, time |-> clock,
                                num |-> Len(fired) + i]]
  IN /\ seeds = <<>> /\ MuFree
     /\ n > 0 /\ Len(fired) + n <= MaxFired
     /\ cooldown' = [i \in Ids |-> IF \E k \in 1..n : order[k].id = i THEN clock ELSE cooldown[i]]
     /\ nextID' = (nextID + n) % IdMod
     /\ triggers' = Recent(Reverse(trigs) \o triggers)
     /\ fired' = fired \o trigs
     /\ UNCHANGED <<file, rules, saving, seeds, clock, failed>>

Tick ==
  /\ clock < MaxTime /\ clock' = clock + 1
  /\ UNCHANGED <<file, rules, nextID, cooldown, triggers, saving, seeds, failed, fired>>
-----------------------------------------------------------------------------
(* The process ends, at any step, and the next one starts. *)

\* The default rules a new manager has to add.
MissingDefaults(loaded) == IF loaded = {} THEN Defaults ELSE <<>>

\* loadRules: no rules if alerts.json is missing, cut off or cannot be read.
loadRules ==
  \/ rules' = IF file = noFile THEN {} ELSE file
  \/ "read" \in Faults /\ rules' = {}

Restart ==
  /\ loadRules
  /\ seeds' = MissingDefaults(rules')
  /\ nextID' \in Ids
  /\ cooldown' = [i \in Ids |-> never]
  /\ triggers' = <<>> /\ fired' = <<>>
  /\ saving' = "no" /\ failed' = FALSE
  /\ UNCHANGED <<file, clock>>
-----------------------------------------------------------------------------
Next ==
  \/ \E s \in Series, cond \in Conditions : AddRule(s, cond)
  \/ SeedRule
  \/ \E r \in rules : DeleteRule(r)
  \/ OpenFile
  \/ WriteFile
  \/ \E s \in Series, val \in Values : Check(s, val)
  \/ Tick
  \/ Restart

Spec == Init /\ [][Next]_vars
-----------------------------------------------------------------------------
\* Types; an id names one rule.
TypeOK ==
  /\ file = noFile \/ file \subseteq Rule
  /\ rules \subseteq Rule /\ \A p, q \in rules : p.id = q.id => p = q
  /\ nextID \in Ids
  /\ cooldown \in [Ids -> {never} \cup 0..MaxTime]
  /\ triggers \in Seq(Trigger) /\ Len(triggers) <= MaxHistory /\ fired \in Seq(Trigger)
  /\ saving \in {"no", "opening", "writing"}
  /\ IsSuffix(seeds, Defaults)
  /\ clock \in 0..MaxTime /\ failed \in BOOLEAN

\* alert.go:5, "persists rules": a process that ends while no rule is being saved
\* leaves the rules it has, unless its last save failed; however the rules came
\* to be, from a file, as defaults over a file that was lost, or from clients.
RulesOnDisk == seeds = <<>> /\ MuFree /\ ~failed => file = rules

\* alert.go:150, "Cooldown of 5s per rule": within a process, two triggers under
\* one id are that far apart, though the rule be deleted and its id used again.
CooldownHolds ==
  \A i, j \in DOMAIN fired :
    i < j /\ fired[i].rule = fired[j].rule => fired[j].time - fired[i].time >= Cooldown
=============================================================================
