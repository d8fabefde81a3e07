---------------------------- MODULE AlertsProofs ----------------------------
(***************************************************************************)
(* alerts.json holds the rules, an id keeps its cooldown, and the history  *)
(* holds the newest triggers: for any series, conditions, defaults and     *)
(* failures, any modulus of the ids and any cooldown.                      *)
(***************************************************************************)
EXTENDS Alerts, FiniteSetTheorems, TLAPS

\* Outside a save that failed, the file is the rules.  This is RulesOnDisk with
\* the range of saving; a restart that seeds nothing has read the whole file.
DiskInv ==
  /\ saving \in {"no", "opening", "writing"}
  /\ RulesOnDisk

\* A manager starts with the rules of its file, if there are any.
LEMMA InitDiskInv == Init => DiskInv
  BY AlertsAssumption DEF Init, DiskInv, RulesOnDisk, MuFree

\* A save writes the rules there are, and no rule comes or goes meanwhile.
LEMMA NextDiskInv ==
  ASSUME DiskInv, [Next]_vars
  PROVE  DiskInv'
  <1> USE DEF DiskInv, RulesOnDisk, MuFree
  <1>1. ASSUME NEW s \in Series, NEW cond \in Conditions, AddRule(s, cond)
        PROVE  DiskInv'
    BY <1>1 DEF AddRule, Insert
  <1>2. CASE SeedRule
    BY <1>2 DEF SeedRule, Insert
  <1>3. ASSUME NEW r \in rules, DeleteRule(r)
        PROVE  DiskInv'
    BY <1>3 DEF DeleteRule
  <1>4. CASE OpenFile
    BY <1>4 DEF OpenFile
  <1>5. CASE WriteFile
    BY <1>5 DEF WriteFile
  <1>6. ASSUME NEW s \in Series, NEW val \in Values, Check(s, val)
        PROVE  DiskInv'
    BY <1>6 DEF Check
  <1>7. CASE Tick
    BY <1>7 DEF Tick
  <1>8. CASE Restart
    <2>1. saving' = "no" /\ file' = file /\ loadRules /\ seeds' = MissingDefaults(rules')
      BY <1>8 DEF Restart
    <2>2. seeds' = <<>> => rules' # {}
      BY <2>1, AlertsAssumption DEF MissingDefaults
    <2>3. rules' # {} => rules' = file
      BY <2>1 DEF loadRules
    <2> QED BY <2>1, <2>2, <2>3
  <1>9. CASE UNCHANGED vars
    BY <1>9 DEF vars
  <1> QED BY <1>1, <1>2, <1>3, <1>4, <1>5, <1>6, <1>7, <1>8, <1>9 DEF Next

\* A process that ends between two changes leaves the rules it has, whatever
\* failed before its last save: alert.go, AddRule, DeleteRule, NewAlertManager.
THEOREM RulesPersist == Spec => []RulesOnDisk
  <1>1. DiskInv => RulesOnDisk
    BY DEF DiskInv
  <1> QED BY InitDiskInv, NextDiskInv, <1>1, PTL DEF Spec
-----------------------------------------------------------------------------
\* A finite set of rules of which every id names one.
Named(S) ==
  /\ IsFiniteSet(S)
  /\ \A r \in S : r.id \in Ids
  /\ \A p, q \in S : p.id = q.id => p = q

\* The cooldown of an id is as late as its triggers.
TriggerInv ==
  /\ fired \in Seq([rule : Ids, time : Int, val : Values, num : Nat])
  /\ \A i \in DOMAIN fired : fired[i].time <= cooldown[fired[i].rule]

CooldownInv ==
  /\ nextID \in Ids /\ clock \in Nat
  /\ cooldown \in [Ids -> Int]
  /\ Named(rules) /\ (file # noFile => Named(file))
  /\ TriggerInv
  /\ CooldownHolds

\* At the start nothing has triggered.
LEMMA InitCooldownInv == Init => CooldownInv
  <1> SUFFICES ASSUME Init PROVE CooldownInv
    OBVIOUS
  <1>1. Named({})
    BY FS_EmptySet DEF Named
  <1>2. never \in Int
    BY AlertsAssumption DEF never
  <1> QED BY <1>1, <1>2 DEF Init, CooldownInv, TriggerInv, CooldownHolds

\* A new rule takes the place of one with its id: ids stay names.
LEMMA InsertNamed ==
  ASSUME Named(rules), nextID \in Ids, NEW s, NEW cond, Insert(s, cond)
  PROVE  Named(rules') /\ nextID' \in Ids
  <1> DEFINE id  == (nextID + 1) % IdMod
             new == [id |-> id, series |-> s, cond |-> cond]
             old == {r \in rules : r.id # id}
  <1>1. id \in Ids
    BY AlertsAssumption DEF Ids
  <1>2. rules' = old \cup {new} /\ nextID' = id
    BY DEF Insert
  <1>3. IsFiniteSet(old \cup {new})
    BY FS_Subset, FS_AddElement DEF Named
  <1>4. new.id = id
    OBVIOUS
  <1> QED BY <1>1, <1>2, <1>3, <1>4 DEF Named

\* An order in which Check walks the rules that a point breaches.
LEMMA OrderOfBreached ==
  ASSUME Named(rules), NEW s, NEW val, NEW order \in SetToSeqs(Breached(s, val))
  PROVE  /\ Len(order) \in Nat /\ DOMAIN order = 1..Len(order)
         /\ \A k \in 1..Len(order) :
              /\ order[k] \in rules /\ order[k].id \in Ids
              /\ clock - cooldown[order[k].id] >= Cooldown
         /\ \A j, k \in 1..Len(order) : j # k => order[j].id # order[k].id
  <1> DEFINE B == Breached(s, val)
             n == Cardinality(B)
  <1>1. B \subseteq rules /\ \A r \in B : clock - cooldown[r.id] >= Cooldown
    BY DEF Breached
  <1>2. n \in Nat
    BY <1>1, FS_Subset, FS_CardinalityType DEF Named
  <1>3. order \in [1..n -> B] /\ \A i, j \in 1..n : i # j => order[i] # order[j]
    BY DEF SetToSeqs
  <1> HIDE DEF B, n
  <1>4. Len(order) = n /\ DOMAIN order = 1..n
    BY <1>2, <1>3
  <1>5. \A k \in 1..n : order[k] \in B
    BY <1>3
  <1> QED BY <1>1, <1>2, <1>3, <1>4, <1>5 DEF Named

\* The triggers of one point come after the others, under ids whose cooldown was
\* over, and start it again.
LEMMA CheckCooldownInv ==
  ASSUME CooldownInv, NEW s \in Series, NEW val \in Values, Check(s, val)
  PROVE  CooldownInv'
  <1>1. PICK order \in SetToSeqs(Breached(s, val)) :
          LET n     == Len(order)
              trigs == [i \in 1..n |-> [rule |-> order[i].id, val |-> val, time |-> clock,
                                        num |-> Len(fired) + i]]
          IN /\ cooldown' = [i \in Ids |-> IF \E k \in 1..n : order[k].id = i
                                           THEN clock ELSE cooldown[i]]
             /\ nextID' = (nextID + n) % IdMod
             /\ fired' = fired \o trigs
             /\ UNCHANGED <<file, rules, clock>>
    BY DEF Check
  <1> DEFINE n     == Len(order)
             trigs == [i \in 1..n |-> [rule |-> order[i].id, val |-> val, time |-> clock,
                                       num |-> Len(fired) + i]]
             T     == [rule : Ids, time : Int, val : Values, num : Nat]
             m     == Len(fired)
  <1>2. /\ n \in Nat
        /\ \A k \in 1..n : order[k].id \in Ids /\ clock - cooldown[order[k].id] >= Cooldown
        /\ \A j, k \in 1..n : j # k => order[j].id # order[k].id
    BY OrderOfBreached DEF CooldownInv
  <1>3. fired \in Seq(T) /\ m \in Nat
    BY DEF CooldownInv, TriggerInv
  <1>4. trigs \in Seq(T) /\ Len(trigs) = n
    <2>1. \A i \in 1..n : trigs[i] \in T
      BY <1>2, <1>3 DEF CooldownInv
    <2> QED BY <2>1, <1>2
  <1>5. fired' \in Seq(T) /\ Len(fired') = m + n
    BY <1>1, <1>3, <1>4
  <1>6. /\ \A i \in 1..m : fired'[i] = fired[i]
        /\ \A i \in (m + 1)..(m + n) : i - m \in 1..n /\ fired'[i] = trigs[i - m]
    BY <1>1, <1>2, <1>3, <1>4
  <1>7. \A i \in (m + 1)..(m + n) :
          fired'[i].rule = order[i - m].id /\ fired'[i].time = clock
    <2> SUFFICES ASSUME NEW i \in (m + 1)..(m + n)
                 PROVE  fired'[i].rule = order[i - m].id /\ fired'[i].time = clock
      OBVIOUS
    <2>1. trigs[i - m] = [rule |-> order[i - m].id, val |-> val, time |-> clock,
                          num |-> Len(fired) + (i - m)]
      BY <1>6
    <2>2. fired'[i] = trigs[i - m]
      BY <1>6
    <2> HIDE DEF trigs, n, m, T
    <2>3. fired'[i] = [rule |-> order[i - m].id, val |-> val, time |-> clock,
                       num |-> Len(fired) + (i - m)]
      BY <2>1, <2>2
    <2> QED BY <2>3
  <1>8. \A i \in 1..m : /\ fired[i].rule \in Ids /\ fired[i].time \in Int
                        /\ fired[i].time <= cooldown[fired[i].rule]
    <2>1. \A t \in T : t.rule \in Ids /\ t.time \in Int
      OBVIOUS
    <2> HIDE DEF T
    <2>2. \A i \in 1..m : fired[i] \in T
      BY <1>3
    <2>3. \A i \in 1..m : fired[i].time <= cooldown[fired[i].rule]
      BY <1>3 DEF CooldownInv, TriggerInv
    <2> QED BY <2>1, <2>2, <2>3
  <1>9. nextID' \in Ids
    BY <1>1, <1>2, AlertsAssumption DEF Ids, CooldownInv
  <1>10. cooldown' \in [Ids -> Int]
    BY <1>1 DEF CooldownInv
  <1>11. \A i \in Ids : (\E k \in 1..n : order[k].id = i) => cooldown'[i] = clock
    BY <1>1
  <1>12. \A i \in Ids : ~(\E k \in 1..n : order[k].id = i) => cooldown'[i] = cooldown[i]
    BY <1>1
  <1> HIDE DEF n, trigs, m, T
  <1>13. \A i \in 1..(m + n) : fired'[i].time <= cooldown'[fired'[i].rule]
    <2>1. ASSUME NEW i \in 1..m
          PROVE  fired[i].time <= cooldown'[fired[i].rule]
      <3>1. CASE \E k \in 1..n : order[k].id = fired[i].rule
        <4>1. /\ cooldown'[fired[i].rule] = clock
              /\ clock - cooldown[fired[i].rule] >= Cooldown
          BY <3>1, <1>2, <1>8, <1>11
        <4>2. cooldown[fired[i].rule] \in Int /\ clock \in Int /\ Cooldown \in Nat
          BY <1>8, AlertsAssumption DEF CooldownInv
        <4> QED BY <4>1, <4>2, <1>8
      <3>2. CASE ~\E k \in 1..n : order[k].id = fired[i].rule
        BY <3>2, <1>8, <1>12
      <3> QED BY <3>1, <3>2
    <2>2. ASSUME NEW i \in (m + 1)..(m + n)
          PROVE  fired'[i].time <= cooldown'[fired'[i].rule]
      BY <1>2, <1>6, <1>7, <1>11 DEF CooldownInv
    <2> QED BY <2>1, <2>2, <1>2, <1>3, <1>6
  <1>14. CooldownHolds'
    <2> SUFFICES ASSUME NEW i \in 1..(m + n), NEW j \in 1..(m + n),
                        i < j, fired'[i].rule = fired'[j].rule
                 PROVE  fired'[j].time - fired'[i].time >= Cooldown
      BY <1>5, <1>2, <1>3 DEF CooldownHolds
    <2>1. CASE j \in 1..m
      BY <2>1, <1>3, <1>6 DEF CooldownInv, CooldownHolds, m
    <2>2. CASE i \in 1..m /\ j \in (m + 1)..(m + n)
      <3>1. fired[i].rule = order[j - m].id /\ j - m \in 1..n /\ fired'[j].time = clock
        BY <2>2, <1>6, <1>7
      <3>2. /\ fired[i].time <= cooldown[order[j - m].id]
            /\ clock - cooldown[order[j - m].id] >= Cooldown
            /\ cooldown[order[j - m].id] \in Int /\ fired[i].time \in Int
        BY <3>1, <2>2, <1>2, <1>8 DEF CooldownInv
      <3> QED BY <3>1, <3>2, <2>2, <1>6, AlertsAssumption DEF CooldownInv
    <2>3. CASE i \in (m + 1)..(m + n) /\ j \in (m + 1)..(m + n)
      <3>1. i - m \in 1..n /\ j - m \in 1..n /\ i - m # j - m
        BY <2>3, <1>6, <1>3
      <3> QED BY <3>1, <2>3, <1>2, <1>7
    <2> QED BY <2>1, <2>2, <2>3, <1>2, <1>3
  <1>15. TriggerInv'
    BY <1>2, <1>3, <1>5, <1>13 DEF TriggerInv, T
  <1>16. Named(rules)' /\ (file # noFile => Named(file))' /\ (clock \in Nat)'
    BY <1>1 DEF CooldownInv, Named, noFile
  <1> QED BY <1>9, <1>10, <1>14, <1>15, <1>16 DEF CooldownInv

\* A restart: no trigger, no cooldown, and the rules of the file or none.
LEMMA RestartCooldownInv ==
  ASSUME CooldownInv, Restart
  PROVE  CooldownInv'
  <1>1. Named({})
    BY FS_EmptySet DEF Named
  <1>2. Named(rules')
    BY <1>1 DEF CooldownInv, Restart, loadRules
  <1>3. /\ nextID' \in Ids /\ (clock \in Nat)' /\ cooldown' \in [Ids -> Int]
        /\ (file # noFile => Named(file))'
    BY AlertsAssumption DEF CooldownInv, Restart, never, Named, noFile
  <1>4. TriggerInv' /\ CooldownHolds'
    BY DEF Restart, TriggerInv, CooldownHolds
  <1> QED BY <1>2, <1>3, <1>4 DEF CooldownInv, Named

\* Triggers set the cooldown of their id, and nothing puts it back.
LEMMA NextCooldownInv ==
  ASSUME CooldownInv, [Next]_vars
  PROVE  CooldownInv'
  <1> DEFINE Frame == UNCHANGED <<file, cooldown, fired, clock>>
  <1>1. ASSUME Frame, Named(rules'), nextID' \in Ids
        PROVE  CooldownInv'
    BY <1>1 DEF CooldownInv, TriggerInv, CooldownHolds, Named, noFile
  <1>2. ASSUME NEW s, NEW cond, Insert(s, cond)
        PROVE  CooldownInv'
    <2>1. Frame
      BY <1>2 DEF Insert
    <2>2. Named(rules') /\ nextID' \in Ids
      BY <1>2, InsertNamed DEF CooldownInv
    <2> QED BY <1>1, <2>1, <2>2
  <1>3. ASSUME NEW s \in Series, NEW cond \in Conditions, AddRule(s, cond)
        PROVE  CooldownInv'
    BY <1>3, <1>2 DEF AddRule
  <1>4. CASE SeedRule
    BY <1>4, <1>2 DEF SeedRule
  <1>5. ASSUME NEW r \in rules, DeleteRule(r)
        PROVE  CooldownInv'
    <2>1. Frame /\ rules' = rules \ {r} /\ nextID' = nextID
      BY <1>5 DEF DeleteRule
    <2>2. IsFiniteSet(rules')
      BY <2>1, FS_Subset DEF CooldownInv, Named
    <2>3. Named(rules')
      BY <2>1, <2>2 DEF CooldownInv, Named
    <2> QED BY <1>1, <2>1, <2>3 DEF CooldownInv
  <1>6. ASSUME NEW s \in Series, NEW val \in Values, Check(s, val)
        PROVE  CooldownInv'
    BY <1>6, CheckCooldownInv
  <1>7. CASE Tick
    <2>1. clock' \in Nat
      BY <1>7 DEF Tick, CooldownInv
    <2> QED BY <1>7, <2>1 DEF Tick, CooldownInv, TriggerInv, CooldownHolds, Named, noFile
  <1>8. CASE OpenFile
    <2>1. \/ file' = noFile
          \/ file' = file
      BY <1>8 DEF OpenFile
    <2> QED BY <1>8, <2>1 DEF OpenFile, CooldownInv, TriggerInv, CooldownHolds, Named, noFile
  <1>9. CASE WriteFile
    <2>1. file' = rules \/ file' = file
      BY <1>9 DEF WriteFile
    <2>2. (file # noFile => Named(file))'
      BY <2>1 DEF CooldownInv, Named, noFile
    <2> QED BY <1>9, <2>2 DEF WriteFile, CooldownInv, TriggerInv, CooldownHolds, Named, noFile
  <1>10. CASE Restart
    BY <1>10, RestartCooldownInv
  <1>11. CASE UNCHANGED vars
    BY <1>11 DEF vars, CooldownInv, TriggerInv, CooldownHolds, Named, noFile
  <1> QED BY <1>3, <1>4, <1>5, <1>6, <1>7, <1>8, <1>9, <1>10, <1>11 DEF Next

\* alert.go, Check: within a process two triggers under one id are a cooldown
\* apart, however rules come, go and get an id that was used before.
THEOREM CooldownKept == Spec => []CooldownHolds
  <1>1. CooldownInv => CooldownHolds
    BY DEF CooldownInv
  <1> QED BY InitCooldownInv, NextCooldownInv, <1>1, PTL DEF Spec
-----------------------------------------------------------------------------
(* Types *)

\* The defaults that are left are rules to add.
Seed == [series : Series, cond : Conditions]

SeedsInv == seeds \in Seq(Seed) /\ IsSuffix(seeds, Defaults)

\* A sequence backwards.
LEMMA ReverseType ==
  ASSUME NEW S, NEW seq \in Seq(S)
  PROVE  Reverse(seq) \in Seq(S) /\ Len(Reverse(seq)) = Len(seq)
  <1>1. \A i \in 1..Len(seq) : seq[(Len(seq) - i) + 1] \in S
    OBVIOUS
  <1>2. Len(seq) \in Nat /\ Reverse(seq) \in [1..Len(seq) -> S]
    BY <1>1 DEF Reverse
  <1> QED BY <1>2

\* What is left of the defaults is a suffix of them.
LEMMA SuffixLaws ==
  ASSUME NEW S, NEW seq \in Seq(S)
  PROVE  /\ IsSuffix(seq, seq) /\ IsSuffix(<<>>, seq)
         /\ \A tail \in Seq(S) : tail # <<>> /\ IsSuffix(tail, seq) => IsSuffix(Tail(tail), seq)
  <1>1. \A q \in Seq(S) : Reverse(q) \in Seq(S) /\ Len(Reverse(q)) = Len(q)
    <2> TAKE q \in Seq(S)
    <2> QED BY ReverseType
  <1>2. IsSuffix(seq, seq)
    <2>1. Len(Reverse(seq)) \in Nat
      BY <1>1
    <2> QED BY <2>1 DEF IsSuffix, IsPrefix
  <1>3. IsSuffix(<<>>, seq)
    <2>1. Reverse(<<>>) = <<>>
      BY DEF Reverse
    <2>2. /\ Len(<<>>) = 0 /\ 0 <= Len(Reverse(seq))
          /\ SubSeq(<<>>, 1, 0) = <<>> /\ SubSeq(Reverse(seq), 1, 0) = <<>>
      BY <1>1
    <2> QED BY <2>1, <2>2 DEF IsSuffix, IsPrefix
  <1>4. ASSUME NEW tail \in Seq(S), tail # <<>>, IsSuffix(tail, seq)
        PROVE  IsSuffix(Tail(tail), seq)
    <2> DEFINE n == Len(tail)
               rest == Tail(tail)
               back == Reverse(rest)
               all == Reverse(tail)
               whole == Reverse(seq)
    <2>1. n \in Nat \ {0} /\ rest \in Seq(S) /\ Len(rest) = n - 1 /\ \A i \in 1..(n - 1) : rest[i] = tail[i + 1]
      BY <1>4
    <2>2. /\ back \in Seq(S) /\ Len(back) = n - 1
          /\ all \in Seq(S) /\ Len(all) = n
          /\ whole \in Seq(S) /\ Len(whole) \in Nat
      <3> HIDE DEF rest, n
      <3>1. back \in Seq(S) /\ Len(back) = n - 1
        BY <1>1, <2>1
      <3>2. all \in Seq(S) /\ Len(all) = Len(tail)
        BY <1>1
      <3>3. whole \in Seq(S) /\ Len(whole) \in Nat
        BY <1>1
      <3> QED BY <3>1, <3>2, <3>3 DEF n
    <2>3. n <= Len(whole) /\ SubSeq(all, 1, n) = SubSeq(whole, 1, n)
      BY <1>4, <2>2 DEF IsSuffix, IsPrefix
    <2>4. \A i \in 1..(n - 1) : back[i] = all[i]
      <3>1. \A i \in 1..(n - 1) : back[i] = rest[(n - 1) - i + 1]
        BY <2>1 DEF Reverse
      <3>2. \A i \in 1..n : all[i] = tail[n - i + 1]
        BY DEF Reverse
      <3> HIDE DEF back, all, rest, n
      <3> SUFFICES ASSUME NEW i \in 1..(n - 1)
                   PROVE  back[i] = all[i]
        OBVIOUS
      <3>3. (n - 1) - i + 1 \in 1..(n - 1) /\ ((n - 1) - i + 1) + 1 = n - i + 1
        BY <2>1
      <3>4. rest[(n - 1) - i + 1] = tail[n - i + 1]
        BY <2>1, <3>3
      <3> QED BY <2>1, <3>1, <3>2, <3>4
    <2> HIDE DEF back, all, whole, rest, n
    <2>5. \A i \in 1..n : all[i] = whole[i]
      <3> SUFFICES ASSUME NEW i \in 1..n
                   PROVE  all[i] = whole[i]
        OBVIOUS
      <3>1. SubSeq(all, 1, n)[i] = all[i] /\ SubSeq(whole, 1, n)[i] = whole[i]
        BY <2>1, <2>2, <2>3
      <3> QED BY <2>3, <3>1
    <2>6. SubSeq(back, 1, n - 1) = SubSeq(whole, 1, n - 1)
      <3>1. /\ SubSeq(back, 1, n - 1) = [i \in 1..(n - 1) |-> back[i]]
            /\ SubSeq(whole, 1, n - 1) = [i \in 1..(n - 1) |-> whole[i]]
        BY <2>1, <2>2, <2>3
      <3>2. \A i \in 1..(n - 1) : back[i] = whole[i]
        BY <2>1, <2>4, <2>5
      <3> QED BY <3>1, <3>2
    <2>7. IsPrefix(back, whole)
      BY <2>1, <2>2, <2>3, <2>6 DEF IsPrefix
    <2> QED BY <2>7 DEF IsSuffix, back, whole, rest
  <1> QED BY <1>2, <1>3, <1>4

\* A manager that starts has its types, and no cooldowns.
LEMMA InitTypes == Init => TypeOK /\ SeedsInv
  <1> SUFFICES ASSUME Init PROVE TypeOK /\ SeedsInv
    OBVIOUS
  <1>1. IsSuffix(Defaults, Defaults)
    <2>1. Defaults \in Seq(Seed)
      BY AlertsAssumption DEF Seed
    <2> QED BY <2>1, SuffixLaws
  <1>2. <<>> \in Seq(Trigger) /\ Len(<<>>) = 0 /\ 0 <= MaxHistory /\ 0 \in 0..MaxTime
    BY AlertsAssumption
  <1> QED BY <1>1, <1>2, AlertsAssumption DEF Init, TypeOK, SeedsInv, Seed

\* The history keeps the newest triggers.
LEMMA RecentType ==
  ASSUME NEW trigs \in Seq(Trigger)
  PROVE  Recent(trigs) \in Seq(Trigger) /\ Len(Recent(trigs)) <= MaxHistory
  <1>1. MaxHistory \in Nat /\ Len(trigs) \in Nat
    BY AlertsAssumption
  <1>2. CASE Len(trigs) > MaxHistory
    BY <1>1, <1>2 DEF Recent
  <1>3. CASE ~(Len(trigs) > MaxHistory)
    BY <1>1, <1>3 DEF Recent
  <1> QED BY <1>2, <1>3

\* Check adds as many triggers as the point breaches rules.
LEMMA CheckTypes ==
  ASSUME TypeOK, CooldownInv, NEW s \in Series, NEW val \in Values, Check(s, val)
  PROVE  TypeOK'
  <1>1. PICK order \in SetToSeqs(Breached(s, val)) :
          LET n     == Len(order)
              trigs == [i \in 1..n |-> [rule |-> order[i].id, val |-> val, time |-> clock,
                                        num |-> Len(fired) + i]]
          IN /\ Len(fired) + n <= MaxFired
             /\ cooldown' = [i \in Ids |-> IF \E k \in 1..n : order[k].id = i
                                           THEN clock ELSE cooldown[i]]
             /\ nextID' = (nextID + n) % IdMod
             /\ triggers' = Recent(Reverse(trigs) \o triggers)
             /\ fired' = fired \o trigs
             /\ UNCHANGED <<file, rules, saving, seeds, clock, failed>>
    BY DEF Check
  <1> DEFINE n     == Len(order)
             trigs == [i \in 1..n |-> [rule |-> order[i].id, val |-> val, time |-> clock,
                                       num |-> Len(fired) + i]]
  <1>2. n \in Nat /\ \A k \in 1..n : order[k].id \in Ids
    BY OrderOfBreached DEF CooldownInv
  <1>3. Len(fired) \in Nat /\ fired \in Seq(Trigger) /\ triggers \in Seq(Trigger) /\ clock \in 0..MaxTime
    BY DEF TypeOK
  <1>4. trigs \in Seq(Trigger) /\ Len(trigs) = n
    <2>1. \A i \in 1..n : Len(fired) + i \in 1..MaxFired
      BY <1>1, <1>2, <1>3, AlertsAssumption
    <2>2. \A i \in 1..n : trigs[i] \in Trigger
      BY <1>2, <1>3, <2>1 DEF Trigger
    <2> QED BY <1>2, <2>2
  <1>5. Reverse(trigs) \in Seq(Trigger)
    <2>1. Reverse(trigs) \in [1..Len(trigs) -> Trigger]
      <3> HIDE DEF trigs
      <3> QED BY <1>4 DEF Reverse
    <2> QED BY <1>2, <1>4, <2>1
  <1> HIDE DEF trigs
  <1>6. fired' \in Seq(Trigger)
    BY <1>1, <1>3, <1>4 DEF trigs
  <1>7. triggers' \in Seq(Trigger) /\ Len(triggers') <= MaxHistory
    <2>1. Reverse(trigs) \o triggers \in Seq(Trigger)
      BY <1>3, <1>5
    <2>2. triggers' = Recent(Reverse(trigs) \o triggers)
      BY <1>1 DEF trigs
    <2> QED BY <2>1, <2>2, RecentType
  <1>8. nextID' \in Ids
    <2>1. nextID \in Nat
      BY AlertsAssumption DEF TypeOK, Ids
    <2> QED BY <1>1, <1>2, <2>1, AlertsAssumption DEF Ids
  <1>9. cooldown' \in [Ids -> {never} \cup 0..MaxTime]
    BY <1>1, <1>3 DEF TypeOK
  <1> QED BY <1>1, <1>6, <1>7, <1>8, <1>9 DEF TypeOK, Rule, Trigger, noFile, never

\* A rule takes its place among the others.
LEMMA InsertTypes ==
  ASSUME TypeOK, CooldownInv, NEW s \in Series, NEW cond \in Conditions, Insert(s, cond),
         IsSuffix(seeds', Defaults)
  PROVE  TypeOK'
  <1>1. Named(rules') /\ nextID' \in Ids
    BY InsertNamed DEF CooldownInv
  <1>2. rules' \subseteq Rule
    <2>1. rules' \subseteq rules \cup {[id |-> nextID', series |-> s, cond |-> cond]}
      BY DEF Insert
    <2> QED BY <1>1, <2>1 DEF TypeOK, Rule
  <1>3. saving' = "opening" /\ UNCHANGED <<file, cooldown, triggers, clock, failed, fired>>
    BY DEF Insert
  <1> QED BY <1>1, <1>2, <1>3 DEF TypeOK, Named, noFile, never, Rule, Trigger

\* The defaults are added one after the other, or none is.
LEMMA NextSeeds ==
  ASSUME SeedsInv, [Next]_vars
  PROVE  SeedsInv'
  <1>1. Defaults \in Seq(Seed) /\ <<>> \in Seq(Seed)
    BY AlertsAssumption DEF Seed
  <1>2. CASE seeds' = seeds
    BY <1>2 DEF SeedsInv
  <1>3. CASE seeds # <<>> /\ seeds' = Tail(seeds)
    <2>1. seeds' \in Seq(Seed) /\ IsSuffix(seeds', Defaults)
      BY <1>1, <1>3, SuffixLaws DEF SeedsInv
    <2> QED BY <2>1 DEF SeedsInv
  <1>4. CASE seeds' \in {Defaults, <<>>}
    <2>1. IsSuffix(seeds', Defaults)
      BY <1>1, <1>4, SuffixLaws
    <2> QED BY <1>1, <1>4, <2>1 DEF SeedsInv
  <1>5. seeds' = seeds \/ (seeds # <<>> /\ seeds' = Tail(seeds)) \/ seeds' \in {Defaults, <<>>}
    BY DEF Next, vars, AddRule, SeedRule, DeleteRule, OpenFile, WriteFile, Check, Tick, Restart, MissingDefaults
  <1> QED BY <1>2, <1>3, <1>4, <1>5

\* Every step keeps the types.
LEMMA NextTypes ==
  ASSUME TypeOK, SeedsInv, CooldownInv, [Next]_vars
  PROVE  TypeOK'
  <1>0. IsSuffix(seeds', Defaults)
    BY NextSeeds DEF SeedsInv
  <1>1. ASSUME NEW s \in Series, NEW cond \in Conditions, AddRule(s, cond)
        PROVE  TypeOK'
    BY <1>0, <1>1, InsertTypes DEF AddRule
  <1>2. CASE SeedRule
    <2>1. seeds \in Seq(Seed) /\ seeds # <<>>
      BY <1>2 DEF SeedRule, SeedsInv
    <2>2. Head(seeds) \in Seed
      BY <2>1
    <2>3. Head(seeds).series \in Series /\ Head(seeds).cond \in Conditions
      BY <2>2 DEF Seed
    <2> QED BY <1>0, <1>2, <2>3, InsertTypes DEF SeedRule
  <1>3. ASSUME NEW r \in rules, DeleteRule(r)
        PROVE  TypeOK'
    BY <1>3 DEF DeleteRule, TypeOK, noFile, never, Rule, Trigger
  <1>4. CASE OpenFile
    BY <1>4 DEF OpenFile, TypeOK, noFile, never, Rule, Trigger
  <1>5. CASE WriteFile
    BY <1>5 DEF WriteFile, TypeOK, noFile, never, Rule, Trigger
  <1>6. ASSUME NEW s \in Series, NEW val \in Values, Check(s, val)
        PROVE  TypeOK'
    BY <1>6, CheckTypes
  <1>7. CASE Tick
    <2>1. clock' \in 0..MaxTime
      BY <1>7, AlertsAssumption DEF Tick, TypeOK
    <2> QED BY <1>7, <2>1 DEF Tick, TypeOK, noFile, never, Rule, Trigger
  <1>8. CASE Restart
    <2>1. rules' \subseteq Rule /\ \A p, q \in rules' : p.id = q.id => p = q
      BY <1>8 DEF Restart, loadRules, TypeOK, CooldownInv, Named
    <2>3. /\ nextID' \in Ids /\ triggers' = <<>> /\ fired' = <<>> /\ saving' = "no" /\ failed' = FALSE
          /\ UNCHANGED <<file, clock>> /\ cooldown' = [i \in Ids |-> never]
      BY <1>8 DEF Restart
    <2>4. <<>> \in Seq(Trigger) /\ Len(<<>>) <= MaxHistory
      BY AlertsAssumption
    <2> QED BY <1>0, <2>1, <2>3, <2>4 DEF TypeOK, noFile, never, Rule, Trigger
  <1>9. CASE UNCHANGED vars
    BY <1>9 DEF vars, TypeOK, noFile, never, Rule, Trigger
  <1> QED BY <1>1, <1>2, <1>3, <1>4, <1>5, <1>6, <1>7, <1>8, <1>9 DEF Next

\* TypeOK holds of every state: an id names one rule, in memory and in the file, and
\* the history has at most its length.
THEOREM TypeCorrect == Spec => []TypeOK
  <1> QED BY InitTypes, NextTypes, NextSeeds, InitCooldownInv, NextCooldownInv, PTL DEF Spec
=============================================================================
