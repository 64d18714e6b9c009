------------------------- MODULE NetworkSetupProofs -------------------------
(***************************************************************************)
(* Proofs about NetworkSetup, for any number of taps, renames, failing     *)
(* commands and reboots.                                                   *)
(***************************************************************************)
EXTENDS NetworkSetup, TLAPS

Value   == {"on", "off", "none", "file", "name", "static", "dhcp"}
Config  == [Key -> Value]
Configs == [staged : Config, saved : Config, inforce : Config]
Steps   == [key : Key, val : Value, checked : BOOLEAN]

\* A plan that sets no Ethernet setting, and one that sets both, one after the other.
WirelessPlan(plan) == \A i \in 1..Len(plan) : plan[i].key \notin {"proto", "addr"}

WiredPlan(plan) ==
  /\ Len(plan) = 2 /\ plan[1].key = "proto" /\ plan[2].key = "addr"
  /\ plan[1].val = "static" <=> plan[2].val # "none"

PlanOK(kind, plan) ==
  /\ plan \in Seq(Steps)
  /\ \A i, j \in 1..Len(plan) : plan[i].key = plan[j].key => i = j
  /\ IF kind = "eth" THEN WiredPlan(plan) ELSE WirelessPlan(plan)
  /\ kind = "off" => \A i \in 1..Len(plan) : plan[i].key \in {"radio", "sta"}
  /\ kind # "wifi" => \A i \in 1..Len(plan) : plan[i].key # "ssid"

\* What a plan has set, saved and brought into force when its next step is at.
Progress(u, plan, at) ==
  /\ \A i \in 1..Len(plan) : i < at => u.staged[plan[i].key] = plan[i].val
  /\ at > Len(plan) + 1 => \A i \in 1..Len(plan) : u.saved[plan[i].key] = plan[i].val
  /\ at > Len(plan) + 2 => \A i \in 1..Len(plan) : u.inforce[plan[i].key] = plan[i].val

WorkerOK(w) ==
  /\ w = [kind |-> w.kind, plan |-> w.plan, at |-> w.at, ok |-> w.ok]
  /\ PlanOK(w.kind, w.plan) /\ w.at \in 1..(Len(w.plan) + 4)
  /\ ~w.ok => w.at > Len(w.plan) + 2

NetTypeOK ==
  /\ uci \in Configs /\ reset \in 0..4
  /\ upset \in [worker : BOOLEAN, reset : BOOLEAN]
  /\ Running => WorkerOK(worker)

\* An undisturbed worker has done what its position says.
WorkerInv ==
  Running /\ worker.ok /\ ~upset.worker => Progress(uci, worker.plan, worker.at)

\* A reset that finds an Ethernet import under way disturbs it, and is disturbed by it when
\* both still set something; undisturbed it has done what its position says.
ResetInv ==
  /\ Running /\ worker.kind = "eth" /\ reset > 0 => upset.worker
  /\ Running /\ worker.kind = "eth" /\ worker.at <= 2 /\ reset \in {1, 2} => upset.reset
  /\ reset = 2 /\ ~upset.reset => uci.staged["proto"] = "dhcp"

NetInv == NetTypeOK /\ WorkerInv /\ ResetInv /\ EthernetIsWhole

\* A step of a plan has the key and the value it was made from.
LEMMA StepFields ==
  ASSUME NEW k \in Key, NEW v \in Value
  PROVE  /\ Set(k, v) \in Steps /\ Set(k, v).key = k /\ Set(k, v).val = v
         /\ Checked(k, v) \in Steps /\ Checked(k, v).key = k /\ Checked(k, v).val = v
BY DEF Set, Checked, Steps

\* A plan of two settings, taken apart.
LEMMA PlanOfTwo ==
  ASSUME NEW k1 \in Key, NEW v1 \in Value, NEW k2 \in Key, NEW v2 \in Value,
         NEW plan, plan = <<Set(k1, v1), Set(k2, v2)>>
  PROVE  /\ plan \in Seq(Steps) /\ Len(plan) = 2
         /\ plan[1].key = k1 /\ plan[2].key = k2 /\ plan[1].val = v1 /\ plan[2].val = v2
         /\ \A i \in 1..Len(plan) : i = 1 \/ i = 2
BY StepFields

\* The plans of the code: the wireless ones leave the Ethernet settings alone, and each
\* Ethernet plan sets both of them so that they fit.
LEMMA PlansAreOK ==
  /\ \A f \in WifiFile : PlanOK("wifi", WifiPlan(f))
  /\ PlanOK("eth", StaticPlan) /\ PlanOK("eth", DhcpPlan)
  /\ PlanOK("on", EnablePlan) /\ PlanOK("off", DisablePlan)
<1>0. /\ "radio" \in Key /\ "sta" \in Key /\ "ssid" \in Key
      /\ "key" \in Key /\ "proto" \in Key /\ "addr" \in Key
      /\ "on" \in Value /\ "off" \in Value /\ "none" \in Value
      /\ "file" \in Value /\ "static" \in Value /\ "dhcp" \in Value
  BY DEF Key, Value
<1>1. ASSUME NEW f \in WifiFile
      PROVE  PlanOK("wifi", WifiPlan(f))
  <2> DEFINE p == WifiPlan(f)
             step == IF f.password /\ Encryption(f) # "none" THEN Checked("key", "file")
                                                             ELSE Set("key", "none")
  <2>0. step \in Steps /\ step.key = "key"
    BY <1>0, StepFields
  <2>1. /\ Checked("radio", "on") \in Steps /\ Checked("ssid", "file") \in Steps
        /\ Set("sta", "on") \in Steps /\ Set("sta", "on").key = "sta"
        /\ Checked("radio", "on").key = "radio" /\ Checked("ssid", "file").key = "ssid"
    BY <1>0, StepFields
  <2>2. p = <<Checked("radio", "on"), Checked("ssid", "file"), step, Set("sta", "on")>>
    BY DEF WifiPlan
  <2> HIDE DEF p, step
  <2>3. /\ p \in Seq(Steps) /\ Len(p) = 4
        /\ p[1].key = "radio" /\ p[2].key = "ssid" /\ p[3].key = "key" /\ p[4].key = "sta"
    BY <2>0, <2>1, <2>2
  <2>4. \A i \in 1..Len(p) : i = 1 \/ i = 2 \/ i = 3 \/ i = 4
    BY <2>3
  <2> QED
    BY <2>3, <2>4 DEF PlanOK, WirelessPlan, p
<1>2. PlanOK("eth", StaticPlan)
  <2>1. StaticPlan = <<Set("proto", "static"), Set("addr", "file")>>
    BY DEF StaticPlan
  <2> QED
    BY <2>1, <1>0, PlanOfTwo DEF PlanOK, WiredPlan
<1>3. PlanOK("eth", DhcpPlan)
  <2>1. DhcpPlan = <<Set("proto", "dhcp"), Set("addr", "none")>>
    BY DEF DhcpPlan
  <2> QED
    BY <2>1, <1>0, PlanOfTwo DEF PlanOK, WiredPlan
<1>4. PlanOK("on", EnablePlan)
  <2>1. EnablePlan = <<Set("radio", "on"), Set("sta", "on")>>
    BY DEF EnablePlan
  <2> QED
    BY <2>1, <1>0, PlanOfTwo DEF PlanOK, WirelessPlan
<1>5. PlanOK("off", DisablePlan)
  <2>1. DisablePlan = <<Set("sta", "off"), Set("radio", "off")>>
    BY DEF DisablePlan
  <2> QED
    BY <2>1, <1>0, PlanOfTwo DEF PlanOK, WirelessPlan
<1> QED
  BY <1>1, <1>2, <1>3, <1>4, <1>5

\* What a plan sets are keys and values of uci.
LEMMA StepOfPlan ==
  ASSUME NEW kind, NEW plan, PlanOK(kind, plan), NEW i \in 1..Len(plan)
  PROVE  plan[i].key \in Key /\ plan[i].val \in Value
<1>1. plan[i] \in Steps
  BY DEF PlanOK
<1> QED
  BY <1>1 DEF Steps

\* A printer starts with the factory settings saved and in force, and no worker.
LEMMA NetInvInit ==
  ASSUME NetInit
  PROVE  NetInv
<1>1. Default \in Config /\ Whole(Default)
  BY DEF Default, Config, Key, Value, Whole
<1>2. ~Running /\ reset = 0 /\ upset = [worker |-> FALSE, reset |-> FALSE]
  BY DEF NetInit, Running
<1>3. /\ uci["staged"] = Default /\ uci["saved"] = Default /\ uci["inforce"] = Default
      /\ uci \in Configs
  BY <1>1 DEF NetInit, Configs
<1>4. upset \in [worker : BOOLEAN, reset : BOOLEAN] /\ reset \in 0..4
  BY <1>2
<1>5. NetTypeOK
  BY <1>2, <1>3, <1>4 DEF NetTypeOK
<1> QED
  BY <1>1, <1>2, <1>3, <1>5 DEF NetInv, WorkerInv, ResetInv, EthernetIsWhole

----------------------------------------------------------------------------
(* The settings. *)

\* Staging a setting changes that one alone.
LEMMA StagedSettings ==
  ASSUME uci \in Configs, NEW step, step.key \in Key, step.val \in Value
  PROVE  LET u == StageStep(step)
         IN  /\ u \in Configs /\ u.saved = uci.saved /\ u.inforce = uci.inforce
             /\ u.staged[step.key] = step.val
             /\ \A k \in Key : k # step.key => u.staged[k] = uci.staged[k]
BY DEF StageStep, Configs, Config

\* A commit of a package, or of all, saves what is staged.
LEMMA CommittedSettings ==
  ASSUME uci \in Configs, NEW keys
  PROVE  LET u == CommitOf(keys)
         IN  /\ u \in Configs /\ u.staged = uci.staged /\ u.inforce = uci.inforce
             /\ \A k \in Key : u.saved[k] = IF k \in keys THEN uci.staged[k] ELSE uci.saved[k]
BY DEF CommitOf, Configs, Config

\* "wifi down" brings the wireless settings into force and leaves the others.
LEMMA RestartedSettings ==
  ASSUME uci \in Configs, NEW kind
  PROVE  LET u == Restart(kind)
         IN  /\ u \in Configs /\ u.staged = uci.staged /\ u.saved = uci.saved
             /\ \A k \in Key : u.inforce[k] =
                  IF kind = "off" /\ k \notin {"radio", "sta"} THEN uci.inforce[k]
                  ELSE uci.saved[k]
<1>1. CASE kind = "off"
  BY <1>1 DEF Restart, Configs, Config
<1>2. CASE kind # "off"
  BY <1>2 DEF Restart, Configs, Config
<1> QED
  BY <1>1, <1>2

\* What a plan has done is not undone by a commit or a restart, whoever runs it.
LEMMA ProgressKept ==
  ASSUME NEW kind, NEW plan, PlanOK(kind, plan), NEW at \in Nat, NEW u, NEW v,
         Progress(u, plan, at), v.staged = u.staged,
         \A k \in Key : v.saved[k] = u.saved[k] \/ v.saved[k] = u.staged[k],
         \A k \in Key : v.inforce[k] = u.inforce[k] \/ v.inforce[k] = u.saved[k]
  PROVE  Progress(v, plan, at)
<1>0. \A i \in 1..Len(plan) : plan[i].key \in Key
  BY StepOfPlan
<1>1. Len(plan) \in Nat /\ \A i \in 1..Len(plan) : plan[i].key \in Key
  BY <1>0 DEF PlanOK
<1>2. \A i \in 1..Len(plan) : i < at => v.staged[plan[i].key] = plan[i].val
  BY DEF Progress
<1>3. ASSUME at > Len(plan) + 1, NEW i \in 1..Len(plan)
      PROVE  v.saved[plan[i].key] = plan[i].val
  <2>1. i < at
    BY <1>1, <1>3
  <2>2. u.staged[plan[i].key] = plan[i].val /\ u.saved[plan[i].key] = plan[i].val
    BY <1>3, <2>1 DEF Progress
  <2> QED
    BY <1>1, <1>3, <2>2
<1>4. ASSUME at > Len(plan) + 2, NEW i \in 1..Len(plan)
      PROVE  v.inforce[plan[i].key] = plan[i].val
  <2>1. at > Len(plan) + 1
    BY <1>1, <1>4
  <2>2. u.saved[plan[i].key] = plan[i].val /\ u.inforce[plan[i].key] = plan[i].val
    BY <1>4, <2>1 DEF Progress
  <2> QED
    BY <1>1, <1>4, <2>2
<1> QED
  BY <1>2, <1>3, <1>4 DEF Progress

\* The two settings of the Ethernet port decide whether it is whole.
LEMMA SameWhole ==
  ASSUME NEW c, NEW d, c["proto"] = d["proto"], c["addr"] = d["addr"]
  PROVE  Whole(c) <=> Whole(d)
BY DEF Whole

\* The keys of the Ethernet port, and the others.
LEMMA Keys ==
  /\ "proto" \in Key /\ "addr" \in Key /\ "ssid" \in Key
  /\ "dhcp" \in Value /\ "none" \in Value /\ "name" \in Value
  /\ "proto" \in Wired /\ "addr" \in Wired
BY DEF Key, Value, Wired

\* A copy that passes on takes its doubt with it.
LEMMA WholePasses ==
  ASSUME EthernetIsWhole, NEW from \in {"staged", "saved", "inforce"},
         NEW to \in {"staged", "saved", "inforce"}, from # to,
         doubt' = Passed(from, to),
         \A c \in {"staged", "saved", "inforce"} : c # to => uci'[c] = uci[c],
         Whole(uci[from]) => Whole(uci'[to])
  PROVE  EthernetIsWhole'
<1>1. CASE from \in doubt
  BY <1>1 DEF Passed, EthernetIsWhole
<1>2. CASE from \notin doubt
  <2>1. Whole(uci'[to])
    BY <1>2 DEF EthernetIsWhole
  <2> QED
    BY <1>2, <2>1 DEF Passed, EthernetIsWhole
<1> QED
  BY <1>1, <1>2

\* What is staged is whole, or in doubt.
LEMMA WholeStaged ==
  ASSUME EthernetIsWhole, NEW last, NEW disturbed, doubt' = Staged(last, disturbed),
         uci'.saved = uci.saved, uci'.inforce = uci.inforce,
         last /\ ~disturbed => Whole(uci'.staged)
  PROVE  EthernetIsWhole'
<1>1. CASE last /\ ~disturbed
  BY <1>1 DEF Staged, EthernetIsWhole
<1>2. CASE ~(last /\ ~disturbed)
  BY <1>2 DEF Staged, EthernetIsWhole
<1> QED
  BY <1>1, <1>2

----------------------------------------------------------------------------
(* The worker. *)

\* A worker that starts.
LEMMA StartsInv ==
  ASSUME NetInv, NEW kind, NEW plan, PlanOK(kind, plan), Starts(kind, plan), reset = 0
  PROVE  NetInv'
<1>1. /\ worker' = [kind |-> kind, plan |-> plan, at |-> 1, ok |-> TRUE]
      /\ UNCHANGED <<uci, reset, doubt>> /\ upset' = [upset EXCEPT !.worker = FALSE]
  BY DEF Starts
<1>2. WorkerOK(worker') /\ worker'.plan = plan /\ worker'.at = 1 /\ Len(plan) \in Nat
  BY <1>1 DEF WorkerOK, PlanOK
<1>3. upset' \in [worker : BOOLEAN, reset : BOOLEAN]
  BY <1>1 DEF NetInv, NetTypeOK
<1>4. NetTypeOK'
  BY <1>1, <1>2, <1>3 DEF NetInv, NetTypeOK
<1>5. Progress(uci', worker'.plan, worker'.at)
  BY <1>1, <1>2 DEF Progress
<1> QED
  BY <1>1, <1>4, <1>5 DEF NetInv, WorkerInv, ResetInv, EthernetIsWhole

\* A worker that goes on to its next step.
LEMMA WorkerMoves ==
  ASSUME NetInv, Running, worker.at <= Len(Plan) + 3, NextAt
  PROVE  /\ WorkerOK(worker) /\ worker.at \in Nat /\ Len(Plan) \in Nat
         /\ worker' = [kind |-> worker.kind, plan |-> worker.plan, at |-> worker.at + 1,
                       ok |-> worker.ok]
         /\ worker'.plan = worker.plan /\ worker'.at = worker.at + 1
         /\ worker'.kind = worker.kind /\ worker'.ok = worker.ok
         /\ WorkerOK(worker')
<1>1. WorkerOK(worker) /\ Plan = worker.plan
  BY DEF NetInv, NetTypeOK, Plan
<1>2. /\ worker = [kind |-> worker.kind, plan |-> worker.plan, at |-> worker.at,
                   ok |-> worker.ok]
      /\ worker.at \in Nat /\ Len(Plan) \in Nat
  BY <1>1 DEF WorkerOK, PlanOK
<1>3. worker' = [kind |-> worker.kind, plan |-> worker.plan, at |-> worker.at + 1,
                 ok |-> worker.ok]
  BY <1>2 DEF NextAt
<1>4. /\ worker'.plan = worker.plan /\ worker'.at = worker.at + 1
      /\ worker'.kind = worker.kind /\ worker'.ok = worker.ok
  BY <1>3
<1>5. WorkerOK(worker')
  BY <1>1, <1>2, <1>3, <1>4 DEF WorkerOK
<1> QED
  BY <1>1, <1>2, <1>3, <1>4, <1>5

\* Staging one setting of a plan takes the worker one setting further.
LEMMA WorkerSetsInv ==
  ASSUME NetInv, WorkerSets
  PROVE  NetInv'
<1> DEFINE at == worker.at
           step == Plan[worker.at]
<1>1. /\ Running /\ at \in 1..Len(Plan) /\ UNCHANGED <<reset, upset>>
      /\ uci' = StageStep(step) /\ NextAt /\ Plan = worker.plan
  BY DEF WorkerSets, Stages, NetUnchanged, Plan
<1>2. /\ WorkerOK(worker) /\ at \in Nat /\ Len(Plan) \in Nat /\ WorkerOK(worker')
      /\ worker'.plan = Plan /\ worker'.at = at + 1 /\ worker'.kind = worker.kind
      /\ worker'.ok = worker.ok
  <2>1. at <= Len(Plan) + 3
    BY <1>1 DEF NetInv, NetTypeOK, WorkerOK, PlanOK, Plan
  <2> QED
    BY <1>1, <2>1, WorkerMoves
<1>3. PlanOK(worker.kind, Plan) /\ worker.ok
  BY <1>1, <1>2 DEF WorkerOK
<1>4. step.key \in Key /\ step.val \in Value
  BY <1>1, <1>3, StepOfPlan
<1>5. uci \in Configs
  BY DEF NetInv, NetTypeOK
<1>6. /\ uci' \in Configs /\ uci'.saved = uci.saved /\ uci'.inforce = uci.inforce
      /\ uci'.staged[step.key] = step.val
      /\ \A k \in Key : k # step.key => uci'.staged[k] = uci.staged[k]
  BY <1>1, <1>4, <1>5, StagedSettings
<1>7. NetTypeOK'
  BY <1>1, <1>2, <1>6 DEF NetInv, NetTypeOK
<1>8. ASSUME ~upset.worker
      PROVE  Progress(uci', Plan, at + 1)
  <2>1. Progress(uci, Plan, at)
    BY <1>1, <1>3, <1>8 DEF NetInv, WorkerInv
  <2>2. ASSUME NEW i \in 1..Len(Plan), i < at + 1
        PROVE  uci'.staged[Plan[i].key] = Plan[i].val
    <3>1. Plan[i].key \in Key
      BY <1>3, StepOfPlan
    <3>2. CASE i = at
      BY <3>2, <1>6
    <3>3. CASE i # at
      <4>1. i < at /\ Plan[i].key # step.key
        BY <2>2, <3>3, <1>1, <1>3 DEF PlanOK
      <4> QED
        BY <2>1, <3>1, <4>1, <1>6 DEF Progress
    <3> QED
      BY <3>2, <3>3
  <2>3. ~(at + 1 > Len(Plan) + 1) /\ ~(at + 1 > Len(Plan) + 2)
    BY <1>1, <1>2
  <2> QED
    BY <2>2, <2>3 DEF Progress
<1>9. WorkerInv'
  BY <1>1, <1>2, <1>8 DEF WorkerInv
<1>10. ResetInv'
  <2>1. CASE worker.kind = "eth"
    <3>1. Len(Plan) = 2
      BY <1>3, <2>1 DEF PlanOK, WiredPlan
    <3>2. at <= 2
      BY <1>1, <3>1
    <3> QED
      BY <1>1, <1>2, <2>1, <3>2 DEF NetInv, ResetInv
  <2>2. CASE worker.kind # "eth"
    <3>1. step.key # "proto"
      BY <1>1, <1>3, <2>2 DEF PlanOK, WirelessPlan
    <3> QED
      BY <1>1, <1>2, <1>6, <2>2, <3>1, Keys DEF NetInv, ResetInv
  <2> QED
    BY <2>1, <2>2
<1>11. EthernetIsWhole'
  <2>1. CASE worker.kind = "eth"
    <3>1. doubt' = Staged(worker.at = Len(Plan), upset.worker)
      BY <2>1 DEF WorkerSets
    <3>2. ASSUME worker.at = Len(Plan), ~upset.worker
          PROVE  Whole(uci'.staged)
      <4>1. /\ Len(Plan) = 2 /\ Plan[1].key = "proto" /\ Plan[2].key = "addr"
            /\ Plan[1].val = "static" <=> Plan[2].val # "none"
        BY <1>3, <2>1 DEF PlanOK, WiredPlan
      <4>2. Progress(uci', Plan, 3)
        BY <1>8, <3>2, <4>1
      <4>3. uci'.staged["proto"] = Plan[1].val /\ uci'.staged["addr"] = Plan[2].val
        BY <4>1, <4>2 DEF Progress
      <4> QED
        BY <4>1, <4>3 DEF Whole
    <3> QED
      BY <1>6, <3>1, <3>2, WholeStaged DEF NetInv
  <2>2. CASE worker.kind # "eth"
    <3>1. step.key # "proto" /\ step.key # "addr" /\ doubt' = doubt
      BY <1>1, <1>3, <2>2 DEF PlanOK, WirelessPlan, WorkerSets
    <3>2. Whole(uci'.staged) <=> Whole(uci.staged)
      BY <1>6, <3>1, Keys, SameWhole
    <3> QED
      BY <1>6, <3>1, <3>2 DEF NetInv, EthernetIsWhole
  <2> QED
    BY <2>1, <2>2
<1> QED
  BY <1>7, <1>9, <1>10, <1>11 DEF NetInv

\* A commit saves a staged plan that is complete.
LEMMA WorkerCommitsInv ==
  ASSUME NetInv, WorkerCommits
  PROVE  NetInv'
<1>1. /\ Running /\ worker.at = Len(Plan) + 1 /\ UNCHANGED <<reset, upset>> /\ NextAt
      /\ uci' = [uci EXCEPT !.saved = uci.staged] /\ Plan = worker.plan
      /\ doubt' = Passed("staged", "saved")
  BY DEF WorkerCommits, NetUnchanged, Commit, Plan
<1>2. /\ uci' \in Configs /\ uci'.staged = uci.staged /\ uci'.saved = uci.staged
      /\ uci'.inforce = uci.inforce
  BY <1>1 DEF NetInv, NetTypeOK, Configs
<1>3. /\ WorkerOK(worker) /\ Len(Plan) \in Nat /\ WorkerOK(worker')
      /\ worker'.plan = Plan /\ worker'.at = Len(Plan) + 2 /\ worker'.kind = worker.kind
      /\ worker'.ok = worker.ok
  <2>1. worker.at <= Len(Plan) + 3
    BY <1>1 DEF NetInv, NetTypeOK, WorkerOK, PlanOK, Plan
  <2> QED
    BY <1>1, <2>1, WorkerMoves
<1>4. NetTypeOK'
  BY <1>1, <1>2, <1>3 DEF NetInv, NetTypeOK
<1>5. WorkerInv'
  BY <1>1, <1>2, <1>3 DEF NetInv, WorkerInv, Progress
<1>6. ResetInv'
  BY <1>1, <1>2, <1>3 DEF NetInv, ResetInv
<1>7. EthernetIsWhole'
  BY <1>1, <1>2, WholePasses DEF NetInv
<1> QED
  BY <1>4, <1>5, <1>6, <1>7 DEF NetInv

\* After the restart every setting of the plan is in force.
LEMMA WorkerRestartsInv ==
  ASSUME NetInv, WorkerRestarts
  PROVE  NetInv'
<1>1. /\ Running /\ worker.at = Len(Plan) + 2 /\ UNCHANGED <<reset, upset>> /\ NextAt
      /\ uci' = Restart(worker.kind) /\ Plan = worker.plan
  BY DEF WorkerRestarts, NetUnchanged, Plan
<1>2. /\ uci' \in Configs /\ uci'.staged = uci.staged /\ uci'.saved = uci.saved
      /\ \A k \in Key : uci'.inforce[k] =
           IF worker.kind = "off" /\ k \notin {"radio", "sta"} THEN uci.inforce[k]
           ELSE uci.saved[k]
  BY <1>1, RestartedSettings DEF NetInv, NetTypeOK
<1>3. /\ WorkerOK(worker) /\ Len(Plan) \in Nat /\ WorkerOK(worker')
      /\ worker'.plan = Plan /\ worker'.at = Len(Plan) + 3 /\ worker'.kind = worker.kind
      /\ worker'.ok = worker.ok
  <2>1. worker.at <= Len(Plan) + 3
    BY <1>1 DEF NetInv, NetTypeOK, WorkerOK, PlanOK, Plan
  <2> QED
    BY <1>1, <2>1, WorkerMoves
<1>4. NetTypeOK'
  BY <1>1, <1>2, <1>3 DEF NetInv, NetTypeOK
<1>5. WorkerInv'
  <2> SUFFICES ASSUME worker.ok, ~upset.worker
               PROVE  Progress(uci', Plan, Len(Plan) + 3)
    BY <1>1, <1>3 DEF WorkerInv
  <2>1. /\ \A i \in 1..Len(Plan) : uci.staged[Plan[i].key] = Plan[i].val
        /\ \A i \in 1..Len(Plan) : uci.saved[Plan[i].key] = Plan[i].val
    BY <1>1, <1>3 DEF NetInv, WorkerInv, Progress
  <2>2. ASSUME NEW i \in 1..Len(Plan)
        PROVE  uci'.inforce[Plan[i].key] = Plan[i].val
    <3>1. /\ Plan[i].key \in Key
          /\ worker.kind = "off" => Plan[i].key \in {"radio", "sta"}
      BY <1>1, <1>3, StepOfPlan DEF WorkerOK, PlanOK
    <3> QED
      BY <1>2, <2>1, <3>1
  <2> QED
    BY <1>2, <1>3, <2>1, <2>2 DEF Progress
<1>6. ResetInv'
  BY <1>1, <1>2, <1>3 DEF NetInv, ResetInv
<1>7. EthernetIsWhole'
  <2>1. CASE worker.kind = "off"
    <3>1. doubt' = doubt
      BY <2>1 DEF WorkerRestarts
    <3>2. Whole(uci'.inforce) <=> Whole(uci.inforce)
      BY <1>2, <2>1, Keys, SameWhole
    <3> QED
      BY <1>2, <3>1, <3>2 DEF NetInv, EthernetIsWhole
  <2>2. CASE worker.kind # "off"
    <3>1. doubt' = Passed("saved", "inforce")
      BY <2>2 DEF WorkerRestarts
    <3>2. Whole(uci'.inforce) <=> Whole(uci.saved)
      BY <1>2, <2>2, Keys, SameWhole
    <3> QED
      BY <1>2, <3>1, <3>2, WholePasses DEF NetInv
  <2> QED
    BY <2>1, <2>2
<1> QED
  BY <1>4, <1>5, <1>6, <1>7 DEF NetInv

\* Posting the result changes no setting.
LEMMA WorkerPostsInv ==
  ASSUME NetInv, WorkerPosts
  PROVE  NetInv'
<1>1. /\ Running /\ worker.at = Len(Plan) + 3 /\ UNCHANGED <<uci, reset, upset, doubt>>
      /\ NextAt /\ Plan = worker.plan
  BY DEF WorkerPosts, Plan, history
<1>2. /\ Len(Plan) \in Nat /\ WorkerOK(worker')
      /\ worker'.plan = Plan /\ worker'.at = Len(Plan) + 4 /\ worker'.kind = worker.kind
      /\ worker'.ok = worker.ok
  <2>1. worker.at <= Len(Plan) + 3
    BY <1>1 DEF NetInv, NetTypeOK, WorkerOK, PlanOK, Plan
  <2> QED
    BY <1>1, <2>1, WorkerMoves
<1>3. NetTypeOK'
  BY <1>1, <1>2 DEF NetInv, NetTypeOK
<1>4. WorkerInv'
  <2>1. SUFFICES ASSUME worker.ok, ~upset.worker
                 PROVE  Progress(uci, Plan, Len(Plan) + 4)
    BY <1>1, <1>2 DEF WorkerInv
  <2>2. Progress(uci, Plan, Len(Plan) + 3)
    BY <1>1, <2>1 DEF NetInv, WorkerInv
  <2> QED
    BY <1>2, <2>2 DEF Progress
<1> QED
  BY <1>1, <1>2, <1>3, <1>4 DEF NetInv, ResetInv, EthernetIsWhole

\* The end of the worker changes no setting.
LEMMA WorkerEndsInv ==
  ASSUME NetInv, WorkerEnds
  PROVE  NetInv'
<1>1. UNCHANGED <<uci, reset, upset, doubt>> /\ ~Running'
  BY DEF WorkerEnds, Running, history
<1> QED
  BY <1>1 DEF NetInv, NetTypeOK, WorkerInv, ResetInv, EthernetIsWhole

\* A worker that gives up reports an error, and has set nothing more.
LEMMA WorkerGivesUpInv ==
  ASSUME NetInv, WorkerGivesUp
  PROVE  NetInv'
<1>1. /\ Running /\ UNCHANGED <<uci, reset, upset, doubt>> /\ WorkerOK(worker)
      /\ worker' = [worker EXCEPT !.at = Len(worker.plan) + 3, !.ok = FALSE]
  BY DEF WorkerGivesUp, NetUnchanged, history, Plan, NetInv, NetTypeOK
<1>2. /\ worker = [kind |-> worker.kind, plan |-> worker.plan, at |-> worker.at,
                   ok |-> worker.ok]
      /\ Len(worker.plan) \in Nat /\ PlanOK(worker.kind, worker.plan)
  BY <1>1 DEF WorkerOK, PlanOK
<1>3. worker' = [kind |-> worker.kind, plan |-> worker.plan, at |-> Len(worker.plan) + 3,
                 ok |-> FALSE]
  BY <1>1, <1>2
<1>4. /\ WorkerOK(worker') /\ worker'.kind = worker.kind /\ worker'.ok = FALSE
      /\ worker'.at = Len(worker.plan) + 3
  BY <1>2, <1>3 DEF WorkerOK
<1>5. NetTypeOK' /\ WorkerInv'
  BY <1>1, <1>4 DEF NetInv, NetTypeOK, WorkerInv
<1>6. worker.kind = "eth" => ~(worker'.at <= 2)
  BY <1>2, <1>4 DEF PlanOK, WiredPlan
<1>7. ResetInv'
  BY <1>1, <1>4, <1>6 DEF NetInv, ResetInv
<1> QED
  BY <1>1, <1>5, <1>7 DEF NetInv, EthernetIsWhole

\* A command whose failure is not seen disturbs its plan.
LEMMA WorkerMissesInv ==
  ASSUME NetInv, WorkerMisses
  PROVE  NetInv'
<1>1. /\ Running /\ worker.at \in 1..Len(Plan) /\ UNCHANGED <<uci, reset>> /\ NextAt
      /\ upset' = [upset EXCEPT !.worker = TRUE] /\ doubt \subseteq doubt'
  BY DEF WorkerMisses, Stages, NetUnchanged
<1>2. /\ WorkerOK(worker) /\ WorkerOK(worker') /\ worker'.at = worker.at + 1
      /\ worker.at \in Nat /\ worker'.kind = worker.kind
  <2>1. worker.at <= Len(Plan) + 3
    BY <1>1 DEF NetInv, NetTypeOK, WorkerOK, PlanOK, Plan
  <2> QED
    BY <1>1, <2>1, WorkerMoves
<1>3. upset' \in [worker : BOOLEAN, reset : BOOLEAN] /\ upset'.worker
      /\ upset'.reset = upset.reset
  BY <1>1 DEF NetInv, NetTypeOK
<1>4. NetTypeOK' /\ WorkerInv'
  BY <1>1, <1>2, <1>3 DEF NetInv, NetTypeOK, WorkerInv
<1>5. ResetInv'
  BY <1>1, <1>2, <1>3 DEF NetInv, ResetInv
<1> QED
  BY <1>1, <1>4, <1>5 DEF NetInv, EthernetIsWhole

----------------------------------------------------------------------------
(* The reset, the rename and a reboot. *)

\* A reset that begins while an Ethernet import is under way disturbs it.
LEMMA ResetEthCbInv ==
  ASSUME NetInv, ResetEthCb
  PROVE  NetInv'
<1> DEFINE w == upset.worker \/ worker.kind = "eth"
           s == worker.kind = "eth" /\ Stages
<1>1. reset' = 1 /\ UNCHANGED <<uci, worker, doubt>> /\ upset' = [worker |-> w, reset |-> s]
  BY DEF ResetEthCb
<1>2. w \in BOOLEAN /\ s \in BOOLEAN
  BY DEF NetInv, NetTypeOK
<1>3. Running /\ worker.kind = "eth" /\ worker.at <= 2 => s
  BY DEF NetInv, NetTypeOK, WorkerOK, PlanOK, WiredPlan, Stages, Plan
<1>4. (worker.kind = "eth" => w) /\ (~w => ~upset.worker)
  OBVIOUS
<1> HIDE DEF w, s
<1>5. /\ upset' \in [worker : BOOLEAN, reset : BOOLEAN]
      /\ upset'.worker = w /\ upset'.reset = s
  BY <1>1, <1>2
<1>6. NetTypeOK' /\ WorkerInv'
  BY <1>1, <1>4, <1>5 DEF NetInv, NetTypeOK, WorkerInv, Running
<1>7. ResetInv'
  BY <1>1, <1>3, <1>4, <1>5 DEF ResetInv, Running
<1> QED
  BY <1>1, <1>6, <1>7 DEF NetInv, EthernetIsWhole

\* The reset leaves a wireless plan alone, and has disturbed any other.
LEMMA ResetLeavesWorker ==
  ASSUME NetInv, reset > 0, UNCHANGED <<worker, upset>>, uci' \in Configs,
         \A k \in Key : k \notin {"proto", "addr"} => uci'.staged[k] = uci.staged[k],
         uci'.saved = uci.saved, uci'.inforce = uci.inforce
  PROVE  WorkerInv'
<1> SUFFICES ASSUME Running, worker.ok, ~upset.worker
             PROVE  Progress(uci', worker.plan, worker.at)
  BY DEF WorkerInv, Running
<1>1. worker.kind # "eth" /\ WorkerOK(worker) /\ Progress(uci, worker.plan, worker.at)
  BY DEF NetInv, NetTypeOK, ResetInv, WorkerInv
<1>2. \A i \in 1..Len(worker.plan) :
        worker.plan[i].key \in Key /\ worker.plan[i].key \notin {"proto", "addr"}
  BY <1>1, StepOfPlan DEF WorkerOK, PlanOK, WirelessPlan
<1> QED
  BY <1>1, <1>2 DEF Progress

\* A commit or a restart by somebody else leaves the worker's progress.
LEMMA OthersLeaveWorker ==
  ASSUME NetInv, UNCHANGED <<worker, upset>>, uci'.staged = uci.staged,
         \A k \in Key : uci'.saved[k] = uci.saved[k] \/ uci'.saved[k] = uci.staged[k],
         \A k \in Key : uci'.inforce[k] = uci.inforce[k] \/ uci'.inforce[k] = uci.saved[k]
  PROVE  WorkerInv'
<1> SUFFICES ASSUME Running, worker.ok, ~upset.worker
             PROVE  Progress(uci', worker.plan, worker.at)
  BY DEF WorkerInv, Running
<1>1. /\ PlanOK(worker.kind, worker.plan) /\ worker.at \in Nat
      /\ Progress(uci, worker.plan, worker.at)
  BY DEF NetInv, NetTypeOK, WorkerInv, WorkerOK, PlanOK
<1> QED
  BY <1>1, ProgressKept

\* The reset sets, commits and restarts in the screen's thread.
LEMMA ResetStepInv ==
  ASSUME NetInv, ResetStep
  PROVE  NetInv'
<1>1. /\ Len(DhcpPlan) = 2
      /\ DhcpPlan[1] = Set("proto", "dhcp") /\ DhcpPlan[2] = Set("addr", "none")
  BY DEF DhcpPlan
<1>2. /\ reset \in 1..4 /\ UNCHANGED <<worker, upset>> /\ uci \in Configs
      /\ reset' = IF reset = 4 THEN 0 ELSE reset + 1
  BY <1>1 DEF ResetStep, ResetGoesOn, NetInv, NetTypeOK
<1>3. ASSUME uci' \in Configs PROVE NetTypeOK'
  <2>1. reset' \in 0..4
    BY <1>2
  <2> QED
    BY <1>2, <1>3, <2>1 DEF NetInv, NetTypeOK, Running
<1>4. CASE reset = 1
  <2>1. reset' = 2 /\ uci' = StageStep(DhcpPlan[1]) /\ doubt' = Staged(FALSE, upset.reset)
    <3>1. reset' = 2
      BY <1>2, <1>4
    <3>2. reset # Len(DhcpPlan) + 1 /\ reset # Len(DhcpPlan) + 2
      BY <1>1, <1>4
    <3>3. /\ uci' = StageStep(DhcpPlan[reset])
          /\ doubt' = Staged(reset = Len(DhcpPlan), upset.reset)
      BY <3>2, ZenonT(30) DEF ResetStep
    <3>4. reset # Len(DhcpPlan)
      BY <1>1, <1>4
    <3>5. Staged(reset = Len(DhcpPlan), upset.reset) = Staged(FALSE, upset.reset)
      BY <3>4, ZenonT(30) DEF Staged
    <3> QED
      BY <1>4, <3>1, <3>3, <3>5, ZenonT(30)
  <2>2. /\ uci' \in Configs /\ uci'.saved = uci.saved /\ uci'.inforce = uci.inforce
        /\ uci'.staged["proto"] = "dhcp"
        /\ \A k \in Key : k # "proto" => uci'.staged[k] = uci.staged[k]
    <3>1. DhcpPlan[1].key = "proto" /\ DhcpPlan[1].val = "dhcp"
      BY <1>1, Keys, StepFields
    <3> QED
      BY <1>2, <2>1, <3>1, Keys, StagedSettings
  <2>3. WorkerInv'
    BY <1>2, <2>2, ResetLeavesWorker
  <2>4. ResetInv'
    BY <1>2, <1>4, <2>1, <2>2 DEF NetInv, ResetInv, Running
  <2>5. EthernetIsWhole'
    BY <2>1, <2>2, WholeStaged DEF NetInv
  <2> QED
    BY <1>3, <2>2, <2>3, <2>4, <2>5 DEF NetInv
<1>5. CASE reset = 2
  <2>1. reset' = 3 /\ uci' = StageStep(DhcpPlan[2]) /\ doubt' = Staged(TRUE, upset.reset)
    <3>1. reset' = 3
      BY <1>2, <1>5
    <3>2. reset # Len(DhcpPlan) + 1 /\ reset # Len(DhcpPlan) + 2
      BY <1>1, <1>5
    <3>3. /\ uci' = StageStep(DhcpPlan[reset])
          /\ doubt' = Staged(reset = Len(DhcpPlan), upset.reset)
      BY <3>2, ZenonT(30) DEF ResetStep
    <3>4. reset = Len(DhcpPlan)
      BY <1>1, <1>5
    <3>5. Staged(reset = Len(DhcpPlan), upset.reset) = Staged(TRUE, upset.reset)
      BY <3>4, ZenonT(30) DEF Staged
    <3> QED
      BY <1>5, <3>1, <3>3, <3>5, ZenonT(30)
  <2>2. /\ uci' \in Configs /\ uci'.saved = uci.saved /\ uci'.inforce = uci.inforce
        /\ uci'.staged["addr"] = "none"
        /\ \A k \in Key : k # "addr" => uci'.staged[k] = uci.staged[k]
    <3>1. DhcpPlan[2].key = "addr" /\ DhcpPlan[2].val = "none"
      BY <1>1, Keys, StepFields
    <3> QED
      BY <1>2, <2>1, <3>1, Keys, StagedSettings
  <2>3. WorkerInv'
    BY <1>2, <2>2, ResetLeavesWorker
  <2>4. ResetInv'
    BY <1>2, <1>5, <2>1, <2>2 DEF NetInv, ResetInv, Running
  <2>5. ~upset.reset => Whole(uci'.staged)
    BY <1>5, <2>2, Keys DEF NetInv, ResetInv, Whole
  <2>6. EthernetIsWhole'
    BY <2>1, <2>2, <2>5, WholeStaged DEF NetInv
  <2> QED
    BY <1>3, <2>2, <2>3, <2>4, <2>6 DEF NetInv
<1>6. CASE reset = 3
  <2>1. /\ reset' = 4 /\ uci' = [uci EXCEPT !.saved = uci.staged]
        /\ doubt' = Passed("staged", "saved")
    BY <1>1, <1>2, <1>6 DEF ResetStep, Commit
  <2>2. /\ uci' \in Configs /\ uci'.saved = uci.staged /\ uci'.inforce = uci.inforce
        /\ uci'.staged = uci.staged
    BY <1>2, <2>1 DEF Configs
  <2>3. WorkerInv'
    BY <1>2, <2>2, OthersLeaveWorker
  <2>4. ResetInv'
    BY <1>2, <1>6, <2>1, <2>2 DEF NetInv, ResetInv, Running
  <2>5. EthernetIsWhole'
    BY <2>1, <2>2, WholePasses DEF NetInv
  <2> QED
    BY <1>3, <2>2, <2>3, <2>4, <2>5 DEF NetInv
<1>7. CASE reset = 4
  <2>1. reset' = 0 /\ uci' = Restart("reset") /\ doubt' = Passed("saved", "inforce")
    BY <1>1, <1>2, <1>7 DEF ResetStep
  <2>2. /\ uci' \in Configs /\ uci'.saved = uci.saved /\ uci'.staged = uci.staged
        /\ \A k \in Key : uci'.inforce[k] = uci.saved[k]
    BY <1>2, <2>1, RestartedSettings
  <2>3. WorkerInv'
    BY <1>2, <2>2, OthersLeaveWorker
  <2>4. ResetInv'
    BY <2>1 DEF ResetInv
  <2>5. Whole(uci'.inforce) <=> Whole(uci.saved)
    BY <2>2, Keys, SameWhole
  <2>6. EthernetIsWhole'
    BY <2>1, <2>2, <2>5, WholePasses DEF NetInv
  <2> QED
    BY <1>3, <2>2, <2>3, <2>4, <2>6 DEF NetInv
<1> QED
  BY <1>2, <1>4, <1>5, <1>6, <1>7

\* A command of the reset that fails disturbs it.
LEMMA ResetMissesInv ==
  ASSUME NetInv, ResetMisses
  PROVE  NetInv'
<1>1. Len(DhcpPlan) = 2
  BY DEF DhcpPlan
<1>2. /\ reset \in 1..4 /\ UNCHANGED <<uci, worker>> /\ doubt \subseteq doubt'
      /\ reset' = (IF reset = 4 THEN 0 ELSE reset + 1)
      /\ upset' = [upset EXCEPT !.reset = TRUE]
  BY <1>1 DEF ResetMisses, ResetGoesOn, NetInv, NetTypeOK
<1>3. upset' \in [worker : BOOLEAN, reset : BOOLEAN] /\ upset'.reset
      /\ upset'.worker = upset.worker
  BY <1>2 DEF NetInv, NetTypeOK
<1>4. reset' \in 0..4
  BY <1>2
<1>5. NetTypeOK' /\ WorkerInv'
  BY <1>2, <1>3, <1>4 DEF NetInv, NetTypeOK, WorkerInv, Running
<1>6. ResetInv'
  BY <1>2, <1>3 DEF NetInv, ResetInv, Running
<1> QED
  BY <1>2, <1>5, <1>6 DEF NetInv, EthernetIsWhole

\* A rename that writes the ssid disturbs a wireless import and no other plan.
LEMMA RenameSetsInv ==
  ASSUME NetInv, RenameSets
  PROVE  NetInv'
<1> DEFINE w == upset.worker \/ (worker.kind = "wifi" /\ uci' # uci)
<1>1. /\ UNCHANGED <<worker, reset, doubt>> /\ upset' = [upset EXCEPT !.worker = w]
      /\ uci' = uci \/ uci' = StageStep(Set("ssid", "name"))
  BY DEF RenameSets
<1>2. w \in BOOLEAN /\ (upset.worker => w) /\ (worker.kind = "wifi" /\ uci' # uci => w)
  BY DEF NetInv, NetTypeOK
<1> HIDE DEF w
<1>3. /\ upset' \in [worker : BOOLEAN, reset : BOOLEAN]
      /\ upset'.worker = w /\ upset'.reset = upset.reset
  BY <1>1, <1>2 DEF NetInv, NetTypeOK
<1>4. /\ uci' \in Configs /\ uci'.saved = uci.saved /\ uci'.inforce = uci.inforce
      /\ \A k \in Key : k # "ssid" => uci'.staged[k] = uci.staged[k]
  <2>1. uci \in Configs
    BY DEF NetInv, NetTypeOK
  <2>2. CASE uci' = uci
    BY <2>1, <2>2
  <2>3. CASE uci' = StageStep(Set("ssid", "name"))
    <3>1. Set("ssid", "name").key = "ssid" /\ Set("ssid", "name").val = "name"
      BY Keys, StepFields
    <3> QED
      BY <2>1, <2>3, <3>1, Keys, StagedSettings
  <2> QED
    BY <1>1, <2>2, <2>3
<1>5. NetTypeOK'
  BY <1>1, <1>3, <1>4 DEF NetInv, NetTypeOK, Running
<1>6. WorkerInv'
  <2> SUFFICES ASSUME Running, worker.ok, ~w
               PROVE  Progress(uci', worker.plan, worker.at)
    BY <1>1, <1>3 DEF WorkerInv, Running
  <2>1. Progress(uci, worker.plan, worker.at) /\ PlanOK(worker.kind, worker.plan)
    BY <1>2 DEF NetInv, NetTypeOK, WorkerInv, WorkerOK
  <2>2. CASE uci' = uci
    BY <2>1, <2>2
  <2>3. CASE uci' # uci
    <3>1. worker.kind # "wifi"
      BY <1>2, <2>3
    <3>2. \A i \in 1..Len(worker.plan) :
            worker.plan[i].key \in Key /\ worker.plan[i].key # "ssid"
      BY <2>1, <3>1, StepOfPlan DEF PlanOK
    <3> QED
      BY <1>4, <2>1, <3>2 DEF Progress
  <2> QED
    BY <2>2, <2>3
<1>7. ResetInv'
  BY <1>1, <1>2, <1>3, <1>4, Keys DEF NetInv, ResetInv, Running
<1>8. Whole(uci'.staged) <=> Whole(uci.staged)
  BY <1>4, Keys, SameWhole
<1>9. EthernetIsWhole'
  BY <1>1, <1>4, <1>8 DEF NetInv, EthernetIsWhole
<1> QED
  BY <1>5, <1>6, <1>7, <1>9 DEF NetInv

\* The commits of a rename save what others staged, with its doubt.
LEMMA RenameCommitsInv ==
  ASSUME NetInv, RenameCommits
  PROVE  NetInv'
<1> DEFINE keys == IF rename = 1 THEN Wired ELSE Key \ Wired
<1>1. UNCHANGED <<worker, reset, upset>> /\ uci' = CommitOf(keys)
  BY DEF RenameCommits
<1>2. /\ uci' \in Configs /\ uci'.staged = uci.staged /\ uci'.inforce = uci.inforce
      /\ \A k \in Key : uci'.saved[k] = IF k \in keys THEN uci.staged[k] ELSE uci.saved[k]
  BY <1>1, CommittedSettings DEF NetInv, NetTypeOK
<1>3. NetTypeOK' /\ ResetInv'
  BY <1>1, <1>2 DEF NetInv, NetTypeOK, ResetInv, Running
<1>4. WorkerInv'
  BY <1>1, <1>2, OthersLeaveWorker
<1>5. EthernetIsWhole'
  <2>1. CASE rename = 1
    <3>1. doubt' = Passed("staged", "saved")
      BY <2>1 DEF RenameCommits
    <3>2. Whole(uci'.saved) <=> Whole(uci.staged)
      BY <1>2, <2>1, Keys, SameWhole
    <3> QED
      BY <1>2, <3>1, <3>2, WholePasses DEF NetInv
  <2>2. CASE rename # 1
    <3>1. doubt' = doubt
      BY <2>2 DEF RenameCommits
    <3>2. Whole(uci'.saved) <=> Whole(uci.saved)
      BY <1>2, <2>2, Keys, SameWhole
    <3> QED
      BY <1>2, <3>1, <3>2 DEF NetInv, EthernetIsWhole
  <2> QED
    BY <2>1, <2>2
<1> QED
  BY <1>3, <1>4, <1>5 DEF NetInv

\* A reboot brings what is saved into force, with its doubt.
LEMMA RebootsInv ==
  ASSUME NetInv, Reboots
  PROVE  NetInv'
<1>1. /\ uci' = [staged |-> uci.saved, saved |-> uci.saved, inforce |-> uci.saved]
      /\ doubt' = IF "saved" \in doubt THEN {"staged", "saved", "inforce"} ELSE {}
      /\ upset' = [worker |-> FALSE, reset |-> FALSE] /\ ~Running' /\ reset' = 0
  BY DEF Reboots, Running
<1>2. /\ uci' \in Configs /\ uci'["staged"] = uci["saved"] /\ uci'["saved"] = uci["saved"]
      /\ uci'["inforce"] = uci["saved"]
  BY <1>1 DEF NetInv, NetTypeOK, Configs
<1>3. NetTypeOK' /\ WorkerInv' /\ ResetInv'
  BY <1>1, <1>2 DEF NetTypeOK, WorkerInv, ResetInv
<1>4. EthernetIsWhole'
  BY <1>1, <1>2 DEF NetInv, EthernetIsWhole
<1> QED
  BY <1>3, <1>4 DEF NetInv

\* Every step of the screen, the worker, the reset, the rename and the advertiser keeps the
\* invariant.
LEMMA NetInvNext ==
  ASSUME NetInv, [NetNext]_netVars
  PROVE  NetInv'
<1>1. CASE UNCHANGED <<uci, worker, reset, upset, doubt>>
  BY <1>1 DEF NetInv, NetTypeOK, WorkerInv, ResetInv, EthernetIsWhole, Running
<1>2. CASE reset = 0 /\ NetTap
  BY <1>2, PlansAreOK, StartsInv, ResetEthCbInv
  DEF NetTap, ImportWifiCb, ImportEthCb, EthPlan, WifiSwitchCb
<1>3. CASE WorkerStep
  BY <1>3, WorkerSetsInv, WorkerCommitsInv, WorkerRestartsInv, WorkerPostsInv,
     WorkerEndsInv
  DEF WorkerStep
<1>4. CASE NetworkCreate \/ PollTimer \/ RenameFails
  BY <1>1, <1>4 DEF NetworkCreate, PollTimer, RenameFails, history
<1>5. CASE UNCHANGED setupVars
  BY <1>1, <1>5 DEF setupVars, history
<1>6. CASE NetTrouble
  BY <1>6, WorkerGivesUpInv, WorkerMissesInv, ResetMissesInv, RenameSetsInv
     DEF NetTrouble
<1> QED
  BY <1>2, <1>3, <1>4, <1>5, <1>6, ResetStepInv, RenameCommitsInv, RebootsInv
  DEF NetNext, netVars, OfSetup, OfAdvertiser

\* EthernetIsWhole for every number of taps, renames, failing commands and reboots: Ethernet
\* settings that mix two plans are only found where half a plan or a disturbed one has
\* reached, and the next undisturbed plan puts them right.
THEOREM EthernetAlwaysWhole == NetSpec => []EthernetIsWhole
<1>1. NetInv => EthernetIsWhole
  BY DEF NetInv
<1> QED
  BY <1>1, NetInvInit, NetInvNext, PTL DEF NetSpec

\* ReportedIsInForce likewise: a success is only posted when every setting of the plan is
\* in force, or the plan was disturbed.
THEOREM ReportedAlwaysInForce == NetSpec => ReportedIsInForce
<1>1. ASSUME NetInv, [NetNext]_netVars
      PROVE  [posted' /\ ~posted /\ worker.ok => Achieved(worker) \/ upset.worker]_netVars
  <2> SUFFICES ASSUME NetNext, posted' /\ ~posted, worker.ok, ~upset.worker
               PROVE  Achieved(worker)
    BY <1>1
  <2>1. WorkerPosts
    BY DEF NetNext, NetTap, ImportWifiCb, ImportEthCb, WifiSwitchCb, Starts, ResetEthCb,
           OfSetup, OfAdvertiser, NetworkCreate, WorkerStep, WorkerSets, WorkerCommits,
           WorkerRestarts, WorkerEnds, WorkerGivesUp, WorkerMisses, ResetMisses,
       RenameSets,
           RenameCommits, RenameFails, Reboots, NetTrouble, NetUnchanged, PollTimer,
           ResetStep, ResetGoesOn, setupVars
  <2>2. Running /\ worker.at = Len(worker.plan) + 3 /\ WorkerOK(worker)
    BY <1>1, <2>1 DEF WorkerPosts, NetInv, NetTypeOK, Plan
  <2>3. Len(worker.plan) \in Nat /\ DOMAIN worker.plan = 1..Len(worker.plan)
    BY <2>2 DEF WorkerOK, PlanOK
  <2>4. Progress(uci, worker.plan, worker.at)
    BY <1>1, <2>2 DEF NetInv, WorkerInv
  <2> QED
    BY <2>2, <2>3, <2>4 DEF Achieved, Progress
<1> QED
  BY <1>1, NetInvInit, NetInvNext, PTL DEF NetSpec, ReportedIsInForce
=============================================================================
