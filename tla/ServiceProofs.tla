---------------------------- MODULE ServiceProofs ----------------------------
(***************************************************************************)
(* Proofs about Service: what install and uninstall report is true, for    *)
(* any configurations, any number of invocations, and with a crash, a      *)
(* reboot or a failing call at any point.                                  *)
(***************************************************************************)
EXTENDS Service, TLAPS

-----------------------------------------------------------------------------
(* The inductive invariant *)

Stages == {"idle", "begin", "probe", "stop", "delete", "create", "report"}
Targets == [scope : Scopes, mode : {"swept", "requested"}]
Removals == [scope : Scopes, found : BOOLEAN, unknown : BOOLEAN,
             removed : BOOLEAN, indeterminate : BOOLEAN]

StateType ==
    /\ supports_user \in BOOLEAN /\ managed \in SUBSET Scopes
    /\ registered \in [Domains -> SUBSET SUBSET Knobs]
    /\ cli \in [at : Stages, op : Ops, root : BOOLEAN, choice : ScopeChoices,
                config : SUBSET Knobs]
    /\ todo \in Seq(Targets) /\ removal \in Removals /\ done \in Seq(Removals)
    /\ report \in [op : Ops, result : {"none", "refused", "failed", "ok", "warned",
                                       "incomplete", "not_found"}]

Removing == cli.at \in {"probe", "stop", "delete"}

\* Which process can be at which stage, and with what right.
StageShape ==
    /\ Removing => cli.op \in {"install", "uninstall"} /\ todo # <<>>
    /\ cli.at = "create" => cli.op = "install"
    /\ cli.at = "report" => cli.op = "uninstall"
    /\ cli.op = "install" /\ (Removing \/ cli.at = "create") =>
          Resolved \in managed /\ MayWrite(Resolved)
    /\ cli.at = "begin" => done = <<>>
    /\ cli.at # "idle" => report.result = "none"
    /\ report.op = cli.op
    /\ \A d \in Domains : registered[d] # {} => ScopeOf(d) \in managed

\* The scopes from which a process has to remove registrations.
Cleared ==
    IF cli.op = "install" THEN {s \in Scopes : s # Resolved /\ supports_user}
    ELSE IF supports_user /\ cli.choice = "auto" THEN Scopes ELSE {Resolved}

DoneScopes == {done[k].scope : k \in 1..Len(done)}
TodoScopes == {todo[k].scope : k \in 1..Len(todo)}

\* The scopes left to do and those done are the scopes to clear.
Progress ==
    /\ Removing => TodoScopes \cup DoneScopes = Cleared
    /\ cli.at \in {"stop", "delete"} => removal.scope = todo[1].scope /\ ~removal.removed
    /\ cli.at \in {"create", "report"} => DoneScopes = Cleared

\* A removal with nothing to report has left no registration behind.
Clean(r) == r.removed \/ (~r.found /\ ~r.indeterminate)

Knowledge ==
    /\ Removing \/ cli.at \in {"create", "report"} =>
          \A k \in 1..Len(done) : Clean(done[k]) => registered[Domain(done[k].scope)] = {}
    /\ cli.at \in {"stop", "delete"} /\ ~removal.found /\ ~removal.unknown =>
          registered[Domain(removal.scope)] = {}

SInv ==
    /\ StateType /\ StageShape /\ Progress /\ Knowledge
    /\ UninstallTellsTruth /\ InstallTellsTruth
    /\ RefusedInstallHarmless /\ OnlyAddressedChange

-----------------------------------------------------------------------------
(* Steps *)

\* Every step but an invocation is one of the same process, or of none.
SameCaller ==
    /\ UNCHANGED <<supports_user, managed>>
    /\ cli' \in [at : Stages, op : Ops, root : BOOLEAN, choice : ScopeChoices,
                 config : SUBSET Knobs]
    /\ cli'.op = cli.op /\ cli'.root = cli.root
    /\ cli'.choice = cli.choice /\ cli'.config = cli.config

\* The actions, flattened; those that only end a process or touch what runs
\* are kept together.
LEMMA NextCases ==
    ASSUME [ServiceNext]_serviceVars
    PROVE  \/ \E op \in Ops, root \in BOOLEAN, choice \in ScopeChoices, config \in Configs :
                 Invoke(op, root, choice, config)
           \/ InstallBegin \/ UninstallBegin \/ Probe \/ StopForRemoval
           \/ DeleteForRemoval \/ Create \/ UninstallOutcome
           \/ StartService \/ StopService \/ Killed \/ Reboot
           \/ \E d \in Domains : AutoStart(d)
           \/ UNCHANGED serviceVars
BY DEF ServiceNext

\* A step to another stage is one of the same process.
LEMMA GotoSame ==
    ASSUME StateType, UNCHANGED os, NEW at \in Stages, Goto(at)
    PROVE  SameCaller /\ cli'.at = at
BY DEF StateType, Goto, SameCaller, os

\* A report ends the process that makes it.
LEMMA ReportSame ==
    ASSUME StateType, UNCHANGED os, NEW result, Report(result)
    PROVE  SameCaller /\ cli'.at = "idle"
BY Zenon DEF StateType, Report, SameCaller, os, Stages

\* The domains a process means depend on its caller and the OS alone.
LEMMA ScopesStay ==
    ASSUME SameCaller
    PROVE  /\ Resolved' = Resolved /\ Addressed' = Addressed /\ Cleared' = Cleared
           /\ \A s \in Scopes : Domain(s)' = Domain(s) /\ MayWrite(s)' = MayWrite(s)
<1>1. Resolved' = Resolved
  BY DEF SameCaller, Resolved
<1>2. \A s \in Scopes : Domain(s)' = Domain(s) /\ MayWrite(s)' = MayWrite(s)
  BY DEF SameCaller, Domain, MayWrite
<1>3. Cleared' = Cleared
  BY <1>1 DEF SameCaller, Cleared
<1>4. Addressed' = Addressed
  BY <1>1, <1>2 DEF SameCaller, Addressed, Domain
<1> QED  BY <1>1, <1>2, <1>3, <1>4

\* resolve_scope gives one of two scopes, which address different domains.
LEMMA ScopeFacts ==
    ASSUME StateType
    PROVE  /\ Resolved \in Scopes /\ OtherScope(Resolved) \in Scopes \ {Resolved}
           /\ \A s \in Scopes : Domain(s) \in Domains
           /\ \A s, t \in Scopes : Domain(s) = Domain(t) => s = t
           /\ Addressed = {Domain(s) : s \in
                 IF cli.op \in {"install", "uninstall"}
                 THEN Cleared \cup {Resolved} ELSE {Resolved}}
<1>1. Resolved \in Scopes /\ (~supports_user => Resolved = "system")
  BY DEF StateType, Resolved, ScopeChoices, Scopes
<1>2. OtherScope(Resolved) \in Scopes \ {Resolved} /\ Scopes = {Resolved, OtherScope(Resolved)}
  BY <1>1 DEF OtherScope, Scopes
<1>3. /\ \A s \in Scopes : Domain(s) \in Domains
      /\ \A s, t \in Scopes : Domain(s) = Domain(t) => s = t
  BY DEF Domain, Domains, Scopes
<1>4. Addressed = {Domain(s) : s \in
                 IF cli.op \in {"install", "uninstall"}
                 THEN Cleared \cup {Resolved} ELSE {Resolved}}
  <2>1. (IF cli.op = "install" \/ (cli.op = "uninstall" /\ cli.choice = "auto")
         THEN IF supports_user THEN Scopes ELSE {"system"} ELSE {Resolved})
        = (IF cli.op \in {"install", "uninstall"} THEN Cleared \cup {Resolved} ELSE {Resolved})
    BY <1>1, <1>2, Zenon DEF Cleared, StateType
  <2> QED  BY <2>1, Zenon DEF Addressed
<1> QED  BY <1>1, <1>2, <1>3, <1>4

\* uninstall_scopes lists the scopes to clear, and at least one.
LEMMA UninstallScopesFacts ==
    ASSUME StateType, cli.op = "uninstall"
    PROVE  /\ UninstallScopes \in Seq(Scopes) /\ UninstallScopes # <<>>
           /\ {UninstallScopes[k] : k \in DOMAIN UninstallScopes} = Cleared
<1>1. /\ Resolved \in Scopes /\ OtherScope(Resolved) \in Scopes
      /\ Scopes = {Resolved, OtherScope(Resolved)}
  BY ScopeFacts DEF Scopes
<1>2. CASE ~supports_user \/ cli.choice # "auto"
  <2>1. UninstallScopes = <<Resolved>> /\ Cleared = {Resolved}
    BY <1>2 DEF UninstallScopes, Cleared
  <2> QED  BY <1>1, <2>1
<1>3. CASE ~(~supports_user \/ cli.choice # "auto")
  <2>1. UninstallScopes = <<Resolved, OtherScope(Resolved)>> /\ Cleared = Scopes
    BY <1>3 DEF UninstallScopes, Cleared
  <2> QED  BY <1>1, <2>1
<1> QED  BY <1>2, <1>3

\* What the end of a removal does to the lists.
LEMMA RemovalEnds ==
    ASSUME StateType, todo # <<>>, UNCHANGED os,
           NEW r \in Removals, r.scope = todo[1].scope, FinishRemoval(r)
    PROVE  /\ SameCaller /\ UNCHANGED report
           /\ todo' \in Seq(Targets) /\ done' \in Seq(Removals) /\ removal' \in Removals
           /\ cli'.at \in {"probe", "create", "report"}
           /\ cli'.at = "probe" <=> todo' # <<>>
           /\ cli'.at = "create" => cli.op = "install"
           /\ cli'.at = "report" => cli.op # "install"
           /\ TodoScopes' \cup DoneScopes' = TodoScopes \cup DoneScopes
           /\ todo' = <<>> => TodoScopes' = {}
           /\ Len(done') = Len(done) + 1
           /\ \A k \in 1..Len(done) : done'[k] = done[k]
           /\ done'[Len(done) + 1] = r
<1>1. Goto(IF Len(todo) > 1 THEN "probe" ELSE IF cli.op = "install" THEN "create" ELSE "report")
  BY DEF FinishRemoval
<1>2. SameCaller /\ cli'.at = IF Len(todo) > 1 THEN "probe"
                             ELSE IF cli.op = "install" THEN "create" ELSE "report"
  BY <1>1, GotoSame DEF Stages
<1>3. /\ todo \in Seq(Targets) /\ done \in Seq(Removals)
      /\ todo' = Tail(todo) /\ done' = Append(done, r) /\ removal' = NoRemoval
      /\ UNCHANGED report
  BY <1>1 DEF FinishRemoval, StateType, Goto
<1>4. /\ todo' \in Seq(Targets) /\ Len(todo) \in Nat \ {0} /\ Len(todo') = Len(todo) - 1
      /\ \A k \in 1..Len(todo') : todo'[k] = todo[k + 1]
  BY <1>3
<1>5. /\ done' \in Seq(Removals) /\ Len(done) \in Nat /\ Len(done') = Len(done) + 1
      /\ \A k \in 1..Len(done) : done'[k] = done[k]
      /\ done'[Len(done) + 1] = r
  BY <1>3
<1>6. TodoScopes = TodoScopes' \cup {r.scope}
  <2>1. ASSUME NEW k \in 1..Len(todo), k # 1
        PROVE  todo[k].scope \in TodoScopes'
    <3>1. k - 1 \in 1..Len(todo') /\ todo'[k - 1] = todo[k]
      BY <1>4, <2>1
    <3> QED  BY <3>1 DEF TodoScopes
  <2>2. ASSUME NEW k \in 1..Len(todo')
        PROVE  todo'[k].scope \in TodoScopes
    <3>1. k + 1 \in 1..Len(todo) /\ todo'[k] = todo[k + 1]
      BY <1>4
    <3> QED  BY <3>1, Zenon DEF TodoScopes
  <2>3. 1 \in 1..Len(todo) /\ r.scope \in TodoScopes
    BY <1>4 DEF TodoScopes
  <2>4. TodoScopes \subseteq TodoScopes' \cup {r.scope}
    BY <2>1 DEF TodoScopes
  <2>5. TodoScopes' \subseteq TodoScopes
    BY <2>2 DEF TodoScopes
  <2> QED  BY <2>3, <2>4, <2>5
<1>7. DoneScopes' = DoneScopes \cup {r.scope}
  BY <1>5 DEF DoneScopes
<1>8. (todo' # <<>> <=> Len(todo) > 1) /\ (todo' = <<>> => TodoScopes' = {})
  BY <1>4 DEF TodoScopes
<1>9. removal' \in Removals
  BY <1>3 DEF NoRemoval, Removals, Scopes
<1> QED  BY <1>2, <1>3, <1>4, <1>5, <1>6, <1>7, <1>8, <1>9

-----------------------------------------------------------------------------
(* Preservation *)

\* A process exits, killed or with a report that promises nothing, or the host
\* reboots: no registration changes.
LEMMA Exits ==
    ASSUME SInv, SameCaller, cli'.at = "idle",
           UNCHANGED <<registered, todo, removal, done, before>>,
           \/ UNCHANGED report
           \/ /\ report' \in [op : {cli.op}, result : {"refused", "failed", "ok"}]
              /\ report'.result = "ok" => cli.op \in {"start", "stop"}
    PROVE  SInv'
<1>1. /\ StateType /\ StageShape /\ OnlyAddressedChange /\ RefusedInstallHarmless
      /\ UninstallTellsTruth /\ InstallTellsTruth
  BY DEF SInv
<1>2. /\ Resolved' = Resolved /\ Addressed' = Addressed
      /\ \A s \in Scopes : Domain(s)' = Domain(s) /\ MayWrite(s)' = MayWrite(s)
      /\ Resolved \in Scopes
  BY <1>1, ScopesStay, ScopeFacts
<1>3. StateType'
  BY <1>1 DEF StateType, SameCaller
<1>4. StageShape' /\ Progress' /\ Knowledge'
  BY <1>1 DEF StageShape, Progress, Knowledge, SameCaller, Removing, StateType
<1>5. RefusedInstallHarmless' /\ OnlyAddressedChange'
  BY <1>1, <1>2 DEF SameCaller, RefusedInstallHarmless, OnlyAddressedChange, MayWrite
<1>6. /\ Reported("uninstall", {"ok", "not_found"})' => Reported("uninstall", {"ok", "not_found"})
      /\ Reported("install", {"ok"})' => Reported("install", {"ok"})
  BY <1>1 DEF Reported, StageShape, StateType
<1>7. UninstallTellsTruth'
  BY <1>1, <1>2, <1>6 DEF UninstallTellsTruth
<1>8. InstallTellsTruth'
  BY <1>1, <1>2, <1>6 DEF InstallTellsTruth, SameCaller, Domain
<1> QED  BY <1>3, <1>4, <1>5, <1>7, <1>8 DEF SInv

\* What a removal in progress works on is a domain the process was asked about.
LEMMA TodoAddressed ==
    ASSUME SInv, Removing
    PROVE  /\ 1 \in 1..Len(todo) /\ todo[1] \in Targets /\ todo[1] = Head(todo)
           /\ todo[1].scope \in Cleared /\ Domain(todo[1].scope) \in Addressed
<1>1. StateType /\ todo # <<>> /\ cli.op \in {"install", "uninstall"}
  BY DEF SInv, StageShape
<1>2. todo \in Seq(Targets) /\ Len(todo) \in Nat /\ Len(todo) # 0
  BY <1>1 DEF StateType
<1>3. 1 \in 1..Len(todo) /\ todo[1] \in Targets /\ todo[1] = Head(todo)
  BY <1>2
<1>4. todo[1].scope \in TodoScopes
  BY <1>3 DEF TodoScopes
<1>5. todo[1].scope \in Cleared
  BY <1>4 DEF SInv, Progress
<1> QED  BY <1>1, <1>3, <1>5, ScopeFacts

\* A removal ends.  It counts as clean only when the domain is empty, and that
\* is all it can have changed.
LEMMA RemovalKeeps ==
    ASSUME SInv, Removing, UNCHANGED os, UNCHANGED before,
           NEW r \in Removals, r.scope = todo[1].scope, FinishRemoval(r),
           \/ registered' = registered
           \/ registered' = [registered EXCEPT ![Domain(r.scope)] = {}],
           Clean(r) => registered'[Domain(r.scope)] = {}
    PROVE  SInv'
<1>1. StateType /\ StageShape /\ Progress /\ Knowledge /\ OnlyAddressedChange
  BY DEF SInv
<1>2. /\ SameCaller /\ UNCHANGED report
      /\ todo' \in Seq(Targets) /\ done' \in Seq(Removals) /\ removal' \in Removals
      /\ cli'.at \in {"probe", "create", "report"}
      /\ cli'.at = "probe" <=> todo' # <<>>
      /\ cli'.at = "create" => cli.op = "install"
      /\ cli'.at = "report" => cli.op # "install"
      /\ TodoScopes' \cup DoneScopes' = TodoScopes \cup DoneScopes
      /\ todo' = <<>> => TodoScopes' = {}
      /\ Len(done') = Len(done) + 1
      /\ \A k \in 1..Len(done) : done'[k] = done[k]
      /\ done'[Len(done) + 1] = r
  BY <1>1, RemovalEnds, Zenon DEF StageShape
<1>3. /\ Resolved' = Resolved /\ Addressed' = Addressed /\ Cleared' = Cleared
      /\ Resolved \in Scopes /\ r.scope \in Scopes
      /\ \A s \in Scopes : Domain(s) \in Domains
  BY <1>1, <1>2, ScopesStay, ScopeFacts DEF Removals
<1>4. Domain(r.scope) \in Addressed
  BY TodoAddressed
<1>5. /\ registered' \in [Domains -> SUBSET SUBSET Knobs]
      /\ \A d \in Domains : registered'[d] = registered[d] \/ registered'[d] = {}
      /\ \A d \in Domains : d # Domain(r.scope) => registered'[d] = registered[d]
  BY <1>1, <1>3 DEF StateType
<1>6. StateType'
  BY <1>1, <1>2, <1>5 DEF StateType, SameCaller
<1>7. StageShape'
  <2>1. /\ cli.op = "install" => Resolved \in managed /\ MayWrite(Resolved)
        /\ cli.op \in {"install", "uninstall"}
    BY <1>1 DEF StageShape
  <2>2. (MayWrite(Resolved) /\ Resolved \in managed) => (MayWrite(Resolved) /\ Resolved \in managed)'
    BY <1>2, <1>3 DEF MayWrite, SameCaller
  <2>3. \A d \in Domains : registered'[d] # {} => ScopeOf(d) \in managed'
    BY <1>1, <1>2, <1>5 DEF StageShape, SameCaller
  <2>4. report'.result = "none" /\ report'.op = cli'.op
    BY <1>1, <1>2 DEF StageShape, SameCaller, Removing
  <2> QED  BY <1>2, <2>1, <2>2, <2>3, <2>4 DEF StageShape, SameCaller, Removing
<1>8. Progress'
  BY <1>1, <1>2, <1>3, Zenon DEF Progress, Removing
<1>9. Knowledge'
  <2>1. ASSUME NEW k \in 1..Len(done'), Clean(done'[k])
        PROVE  registered'[Domain(done'[k].scope)] = {}
    <3>1. CASE k = Len(done) + 1
      BY <1>2, <2>1, <3>1
    <3>2. CASE k # Len(done) + 1
      <4>1. k \in 1..Len(done) /\ done[k] \in Removals /\ done'[k] = done[k]
        BY <1>1, <1>2, <3>2 DEF StateType
      <4>2. registered[Domain(done[k].scope)] = {}
        BY <1>1, <2>1, <4>1, Zenon DEF Knowledge
      <4> QED  BY <1>3, <1>5, <4>1, <4>2 DEF Removals
    <3> QED  BY <3>1, <3>2
  <2> QED  BY <1>2, <2>1 DEF Knowledge, Domain, Clean, SameCaller
<1>10. OnlyAddressedChange'
  BY <1>1, <1>3, <1>4, <1>5 DEF OnlyAddressedChange
<1>11. UninstallTellsTruth' /\ InstallTellsTruth'
  BY <1>2 DEF UninstallTellsTruth, InstallTellsTruth, Reported
<1>12. RefusedInstallHarmless'
  BY <1>1, <1>2, <1>3 DEF RefusedInstallHarmless, StageShape, SameCaller, MayWrite
<1> QED  BY <1>6, <1>7, <1>8, <1>9, <1>10, <1>11, <1>12 DEF SInv

\* A new process: nothing done, nothing reported, nothing changed.
LEMMA InvokeKeeps ==
    ASSUME SInv, NEW op \in Ops, NEW root \in BOOLEAN, NEW choice \in ScopeChoices,
           NEW config \in Configs, Invoke(op, root, choice, config)
    PROVE  SInv'
<1>1. /\ UNCHANGED <<supports_user, managed, registered>>
      /\ cli' = [at |-> "begin", op |-> op, root |-> root, choice |-> choice, config |-> config]
      /\ report' = [op |-> op, result |-> "none"]
      /\ before' = registered /\ todo' = <<>> /\ done' = <<>> /\ removal' = NoRemoval
  BY DEF Invoke, os
<1>2. config \in SUBSET Knobs
  BY ServiceAssumption
<1>3. StateType'
  <2>1. NoRemoval \in Removals
    BY DEF NoRemoval, Removals, Scopes
  <2>2. todo' \in Seq(Targets) /\ done' \in Seq(Removals)
    BY <1>1
  <2>3. /\ cli' \in [at : Stages, op : Ops, root : BOOLEAN, choice : ScopeChoices,
                     config : SUBSET Knobs]
        /\ report' \in [op : Ops, result : {"none", "refused", "failed", "ok", "warned",
                                            "incomplete", "not_found"}]
    BY <1>1, <1>2, SMTT(30) DEF Stages
  <2> QED  BY <1>1, <2>1, <2>2, <2>3 DEF StateType, SInv
<1>4. StageShape' /\ Progress' /\ Knowledge'
  BY <1>1 DEF SInv, StageShape, Progress, Knowledge, Removing
<1>5. UninstallTellsTruth' /\ InstallTellsTruth' /\ RefusedInstallHarmless' /\ OnlyAddressedChange'
  BY <1>1 DEF UninstallTellsTruth, InstallTellsTruth, Reported, RefusedInstallHarmless,
              OnlyAddressedChange
<1> QED  BY <1>3, <1>4, <1>5 DEF SInv

\* A process sets out: what it is to clear is all ahead of it.
LEMMA SetsOut ==
    ASSUME SInv, cli.at = "begin", cli.op \in {"install", "uninstall"},
           NEW at \in {"probe", "create"}, Goto(at),
           cli.op = "install" => Resolved \in managed /\ MayWrite(Resolved),
           at = "probe" <=> todo' # <<>>,
           at = "create" => cli.op = "install",
           todo' \in Seq(Targets), TodoScopes' = Cleared,
           UNCHANGED <<os, registered, removal, done, before>>
    PROVE  SInv'
<1>1. StateType /\ StageShape /\ OnlyAddressedChange /\ done = <<>>
  BY DEF SInv, StageShape
<1>2. SameCaller /\ cli'.at = at /\ UNCHANGED report
  BY <1>1, GotoSame DEF Goto, Stages
<1>3. /\ Resolved' = Resolved /\ Addressed' = Addressed /\ Cleared' = Cleared
      /\ (MayWrite(Resolved)' <=> MayWrite(Resolved))
  BY <1>2, ScopesStay DEF MayWrite, SameCaller
<1>4. StateType'
  BY <1>1, <1>2 DEF StateType, SameCaller
<1>5. StageShape'
  BY <1>1, <1>2, <1>3 DEF StageShape, SameCaller, Removing
<1>6. Progress' /\ Knowledge'
  <2>1. DoneScopes' = {} /\ Len(done') = 0
    BY <1>1 DEF DoneScopes
  <2>2. at = "create" => TodoScopes' = {}
    BY DEF TodoScopes
  <2> QED  BY <1>2, <1>3, <2>1, <2>2 DEF Progress, Knowledge, Removing
<1>7. UninstallTellsTruth' /\ InstallTellsTruth'
  BY <1>2 DEF UninstallTellsTruth, InstallTellsTruth, Reported
<1>8. RefusedInstallHarmless' /\ OnlyAddressedChange'
  BY <1>1, <1>2, <1>3 DEF RefusedInstallHarmless, OnlyAddressedChange, SameCaller
<1> QED  BY <1>4, <1>5, <1>6, <1>7, <1>8 DEF SInv

\* install: privilege and manager are checked before anything is changed.
LEMMA InstallBeginKeeps ==
    ASSUME SInv, InstallBegin
    PROVE  SInv'
<1>1. /\ StateType /\ cli.at = "begin" /\ cli.op = "install"
      /\ UNCHANGED <<os, registered, removal, done, before>>
  BY DEF InstallBegin, SInv
<1>2. CASE UNCHANGED todo /\ (Report("refused") \/ Report("failed"))
  <2>1. SameCaller /\ cli'.at = "idle"
    BY <1>1, <1>2, ReportSame
  <2>2. report' \in [op : {cli.op}, result : {"refused", "failed", "ok"}] /\ report'.result # "ok"
    BY <1>2 DEF Report
  <2> QED  BY <1>1, <1>2, <2>1, <2>2, Exits
<1>3. CASE /\ ~NotElevated /\ Privileged(Resolved) /\ Resolved \in managed
           /\ Goto(IF supports_user THEN "probe" ELSE "create")
           /\ todo' = IF supports_user THEN <<Swept(OtherScope(Resolved))>> ELSE <<>>
  <2>1. MayWrite(Resolved)
    BY <1>3 DEF NotElevated, Privileged, MayWrite
  <2>2. /\ OtherScope(Resolved) \in Scopes /\ OtherScope(Resolved) # Resolved
        /\ Scopes = {Resolved, OtherScope(Resolved)}
    BY <1>1, ScopeFacts DEF Scopes
  <2>3. Swept(OtherScope(Resolved)) \in Targets /\ Swept(OtherScope(Resolved)).scope = OtherScope(Resolved)
    BY <2>2 DEF Swept, Targets
  <2>4. CASE supports_user
    <3>1. todo' = <<Swept(OtherScope(Resolved))>> /\ Goto("probe")
      BY <1>3, <2>4
    <3>2. todo' \in Seq(Targets) /\ Len(todo') = 1 /\ todo'[1].scope = OtherScope(Resolved)
          /\ todo' # <<>>
      BY <2>3, <3>1
    <3>3. TodoScopes' = {OtherScope(Resolved)}
      BY <3>2 DEF TodoScopes
    <3>4. Cleared = {OtherScope(Resolved)}
      BY <1>1, <2>2, <2>4 DEF Cleared
    <3> QED  BY <1>1, <1>3, <2>1, <3>1, <3>2, <3>3, <3>4, SetsOut
  <2>5. CASE ~supports_user
    <3>1. todo' = <<>> /\ Goto("create") /\ todo' \in Seq(Targets)
      BY <1>3, <2>5
    <3>2. TodoScopes' = {} /\ Cleared = {}
      BY <1>1, <2>5, <3>1 DEF TodoScopes, Cleared
    <3> QED  BY <1>1, <1>3, <2>1, <3>1, <3>2, SetsOut, Zenon
  <2> QED  BY <1>1, <2>4, <2>5 DEF StateType
<1> QED  BY <1>2, <1>3 DEF InstallBegin

\* uninstall: every scope to clear is put on the list.
LEMMA UninstallBeginKeeps ==
    ASSUME SInv, UninstallBegin
    PROVE  SInv'
<1>1. /\ StateType /\ cli.at = "begin" /\ cli.op = "uninstall"
      /\ UNCHANGED <<os, registered, removal, done, before>>
  BY DEF UninstallBegin, SInv
<1>2. CASE UNCHANGED todo /\ Report("refused")
  <2>1. SameCaller /\ cli'.at = "idle"
    BY <1>1, <1>2, ReportSame
  <2>2. report' \in [op : {cli.op}, result : {"refused", "failed", "ok"}] /\ report'.result # "ok"
    BY <1>2 DEF Report
  <2> QED  BY <1>1, <1>2, <2>1, <2>2, Exits
<1>3. CASE /\ Goto("probe")
           /\ todo' = [k \in DOMAIN UninstallScopes |->
                        IF k = 1 THEN Requested(UninstallScopes[k]) ELSE Swept(UninstallScopes[k])]
  <2> DEFINE U == UninstallScopes
  <2>1. /\ U \in Seq(Scopes) /\ U # <<>>
        /\ {U[k] : k \in DOMAIN U} = Cleared
    BY <1>1, UninstallScopesFacts
  <2>2. /\ Len(U) \in Nat /\ Len(U) # 0 /\ DOMAIN U = 1..Len(U)
        /\ \A k \in 1..Len(U) : U[k] \in Scopes
    BY <2>1
  <2> HIDE DEF U
  <2>3. /\ DOMAIN todo' = 1..Len(U)
        /\ \A k \in 1..Len(U) : todo'[k] \in Targets /\ todo'[k].scope = U[k]
    BY <1>3, <2>2 DEF Requested, Swept, Targets, U
  <2>4. todo' \in [1..Len(U) -> Targets]
    BY <1>3, <2>2, <2>3 DEF U
  <2>5. todo' \in Seq(Targets)
    BY <2>2, <2>4
  <2>6. Len(todo') = Len(U) /\ todo' # <<>>
    BY <2>2, <2>3, <2>5
  <2>7. TodoScopes' = Cleared
    BY <2>1, <2>2, <2>3, <2>6 DEF TodoScopes
  <2> QED  BY <1>1, <1>3, <2>5, <2>6, <2>7, SetsOut
<1> QED  BY <1>2, <1>3 DEF UninstallBegin

\* A process moves on within a removal.
LEMMA MovesOn ==
    ASSUME SInv, Removing, NEW at \in {"stop", "delete"}, Goto(at),
           UNCHANGED <<os, registered, todo, done, before>>,
           removal' \in Removals, removal'.scope = todo[1].scope, ~removal'.removed,
           ~removal'.found /\ ~removal'.unknown => registered[Domain(todo[1].scope)] = {}
    PROVE  SInv'
<1>1. StateType /\ StageShape /\ Progress /\ Knowledge /\ OnlyAddressedChange
  BY DEF SInv
<1>2. SameCaller /\ cli'.at = at /\ UNCHANGED report
  BY <1>1, GotoSame DEF Goto, Stages
<1>3. /\ Resolved' = Resolved /\ Addressed' = Addressed /\ Cleared' = Cleared
      /\ (MayWrite(Resolved)' <=> MayWrite(Resolved))
  BY <1>2, ScopesStay DEF MayWrite, SameCaller
<1>4. StateType'
  BY <1>1, <1>2 DEF StateType, SameCaller
<1>5. StageShape'
  BY <1>1, <1>2, <1>3, SMTT(30) DEF StageShape, SameCaller, Removing
<1>6. Progress'
  BY <1>1, <1>2, <1>3 DEF Progress, Removing, TodoScopes, DoneScopes
<1>7. Knowledge'
  BY <1>1, <1>2 DEF Knowledge, Removing, Domain, Clean, SameCaller
<1>8. UninstallTellsTruth' /\ InstallTellsTruth'
  BY <1>2 DEF UninstallTellsTruth, InstallTellsTruth, Reported
<1>9. RefusedInstallHarmless' /\ OnlyAddressedChange'
  BY <1>1, <1>2, <1>3 DEF RefusedInstallHarmless, OnlyAddressedChange, StageShape, SameCaller
<1> QED  BY <1>4, <1>5, <1>6, <1>7, <1>8, <1>9 DEF SInv

\* The probe: an answer "absent" is believed, "unknown" is remembered.
LEMMA ProbeKeeps ==
    ASSUME SInv, Probe
    PROVE  SInv'
<1> DEFINE t == Head(todo)
           seen(answer) == [NoRemoval EXCEPT !.scope = t.scope,
                                             !.found = (answer = "present"),
                                             !.unknown = (answer = "unknown")]
           missed == [NoRemoval EXCEPT !.scope = t.scope,
                                       !.indeterminate = (t.mode = "requested")]
<1>1. /\ Removing /\ cli.at = "probe" /\ UNCHANGED <<os, registered, before>>
      /\ t = todo[1] /\ t \in Targets
  BY TodoAddressed, Zenon DEF Probe, Removing
<1>2. StateType /\ StageShape /\ t.scope \in Scopes /\ Domain(t.scope) \in Domains
      /\ t.mode \in {"swept", "requested"}
  BY <1>1, ScopeFacts DEF SInv, Targets
<1>3. \/ t.scope \notin managed /\ FinishRemoval(missed)
      \/ /\ t.scope \in managed
         /\ \E answer \in ProbeAnswers(Domain(t.scope)) :
              \/ \E clean \in Probed(seen(answer), t.mode) : FinishRemoval(clean)
              \/ /\ Probed(seen(answer), t.mode) = {}
                 /\ removal' = seen(answer) /\ Goto("stop")
                 /\ UNCHANGED <<todo, done>>
  BY Zenon DEF Probe
<1> HIDE DEF t
<1>4. NoRemoval \in Removals /\ ~NoRemoval.removed
  BY DEF NoRemoval, Removals, Scopes
<1>5. missed \in Removals /\ missed.scope = t.scope
  BY <1>2, <1>4, Zenon DEF Removals
<1>6. ASSUME NEW answer
      PROVE  /\ seen(answer) \in Removals /\ seen(answer).scope = t.scope
             /\ seen(answer).found = (answer = "present")
             /\ seen(answer).unknown = (answer = "unknown")
             /\ ~seen(answer).removed
  BY <1>2, <1>4, Zenon DEF Removals
<1> HIDE DEF seen, missed
<1>7. CASE t.scope \notin managed /\ FinishRemoval(missed)
  <2>1. registered[Domain(missed.scope)] = {}
    BY <1>2, <1>5, <1>7 DEF StageShape, ScopeOf, Domain, Scopes
  <2> QED  BY <1>1, <1>5, <1>7, <2>1, RemovalKeeps
<1>8. ASSUME t.scope \in managed, NEW answer \in ProbeAnswers(Domain(t.scope)),
             \/ \E clean \in Probed(seen(answer), t.mode) : FinishRemoval(clean)
             \/ /\ Probed(seen(answer), t.mode) = {}
                /\ removal' = seen(answer) /\ Goto("stop")
                /\ UNCHANGED <<todo, done>>
      PROVE  SInv'
  <2> DEFINE r == seen(answer)
  <2>1. ~r.found /\ ~r.unknown => registered[Domain(t.scope)] = {}
    BY <1>6, Zenon DEF ProbeAnswers
  <2>2. CASE removal' = r /\ Goto("stop") /\ UNCHANGED <<todo, done>>
    BY <1>1, <1>6, <2>1, <2>2, MovesOn
  <2>3. ASSUME NEW clean \in Probed(r, t.mode), FinishRemoval(clean)
        PROVE  SInv'
    <3>1. clean = [r EXCEPT !.indeterminate = r.unknown] /\ ~r.found
      BY <2>3 DEF Probed
    <3>2. /\ clean \in Removals /\ clean.scope = t.scope
          /\ Clean(clean) => registered[Domain(clean.scope)] = {}
      BY <1>6, <2>1, <3>1 DEF Removals, Clean
    <3> QED  BY <1>1, <2>3, <3>2, RemovalKeeps
  <2> QED  BY <1>8, <2>2, <2>3
<1> QED  BY <1>3, <1>7, <1>8, SMTT(40)

\* Stopping the service touches no registration.
LEMMA StopForRemovalKeeps ==
    ASSUME SInv, StopForRemoval
    PROVE  SInv'
BY MovesOn, Zenon DEF StopForRemoval, SInv, StateType, Progress, Knowledge, Removing

\* The delete: one that succeeds clears its domain, one that fails may not have.
LEMMA DeleteForRemovalKeeps ==
    ASSUME SInv, DeleteForRemoval
    PROVE  SInv'
<1>1. /\ Removing /\ cli.at = "delete" /\ UNCHANGED <<os, before>>
      /\ removal \in Removals /\ removal.scope = todo[1].scope /\ ~removal.removed
      /\ ~removal.found /\ ~removal.unknown => registered[Domain(removal.scope)] = {}
  BY DEF DeleteForRemoval, SInv, StateType, Progress, Knowledge, Removing
<1>2. Domain(removal.scope) \in Domains /\ DOMAIN registered = Domains
  BY <1>1, ScopeFacts DEF SInv, StateType, Removals
<1>3. CASE /\ registered' = [registered EXCEPT ![Domain(removal.scope)] = {}]
           /\ FinishRemoval([removal EXCEPT !.removed = TRUE])
  <2> DEFINE r == [removal EXCEPT !.removed = TRUE]
  <2>1. r \in Removals /\ r.scope = removal.scope
    BY <1>1, Zenon DEF Removals
  <2>2. registered'[Domain(r.scope)] = {}
    BY <1>2, <1>3, <2>1
  <2>3. FinishRemoval(r)
    BY <1>3
  <2> HIDE DEF r
  <2> QED  BY <1>1, <1>3, <2>1, <2>2, <2>3, RemovalKeeps, Zenon
<1>4. CASE /\ \/ registered' = registered
              \/ registered' = [registered EXCEPT ![Domain(removal.scope)] = {}]
           /\ FinishRemoval([removal EXCEPT !.indeterminate = (removal.unknown \/ removal.found)])
  <2> DEFINE r == [removal EXCEPT !.indeterminate = (removal.unknown \/ removal.found)]
  <2>1. /\ r \in Removals /\ r.scope = removal.scope
        /\ Clean(r) => ~removal.found /\ ~removal.unknown
    BY <1>1 DEF Removals, Clean
  <2>2. Clean(r) => registered'[Domain(r.scope)] = {}
    BY <1>1, <1>2, <1>4, <2>1
  <2>3. FinishRemoval(r)
    BY <1>4
  <2> HIDE DEF r
  <2> QED  BY <1>1, <1>4, <2>1, <2>2, <2>3, RemovalKeeps
<1> QED  BY <1>3, <1>4 DEF DeleteForRemoval

\* What was cleared is clear where every removal was a clean one.
LEMMA AllClean ==
    ASSUME SInv, cli.at \in {"create", "report"}, \A r \in Range(done) : Clean(r)
    PROVE  \A s \in Cleared : registered[Domain(s)] = {}
<1>1. /\ done \in Seq(Removals) /\ DoneScopes = Cleared
      /\ \A k \in 1..Len(done) : Clean(done[k]) => registered[Domain(done[k].scope)] = {}
  BY Zenon DEF SInv, StateType, Progress, Knowledge
<1>2. \A k \in 1..Len(done) : Clean(done[k])
  BY <1>1 DEF Range
<1> QED  BY <1>1, <1>2, Zenon DEF DoneScopes

\* The create, after which install reports what its sweep has found.
LEMMA CreateKeeps ==
    ASSUME SInv, Create
    PROVE  SInv'
<1> DEFINE d == Domain(Resolved)
           result == report'.result
<1>1. /\ StateType /\ StageShape /\ OnlyAddressedChange
      /\ cli.at = "create" /\ cli.op = "install" /\ Resolved \in managed /\ MayWrite(Resolved)
      /\ UNCHANGED <<os, todo, removal, done, before>>
  BY DEF SInv, StageShape, Create
<1>2. /\ SameCaller /\ cli'.at = "idle" /\ report' = [op |-> "install", result |-> result]
      /\ result \in {"warned", "ok", "failed"}
  <2>1. PICK res \in {"warned", "ok", "failed"} : Report(res)
    BY DEF Create
  <2> QED  BY <1>1, <2>1, ReportSame DEF Report
<1>3. registered' = registered \/ registered' = [registered EXCEPT ![d] = {Environment(cli.config)}]
  BY DEF Create
<1>4. /\ result = "ok" => registered' = [registered EXCEPT ![d] = {Environment(cli.config)}]
      /\ result = "ok" => \A r \in Range(done) : Clean(r)
  BY DEF Create, Report, Warned, Clean
<1>5. /\ d \in Domains /\ d \in Addressed /\ Environment(cli.config) \in SUBSET Knobs
      /\ Addressed = {Domain(s) : s \in Cleared \cup {Resolved}}
      /\ \A s \in Scopes : Domain(s) \in Domains
      /\ Cleared \subseteq Scopes
  <2>1. Environment(cli.config) \in SUBSET Knobs
    BY <1>1 DEF StateType, Environment, TlsKnobs, Knobs
  <2>2. Cleared \subseteq Scopes
    BY <1>1 DEF Cleared
  <2> QED  BY <1>1, <2>1, <2>2, ScopeFacts
<1>6. /\ Resolved' = Resolved /\ Addressed' = Addressed /\ Domain(Resolved)' = d
      /\ MayWrite(Resolved)'
  BY <1>1, <1>2, ScopesStay DEF MayWrite, Domain, SameCaller
<1> HIDE DEF d, result
<1>7. StateType'
  <2>1. registered' \in [Domains -> SUBSET SUBSET Knobs]
    BY <1>1, <1>3, <1>5 DEF StateType
  <2>2. report' \in [op : Ops, result : {"none", "refused", "failed", "ok", "warned",
                                        "incomplete", "not_found"}]
    BY <1>2 DEF Ops
  <2> QED  BY <1>1, <1>2, <2>1, <2>2 DEF StateType, SameCaller, os
<1>8. StageShape' /\ Progress' /\ Knowledge'
  <2>1. ASSUME NEW e \in Domains, registered'[e] # {}
        PROVE  ScopeOf(e) \in managed
    <3>1. ScopeOf(d) \in managed
      BY <1>1, ScopeFacts DEF d, ScopeOf, Domain, Scopes
    <3> QED  BY <1>1, <1>3, <2>1, <3>1 DEF StateType, StageShape
  <2> QED  BY <1>1, <1>2, <2>1 DEF StageShape, Progress, Knowledge, Removing, SameCaller
<1>9. InstallTellsTruth'
  <2>1. SUFFICES ASSUME result = "ok"
                 PROVE  /\ registered'[d] = {Environment(cli.config)}
                        /\ \A e \in Addressed \ {d} : registered'[e] = {}
    BY <1>2, <1>6 DEF InstallTellsTruth, Reported, SameCaller
  <2>2. \A s \in Cleared : registered[Domain(s)] = {}
    BY <1>1, <1>4, <2>1, AllClean
  <2>3. \A e \in Addressed \ {d} : registered[e] = {} /\ e \in Domains
    BY <1>5, <2>2 DEF d
  <2>4. DOMAIN registered = Domains
    BY <1>1 DEF StateType
  <2> QED  BY <1>4, <1>5, <2>1, <2>3, <2>4
<1>10. UninstallTellsTruth' /\ RefusedInstallHarmless'
  BY <1>2, <1>6 DEF UninstallTellsTruth, Reported, RefusedInstallHarmless
<1>11. OnlyAddressedChange'
  <2>1. DOMAIN registered = Domains
    BY <1>1 DEF StateType
  <2>2. \A e \in Domains \ Addressed : registered'[e] = registered[e]
    BY <1>3, <1>5, <2>1
  <2> QED  BY <1>1, <1>6, <2>2 DEF OnlyAddressedChange
<1> QED  BY <1>7, <1>8, <1>9, <1>10, <1>11 DEF SInv

\* uninstall_outcome, over the removals of all scopes to clear.
LEMMA UninstallOutcomeKeeps ==
    ASSUME SInv, UninstallOutcome
    PROVE  SInv'
<1> DEFINE result == report'.result
<1>1. /\ StateType /\ StageShape /\ OnlyAddressedChange /\ cli.at = "report" /\ cli.op = "uninstall"
      /\ UNCHANGED <<os, registered, todo, removal, done, before>>
  BY DEF SInv, StageShape, UninstallOutcome
<1>2. /\ SameCaller /\ cli'.at = "idle" /\ report' = [op |-> "uninstall", result |-> result]
      /\ result \in {"incomplete", "ok", "not_found"}
  <2>1. PICK res \in {"incomplete", "ok", "not_found"} : Report(res)
    BY DEF UninstallOutcome
  <2> QED  BY <1>1, <2>1, ReportSame DEF Report
<1>3. result # "incomplete" => \A r \in Range(done) : Clean(r)
  BY DEF UninstallOutcome, Report, Unresolved, Clean
<1>4. Addressed = {Domain(s) : s \in Cleared}
  <2>1. Resolved \in Cleared
    BY <1>1, ScopeFacts DEF Cleared
  <2> QED  BY <1>1, <2>1, ScopeFacts
<1>5. Resolved' = Resolved /\ Addressed' = Addressed
  BY <1>2, ScopesStay
<1> HIDE DEF result
<1>6. StateType'
  <2>1. report' \in [op : Ops, result : {"none", "refused", "failed", "ok", "warned",
                                        "incomplete", "not_found"}]
    BY <1>2 DEF Ops
  <2> QED  BY <1>1, <1>2, <2>1 DEF StateType, SameCaller, os
<1>7. StageShape' /\ Progress' /\ Knowledge'
  BY <1>1, <1>2 DEF StageShape, Progress, Knowledge, Removing, SameCaller
<1>8. UninstallTellsTruth'
  <2>1. SUFFICES ASSUME result # "incomplete"
                 PROVE  \A e \in Addressed : registered[e] = {}
    BY <1>1, <1>2, <1>5 DEF UninstallTellsTruth, Reported
  <2>2. \A s \in Cleared : registered[Domain(s)] = {}
    BY <1>1, <1>3, <2>1, AllClean
  <2> QED  BY <1>4, <2>2
<1>9. InstallTellsTruth' /\ RefusedInstallHarmless' /\ OnlyAddressedChange'
  BY <1>1, <1>2, <1>5 DEF InstallTellsTruth, Reported, RefusedInstallHarmless, SameCaller,
                          OnlyAddressedChange
<1> QED  BY <1>6, <1>7, <1>8, <1>9 DEF SInv

-----------------------------------------------------------------------------
(* The theorems *)

\* The inductive invariant holds of any host before the first command.
LEMMA SInvInit ==
    ASSUME ServiceInit
    PROVE  SInv
<1>1. /\ supports_user \in BOOLEAN /\ managed \in SUBSET Scopes /\ before = registered
      /\ cli = Idle /\ todo = <<>> /\ done = <<>> /\ removal = NoRemoval
      /\ report = [op |-> "stop", result |-> "none"]
      /\ \A d \in Domains : registered[d] # {} => ScopeOf(d) \in managed
  BY DEF ServiceInit
<1>2. registered \in [Domains -> SUBSET SUBSET Knobs]
  <2>1. \A config \in Configs : {Environment(config)} \in SUBSET SUBSET Knobs
    BY ServiceAssumption DEF Environment, TlsKnobs, Knobs
  <2> QED  BY <2>1 DEF ServiceInit
<1>3. StateType
  <2>1. removal \in Removals /\ todo \in Seq(Targets) /\ done \in Seq(Removals)
    BY <1>1 DEF NoRemoval, Removals, Scopes
  <2>2. /\ cli \in [at : Stages, op : Ops, root : BOOLEAN, choice : ScopeChoices,
                    config : SUBSET Knobs]
        /\ report \in [op : Ops, result : {"none", "refused", "failed", "ok", "warned",
                                           "incomplete", "not_found"}]
    BY <1>1 DEF Idle, Stages, Ops, ScopeChoices
  <2> QED  BY <1>1, <1>2, <2>1, <2>2 DEF StateType
<1>4. StageShape /\ Progress /\ Knowledge
  BY <1>1 DEF StageShape, Progress, Knowledge, Removing, Idle
<1>5. UninstallTellsTruth /\ InstallTellsTruth /\ RefusedInstallHarmless /\ OnlyAddressedChange
  BY <1>1 DEF UninstallTellsTruth, InstallTellsTruth, Reported, RefusedInstallHarmless,
              OnlyAddressedChange
<1> QED  BY <1>3, <1>4, <1>5 DEF SInv

\* Every step, a kill and a reboot included, preserves the invariant.
LEMMA ServiceStep ==
    ASSUME SInv, [ServiceNext]_serviceVars
    PROVE  SInv'
<1>1. StateType
  BY DEF SInv
<1>2. CASE StartService \/ StopService
  <2>1. /\ UNCHANGED <<os, registered, todo, removal, done, before>>
        /\ cli.op \in {"start", "stop"}
    BY <1>2 DEF StartService, StopService
  <2>2. PICK res \in {"failed", "ok"} : Report(res)
    BY <1>2 DEF StartService, StopService
  <2>3. /\ SameCaller /\ cli'.at = "idle"
        /\ report' \in [op : {cli.op}, result : {"refused", "failed", "ok"}]
    BY <1>1, <2>1, <2>2, ReportSame DEF Report
  <2> QED  BY <2>1, <2>3, Exits
<1>3. CASE Killed \/ Reboot
  <2>1. /\ UNCHANGED <<os, registered, todo, removal, done, before, report>>
        /\ cli' = [cli EXCEPT !.at = "idle"]
    BY <1>3 DEF Killed, Reboot
  <2>2. SameCaller /\ cli'.at = "idle"
    BY <1>1, <2>1, GotoSame DEF Goto, Stages
  <2> QED  BY <2>1, <2>2, Exits
<1>4. CASE (\E d \in Domains : AutoStart(d)) \/ UNCHANGED serviceVars
  <2>1. UNCHANGED <<supports_user, managed, registered, cli, todo, removal, done, report, before>>
    BY <1>4 DEF AutoStart, serviceVars, os
  <2>2. SameCaller
    BY <1>1, <2>1 DEF SameCaller, StateType
  <2>3. Resolved' = Resolved /\ Addressed' = Addressed /\ Cleared' = Cleared
    BY <2>2, ScopesStay
  <2>4. StateType' /\ (Removing' <=> Removing)
    BY <1>1, <2>1 DEF StateType, Removing
  <2>5. StageShape'
    BY <2>1, <2>3, <2>4 DEF SInv, StageShape, MayWrite
  <2>6. Progress'
    BY <2>1, <2>3, <2>4 DEF SInv, Progress, TodoScopes, DoneScopes
  <2>7. Knowledge'
    BY <2>1, <2>4 DEF SInv, Knowledge, Clean, Domain
  <2>8. UninstallTellsTruth' /\ OnlyAddressedChange'
    BY <2>1, <2>3 DEF SInv, UninstallTellsTruth, OnlyAddressedChange, Reported
  <2>9. InstallTellsTruth' /\ RefusedInstallHarmless'
    BY <2>1, <2>3 DEF SInv, InstallTellsTruth, RefusedInstallHarmless, Reported, Domain, MayWrite
  <2> QED  BY <2>4, <2>5, <2>6, <2>7, <2>8, <2>9 DEF SInv
<1> QED  BY <1>2, <1>3, <1>4, NextCases, InvokeKeeps, InstallBeginKeeps, UninstallBeginKeeps,
            ProbeKeeps, StopForRemovalKeeps, DeleteForRemovalKeeps, CreateKeeps,
            UninstallOutcomeKeeps, Zenon

\* The invariant holds throughout.
LEMMA ServiceInvariant == ServiceSpec => []SInv
<1>1. ServiceInit => SInv
  BY SInvInit
<1>2. SInv /\ [ServiceNext]_serviceVars => SInv'
  BY ServiceStep
<1> QED  BY <1>1, <1>2, PTL DEF ServiceSpec

\* uninstall's "ok" and "not found" (uninstall_outcome) are never said over a
\* registration left in a domain it was asked to clear.
THEOREM UninstallTheorem == ServiceSpec => []UninstallTellsTruth
<1>1. SInv => UninstallTellsTruth
  BY DEF SInv
<1> QED  BY <1>1, ServiceInvariant, PTL

\* install's unqualified success (install_at_scope) means that its own
\* registration stands alone among the caller's scopes.
THEOREM InstallTheorem == ServiceSpec => []InstallTellsTruth
<1>1. SInv => InstallTellsTruth
  BY DEF SInv
<1> QED  BY <1>1, ServiceInvariant, PTL

\* ensure_privilege_for_scope runs before anything is torn down: an install
\* without the right to write its target changes no registration.
THEOREM RefusedTheorem == ServiceSpec => []RefusedInstallHarmless
<1>1. SInv => RefusedInstallHarmless
  BY DEF SInv
<1> QED  BY <1>1, ServiceInvariant, PTL

\* uninstall_scopes and install's sweep reach no domain the caller did not mean.
THEOREM AddressedTheorem == ServiceSpec => []OnlyAddressedChange
<1>1. SInv => OnlyAddressedChange
  BY DEF SInv
<1> QED  BY <1>1, ServiceInvariant, PTL
=============================================================================
