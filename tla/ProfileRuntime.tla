--------------------------- MODULE ProfileRuntime ---------------------------
(***************************************************************************)
(* One profile of CodexManager (src/manager/ProfileRuntime.cpp): the       *)
(* systemd services it starts and stops through a queue of helper          *)
(* commands, the bridge client it keeps as a readiness monitor ("probe"),  *)
(* and the sign-in it performs through that client.  Everything runs on    *)
(* the Qt thread; what interleaves are user requests, the ends of helper   *)
(* commands, the lines the probe prints, its exit and three timers.        *)
(*                                                                         *)
(* The services, the bridge and the app-server behind the probe are the    *)
(* environment.  A command may fail, or do its work and lose the answer (a *)
(* timeout kills the local helper only).  The bridge lets one client at a  *)
(* time hold control; the probe may take it only for a sign-in.            *)
(***************************************************************************)
EXTENDS Naturals, Sequences, FiniteSets

CONSTANTS
    Backends,   \* the backends that the profile starts and stops, in start order
    External,   \* the backends that somebody else starts and stops
    UI          \* the native UI, always owned, started last, stopped first

BackendSet == {Backends[i] : i \in DOMAIN Backends}

ASSUME ProfileAssumption ==
    /\ Backends \in Seq(BackendSet)
    /\ External \cap BackendSet = {}
    /\ UI \notin BackendSet \cup External
    /\ \A i, j \in DOMAIN Backends : Backends[i] = Backends[j] => i = j

Owned == BackendSet \cup {UI}
Components == Owned \cup External
\* ownedComponents() in start order; the UI is the last.
OwnedSeq == Append(Backends, UI)
Position(s, c) == CHOOSE i \in DOMAIN s : s[i] = c

VARIABLES
    rt,         \* the members of ProfileRuntime, a record
    services,   \* which owned units really run
    listening,  \* the UI answers on its activation socket
    fromProbe,  \* lines the probe printed and the manager has not read
    bridge,     \* connection, controller, provider, login flow, account behind the probe
    left        \* how many more user requests and outside events (bounds)

vars == <<rt, services, listening, fromProbe, bridge, left>>

NoOperation == [kind |-> "none"]
NoLogin == [phase |-> "none", kind |-> "none", id |-> 0, completed |-> 0]
Targets == 1 .. 2   \* DeletionPlan::forProfile: the home and the settings
\* why: the continuation that done stands for.
Command(kind, c, why) == [kind |-> kind, on |-> c, why |-> why]
ForEach(kind, why) == [i \in DOMAIN OwnedSeq |-> Command(kind, OwnedSeq[i], why)]
Read == "account/read"
Release == [line |-> "release"]

Fresh == [states |-> [c \in Components |-> IF c \in External THEN "External" ELSE "Unknown"],
          current |-> NoOperation, operations |-> <<>>,
          starting |-> FALSE, stopping |-> FALSE, openRequested |-> FALSE, deletion |-> FALSE,
          finished |-> <<>>,            \* outcomes deletionFinished still has to deliver
          probe |-> "none", out |-> <<>>, \* probe_ and the lines written to it
          ready |-> FALSE, observer |-> FALSE,
          readiness |-> FALSE,          \* readinessTimeout_ is active
          login |-> NoLogin, requests |-> {}, sequence |-> 0,
          account |-> "Unknown",        \* SignedIn: signed in, or no sign-in required
          controller |-> "nobody"]

Init ==
    /\ rt = Fresh
    /\ services = [c \in Owned |-> FALSE]
    /\ listening = FALSE
    /\ fromProbe = <<>>
    /\ bridge = [open |-> FALSE, controller |-> "nobody", provider |-> TRUE, flow |-> 0, signedIn |-> FALSE]

Busy(s) == \/ s.deletion \/ s.login # NoLogin \/ s.starting \/ s.stopping
           \/ s.current # NoOperation \/ s.operations # <<>>
Idle(s) == ~s.starting /\ ~s.stopping /\ s.login = NoLogin /\ ~s.deletion
HasOwnedProcesses(s) == \E c \in Components : s.states[c] \notin {"Inactive", "External"}
User == left.user > 0 /\ left' = [left EXCEPT !.user = @ - 1]
\* Every outside event and every failure not forced by the state uses up one of env.
Charge(event) == IF event THEN left.env > 0 /\ left' = [left EXCEPT !.env = @ - 1]
                 ELSE UNCHANGED left

-----------------------------------------------------------------------------
(* Pieces of handlers, as functions of the runtime's members.              *)

\* enqueue() of one command after the other; the first may run at once (runNext).
Enqueue(s, commands) ==
    LET all == s.operations \o commands
    IN IF s.current = NoOperation /\ commands # <<>>
       THEN [s EXCEPT !.current = Head(all), !.operations = Tail(all)]
       ELSE [s EXCEPT !.operations = all]

Fail(s) == [s EXCEPT !.starting = FALSE, !.openRequested = FALSE]
Mark(s, c, state) == [s EXCEPT !.states[c] = state]
Write(s, line) == IF s.probe = "none" THEN s ELSE [s EXCEPT !.out = Append(@, line)]
GiveBack(s) == IF s.controller = "probe" THEN Write(s, Release) ELSE s

ForgetAccount(s) ==
    [GiveBack(s) EXCEPT !.login = NoLogin, !.requests = {}, !.account = "Unknown", !.controller = "nobody"]

AccountRequest(s, method, extra) ==
    LET id == s.sequence + 1
        asked == [s EXCEPT !.sequence = id, !.requests = @ \cup {[id |-> id, method |-> method]}]
    IN IF s.ready /\ ~s.stopping
       THEN Write(asked, [line |-> "raw", id |-> id, method |-> method, extra |-> extra])
       ELSE s

Asks(s, method) == \E r \in s.requests : r.method = method
RefreshAccount(s) == IF Asks(s, Read) THEN s ELSE AccountRequest(s, Read, 0)
LoginRequests(s) == {r \in s.requests : r.method # Read}
\* Mutant: the sign-in ends and control is kept.
FinishKeepingControl(s) == [s EXCEPT !.login = NoLogin, !.requests = @ \ LoginRequests(s)]
FinishAuthentication(s) == GiveBack([s EXCEPT !.login = NoLogin, !.requests = @ \ LoginRequests(s)])

CancelLogin(s) ==
    IF s.login.id # 0 /\ ~Asks(s, "account/login/cancel")
    THEN AccountRequest([s EXCEPT !.login.phase = "Cancelling"], "account/login/cancel", s.login.id)
    ELSE IF s.login.phase = "Claiming" THEN FinishAuthentication(s)
    ELSE IF s.login.phase = "Starting" THEN [s EXCEPT !.login.phase = "Cancelling"] ELSE s

\* ensureUi(): the activation socket answers at once, or a launch begins.
EnsureUi(s) ==
    IF s.states[UI] = "Starting" THEN s
    ELSE IF listening THEN Mark(s, UI, "Running")
    ELSE Enqueue(Mark(s, UI, "Starting"), <<Command("show", UI, "ui")>>)

UpdateReadiness(s) ==
    LET reached == [s EXCEPT !.readiness = FALSE, !.starting = FALSE]
        opens == s.openRequested /\ s.login = NoLogin /\ s.account # "Unknown"
        opened == [reached EXCEPT !.openRequested = FALSE]
    IN IF ~(s.ready /\ s.observer) THEN s
       ELSE IF ~opens THEN reached
       ELSE IF s.account = "SignedOut" THEN opened ELSE EnsureUi(opened)

BeginProbe(s) ==
    IF s.probe = "none"
    THEN [s EXCEPT !.probe = "running", !.ready = FALSE, !.observer = FALSE, !.readiness = TRUE]
    ELSE IF s.ready /\ s.observer THEN UpdateReadiness(s) ELSE [s EXCEPT !.readiness = TRUE]

\* ensureComponent(index): the next owned backend, or the probe when none is left.  An
\* external one is passed over: its state is External already.
EnsureComponent(s, index) ==
    IF index > Len(Backends) THEN BeginProbe(s)
    ELSE Enqueue(s, <<Command("show", Backends[index], "ensure")>>)

\* stop(): what waits is dropped, the command that runs is not.
StopAll(s) ==
    LET quiet == ForgetAccount([s EXCEPT !.stopping = TRUE, !.starting = FALSE, !.openRequested = FALSE,
                                         !.ready = FALSE, !.operations = <<>>, !.readiness = FALSE])
        told == [Write(quiet, [line |-> "quit"]) EXCEPT !.probe = IF @ = "none" THEN @ ELSE "terminating"]
    IN Enqueue(told, <<Command("show", UI, "stop")>>)

\* Mutant: the runtime stays closed after a deletion.
FinishStillStopping(s, outcome) == [s EXCEPT !.deletion = FALSE, !.finished = Append(@, outcome)]
FinishDeletion(s, outcome) ==
    [s EXCEPT !.deletion = FALSE, !.stopping = FALSE, !.finished = Append(@, outcome)]

\* Mutant: the deletion goes on whatever the stop found.
StopNextTrusting(s, c) ==
    LET i == Position(OwnedSeq, c)
    IN IF i > 1 THEN Enqueue(s, <<Command("show", OwnedSeq[i - 1], "stop")>>)
       ELSE IF ~s.deletion THEN [s EXCEPT !.stopping = FALSE]
       ELSE Enqueue(s, <<Command("delete", 1, "delete")>>)
\* stopComponent() after component c: the one before it, or the end of the stop.
StopNext(s, c) ==
    LET i == Position(OwnedSeq, c)
    IN IF i > 1 THEN Enqueue(s, <<Command("show", OwnedSeq[i - 1], "stop")>>)
       ELSE IF ~s.deletion THEN [s EXCEPT !.stopping = FALSE]
       ELSE IF HasOwnedProcesses(s) THEN FinishDeletion(s, "failed")
       ELSE Enqueue(s, <<Command("delete", 1, "delete")>>)

-----------------------------------------------------------------------------
(* User requests, and the timer that asks for the state of the services.   *)

Keep == UNCHANGED <<services, listening, fromProbe, bridge>>

\* start(openUi); an invalid profile or home makes it fail at once.
Start(open) ==
    /\ Idle(rt) /\ User /\ Keep
    /\ \/ rt' = EnsureComponent([rt EXCEPT !.starting = TRUE, !.openRequested = open], 1)
       \/ left.env > 0 /\ rt' = Fail(rt)
Check ==
    /\ Idle(rt) /\ User /\ Keep
    /\ rt' = BeginProbe([rt EXCEPT !.starting = TRUE, !.openRequested = FALSE])
\* openUi() when the backend is ready; otherwise it is start(true).
OpenUi ==
    /\ rt.ready /\ rt.observer /\ rt.login = NoLogin /\ ~rt.deletion /\ User /\ Keep
    /\ rt' = EnsureUi(rt)
Stop == ~rt.stopping /\ User /\ Keep /\ rt' = StopAll(rt)
\* readLogs(); the preview of a deletion queues commands without effect the same way.
ReadLogs == User /\ Keep /\ rt' = Enqueue(rt, ForEach("logs", "logs"))
AskAccount == User /\ Keep /\ rt' = RefreshAccount(rt)
CancelSignIn == rt.login # NoLogin /\ User /\ Keep /\ rt' = CancelLogin(rt)
\* beginAuthentication(): kind is a sign-in method, or "signout".
BeginAuthentication(kind) ==
    /\ rt.ready /\ ~rt.stopping /\ rt.login = NoLogin /\ rt.controller = "nobody" /\ User /\ Keep
    /\ rt' = Write([rt EXCEPT !.login = [NoLogin EXCEPT !.phase = "Claiming", !.kind = kind]],
                   [line |-> "acquire"])
\* inspectDeletion() of a confirmed deletion: the first target.
Inspect == Keep /\ rt' = Enqueue(rt, <<Command("inspect", 1, "delete")>>)

\* refresh(): expired are the requests, and over whether the login is past its deadline.
Refresh(expired, over) ==
    LET pending == [rt EXCEPT !.requests = @ \ expired,
                              !.account = IF \E r \in expired : r.method = Read THEN "Unknown" ELSE @]
        due == (\E r \in expired : r.method # Read) \/ (rt.login # NoLogin /\ over)
        s == IF ~due THEN pending
             ELSE IF rt.login.phase = "Waiting" THEN CancelLogin(pending)
             ELSE [FinishAuthentication(pending) EXCEPT !.account = "Unknown"]
    IN Keep /\ rt' = IF Busy(s) THEN s ELSE Enqueue(s, ForEach("show", "refresh"))
RefreshTimer ==
    \E expired \in SUBSET rt.requests, over \in BOOLEAN :
        Charge(expired # {} \/ over) /\ Refresh(expired, over)
\* Time goes on: at a later tick whatever is still pending is past its deadline.
DeadlinesPass ==
    /\ rt.login # NoLogin \/ rt.requests # {}
    /\ UNCHANGED left
    /\ Refresh(rt.requests, TRUE)
\* readinessTimeout_
ReadinessTimesOut ==
    /\ rt.readiness /\ UNCHANGED left /\ Keep
    /\ LET s == [rt EXCEPT !.readiness = FALSE] IN rt' = IF s.ready /\ s.observer THEN s ELSE Fail(s)

-----------------------------------------------------------------------------
(* finishOperation(): a helper command ends and its continuation runs.     *)

Finished(kind, why) == rt.current.kind = kind /\ rt.current.why = why
On == rt.current.on
After == [rt EXCEPT !.current = NoOperation]
Quiet == UNCHANGED <<fromProbe, bridge>>
KeepServices == UNCHANGED <<services, listening>>

\* The zero timer of finishOperation().
RunNext ==
    /\ rt.current = NoOperation /\ rt.operations # <<>> /\ UNCHANGED left /\ Keep
    /\ rt' = [rt EXCEPT !.current = Head(rt.operations), !.operations = Tail(@)]

\* serviceState() of what show printed: the truth or, when supervision fails or the
\* unit belongs to somebody else, nothing to rely on.
Shown(s) == \/ s = (IF services[On] THEN "Running" ELSE "Inactive") /\ Charge(FALSE)
            \/ s = "Unknown" /\ Charge(TRUE)
ShownStates == {"Running", "Inactive", "Unknown"}

EnsureShown ==
    /\ Finished("show", "ensure") /\ Keep
    /\ \E s \in ShownStates :
        /\ Shown(s)
        /\ rt' = CASE ~rt.starting -> After
                   [] rt.starting /\ s = "Unknown" -> Fail(Mark(After, On, s))
                   [] rt.starting /\ s = "Running" ->
                        EnsureComponent(Mark(After, On, s), Position(Backends, On) + 1)
                   [] rt.starting /\ s = "Inactive" ->
                        Enqueue(Mark(After, On, "Starting"), <<Command("check", On, "ensure")>>)
UiShown ==
    /\ Finished("show", "ui") /\ Keep
    /\ \E s \in ShownStates :
        /\ Shown(s)
        /\ rt' = CASE rt.stopping -> After
                   [] ~rt.stopping /\ s = "Unknown" -> Fail(Mark(After, UI, s))
                   [] ~rt.stopping /\ s = "Running" -> Mark(After, UI, s)
                   [] ~rt.stopping /\ s = "Inactive" ->
                        Enqueue(Mark(After, UI, s), <<Command("check", UI, "ui")>>)
RefreshShown ==
    /\ Finished("show", "refresh") /\ Keep
    /\ \E s \in ShownStates : Shown(s) /\ rt' = Mark(After, On, s)
StopShown ==
    /\ Finished("show", "stop") /\ Keep
    /\ \E s \in ShownStates :
        /\ Shown(s)
        /\ rt' = IF s = "Running" THEN Enqueue(Mark(After, On, s), <<Command("stop", On, "stop")>>)
                 ELSE StopNext(Mark(After, On, s), On)

\* Mutant: a launch without an answer counts as one that did not happen.
LaunchedOrNot(s, ok) ==
    LET wanted == ~s.stopping /\ (rt.current.why = "ensure" => s.starting)
    IN IF ~wanted THEN s
       ELSE IF ~ok THEN Fail(Mark(s, On, "Inactive"))
       ELSE IF rt.current.why = "ui" THEN Mark(s, On, "Running")
       ELSE EnsureComponent(Mark(s, On, "Running"), Position(Backends, On) + 1)
\* done(code, ...) of the launches in ensureComponent() and ensureUi().
Launched(s, ok) ==
    LET wanted == ~s.stopping /\ (rt.current.why = "ensure" => s.starting)
    IN IF ~wanted THEN s
       ELSE IF ~ok THEN Fail(Mark(s, On, "Unknown"))
       ELSE IF rt.current.why = "ui" THEN Mark(s, On, "Running")
       ELSE EnsureComponent(Mark(s, On, "Running"), Position(Backends, On) + 1)

\* launch(): the configuration is accepted or not, then the service is started.
Checked ==
    /\ rt.current.kind = "check" /\ Keep
    /\ \/ Charge(TRUE) /\ rt' = Launched(After, FALSE)
       \/ /\ Charge(FALSE)
          /\ rt' = IF rt.stopping THEN After ELSE Enqueue(After, <<Command("start", On, rt.current.why)>>)
\* systemd refuses to start a unit twice; a start may also fail, or work and lose its answer.
Started ==
    /\ rt.current.kind = "start" /\ Quiet /\ UNCHANGED listening
    /\ \/ /\ services[On] /\ Charge(FALSE) /\ UNCHANGED services
          /\ rt' = Launched(After, FALSE)
       \/ /\ ~services[On] /\ Charge(FALSE)
          /\ services' = [services EXCEPT ![On] = TRUE]
          /\ rt' = Launched(After, TRUE)
       \/ /\ ~services[On] /\ Charge(TRUE)
          /\ \E run \in BOOLEAN : services' = [services EXCEPT ![On] = run]
          /\ rt' = Launched(After, FALSE)
Stopped ==
    /\ rt.current.kind = "stop" /\ Quiet
    /\ \E ok, run \in BOOLEAN :
        /\ ok => ~run
        /\ Charge(~ok)
        /\ services' = [services EXCEPT ![On] = run /\ @]
        /\ listening' = (listening /\ services'[UI])
        /\ rt' = StopNext(Mark(After, On, IF ok THEN "Inactive" ELSE "Unknown"), On)

LogsRead == rt.current.kind = "logs" /\ UNCHANGED left /\ Keep /\ rt' = After

\* inspectDeletionTarget(), then deleteData(); valid: the registry is still the one the
\* deletion was confirmed for.
Inspected(valid) ==
    /\ rt.current.kind = "inspect" /\ Keep
    /\ \E ok \in BOOLEAN :
        /\ Charge(~ok)
        /\ rt' = IF ok /\ On + 1 \in Targets THEN Enqueue(After, <<Command("inspect", On + 1, "delete")>>)
                 ELSE IF ok /\ valid /\ Idle(rt) THEN StopAll([After EXCEPT !.deletion = TRUE])
                 ELSE [After EXCEPT !.finished = Append(@, "failed")]
\* deleteTarget()
Deleted ==
    /\ rt.current.kind = "delete" /\ Keep
    /\ \E ok \in BOOLEAN :
        /\ Charge(~ok)
        /\ rt' = IF ok /\ On + 1 \in Targets THEN Enqueue(After, <<Command("delete", On + 1, "delete")>>)
                 ELSE FinishDeletion(After, IF ok THEN "deleted" ELSE "failed")

HelperNext(valid) ==
    \/ RunNext \/ EnsureShown \/ UiShown \/ RefreshShown \/ StopShown \/ Checked \/ Started
    \/ Stopped \/ LogsRead \/ Inspected(valid) \/ Deleted

-----------------------------------------------------------------------------
(* readProbe(): one line that the probe printed.                           *)

Printed == Head(fromProbe)
ReadLine(kind) == Printed.line = kind /\ ~rt.stopping

\* bridge.connection opened; client.connection disconnected
Opened == ForgetAccount([rt EXCEPT !.observer = (Printed.role = "observer")])
Disconnected == ForgetAccount([rt EXCEPT !.ready = FALSE])
\* bridge.provider
ProviderChanged ==
    LET s == [rt EXCEPT !.ready = Printed.up]
    IN IF ~Printed.up THEN ForgetAccount(s) ELSE IF ~rt.ready THEN RefreshAccount(s) ELSE s
\* bridge.controller
ControllerChanged ==
    LET s == [rt EXCEPT !.controller = Printed.who, !.observer = (Printed.who # "probe")]
        out == rt.login.kind = "signout"
    IN IF Printed.who = "probe" /\ rt.login.phase = "Claiming"
       THEN AccountRequest([s EXCEPT !.login.phase = IF out THEN "SigningOut" ELSE "Starting"],
                           IF out THEN "account/logout" ELSE "account/login/start", rt.login.kind)
       ELSE IF Printed.who = "probe" /\ rt.login = NoLogin THEN Write(s, Release)
       ELSE IF Printed.who = "other" /\ rt.login # NoLogin THEN FinishAuthentication(s)
       ELSE s
\* A refused claim (bridge.diagnostic), or a line that was not delivered (client.error).
Refused == IF rt.login # NoLogin THEN FinishAuthentication(rt) ELSE rt

\* account/login/start answered for the login of s.
LoginStarted(s) ==
    LET known == [s EXCEPT !.login.id = Printed.id]
    IN CASE Printed.value = "stored" -> RefreshAccount(FinishAuthentication(s))
         [] Printed.value = "flow" ->
              IF s.login.phase = "Cancelling" THEN CancelLogin(known)
              ELSE IF s.login.completed = Printed.id THEN RefreshAccount(FinishAuthentication(known))
              ELSE [known EXCEPT !.login.phase = "Waiting"]
         [] OTHER -> FinishAuthentication(s)   \* no usable flow
\* accountMessage(): only an answer that is still waited for counts.
Answered ==
    LET found == {r \in rt.requests : r.id = Printed.id}
        method == (CHOOSE r \in found : TRUE).method
        s == [rt EXCEPT !.requests = @ \ found]
    IN IF found = {} THEN rt
       ELSE IF method = Read THEN [s EXCEPT !.account = IF Printed.ok THEN Printed.value ELSE "Unknown"]
       ELSE IF Printed.ok /\ method = "account/login/start" THEN LoginStarted(s)
       ELSE RefreshAccount(FinishAuthentication(s))
\* accountMessage(): account/updated, account/login/completed, an unauthorized inference.
Updated == RefreshAccount([rt EXCEPT !.requests = LoginRequests(rt)])
Completed ==
    IF rt.login # NoLogin /\ rt.login.id = 0 THEN [rt EXCEPT !.login.completed = Printed.id]
    ELSE IF rt.login # NoLogin /\ rt.login.id = Printed.id THEN RefreshAccount(FinishAuthentication(rt))
    ELSE rt
Rejected == [rt EXCEPT !.account = "Rejected", !.requests = {}]

ReadProbe ==
    /\ fromProbe # <<>> /\ fromProbe' = Tail(fromProbe)
    /\ UNCHANGED <<services, listening, bridge, left>>
    /\ \/ ReadLine("opened") /\ rt' = UpdateReadiness(Opened)
       \/ ReadLine("disconnected") /\ rt' = UpdateReadiness(Disconnected)
       \/ ReadLine("provider") /\ rt' = UpdateReadiness(ProviderChanged)
       \/ ReadLine("controller") /\ rt' = UpdateReadiness(ControllerChanged)
       \/ ReadLine("refused") /\ rt' = UpdateReadiness(Refused)
       \/ ReadLine("answer") /\ rt' = UpdateReadiness(Answered)
       \/ ReadLine("updated") /\ rt' = UpdateReadiness(Updated)
       \/ ReadLine("completed") /\ rt' = UpdateReadiness(Completed)
       \/ ReadLine("rejected") /\ rt' = UpdateReadiness(Rejected)
       \/ rt.stopping /\ UNCHANGED rt   \* while stopping, the lines are thrown away

BridgeLeft == [bridge EXCEPT !.open = FALSE, !.controller = IF @ = "probe" THEN "nobody" ELSE @]

\* The probe's finished signal; what it had printed was read before.  A probe that cannot
\* be started is one that exits at once.
ProbeExits ==
    /\ rt.probe # "none" /\ fromProbe = <<>>
    /\ Charge(rt.probe = "running")
    /\ LET s == [rt EXCEPT !.probe = "none", !.out = <<>>]
       IN rt' = IF rt.stopping THEN s
                ELSE ForgetAccount([s EXCEPT !.readiness = FALSE, !.ready = FALSE, !.starting = FALSE])
    /\ bridge' = BridgeLeft
    /\ UNCHANGED <<services, listening, fromProbe>>

-----------------------------------------------------------------------------
(* The environment: the probe, the bridge behind it, the app-server, the   *)
(* services.                                                               *)

Say(lines) == fromProbe' = fromProbe \o lines
Controller(who) == [line |-> "controller", who |-> who]
Provider(up) == [line |-> "provider", up |-> up]
Completion(id) == [line |-> "completed", id |-> id]
Answer(id, ok, value) == [line |-> "answer", id |-> id, ok |-> ok, value |-> value]

\* What the app-server makes of the request m: lines, login flow and account after it.
Reply(m) ==
    LET reply(lines, flow, signed) ==
            Say(lines) /\ bridge' = [bridge EXCEPT !.flow = flow, !.signedIn = signed]
        held == bridge.controller = "probe"
        starts == m.method = "account/login/start" /\ held /\ m.extra # "apiKey"
        no == Answer(m.id, FALSE, "")
        yes(value) == Answer(m.id, TRUE, value)
    IN \/ /\ m.method = Read /\ Charge(FALSE)
          /\ reply(<<yes(IF bridge.signedIn THEN "SignedIn" ELSE "SignedOut")>>, bridge.flow, bridge.signedIn)
       \/ m.method # Read /\ ~held /\ Charge(FALSE) /\ reply(<<no>>, bridge.flow, bridge.signedIn)
       \/ m.method = "account/logout" /\ held /\ Charge(FALSE) /\ reply(<<yes("")>>, bridge.flow, FALSE)
       \/ /\ m.method = "account/login/cancel" /\ held /\ Charge(FALSE)
          /\ reply(<<yes("")>>, IF bridge.flow = m.extra THEN 0 ELSE bridge.flow, bridge.signedIn)
       \/ /\ m.method = "account/login/start" /\ held /\ m.extra = "apiKey" /\ Charge(FALSE)
          /\ reply(<<yes("stored"), [line |-> "updated"]>>, 0, TRUE)
       \/ starts /\ Charge(FALSE) /\ reply(<<yes("flow")>>, m.id, bridge.signedIn)
       \/ starts /\ Charge(TRUE) /\ reply(<<no>>, bridge.flow, bridge.signedIn)
       \/ starts /\ Charge(TRUE) /\ reply(<<yes("unusable")>>, 0, bridge.signedIn)
       \/ starts /\ Charge(TRUE) /\ reply(<<Completion(m.id), yes("flow")>>, 0, TRUE)

\* The probe takes the next line written to it.
ProbeTakes ==
    /\ rt.probe # "none" /\ rt.out # <<>>
    /\ rt' = [rt EXCEPT !.out = Tail(@)]
    /\ LET m == Head(rt.out)
           held == bridge.controller = "probe"
       IN \/ m.line = "quit" /\ UNCHANGED <<fromProbe, bridge, left>>
          \/ /\ m.line # "quit" /\ ~bridge.open
             /\ Say(<<[line |-> "refused"]>>) /\ UNCHANGED <<bridge, left>>
          \/ /\ m.line = "acquire" /\ bridge.open
             /\ bridge' = [bridge EXCEPT !.controller = IF @ = "nobody" THEN "probe" ELSE @]
             /\ Say(<<IF bridge.controller = "other" THEN [line |-> "refused"] ELSE Controller("probe")>>)
             /\ UNCHANGED left
          \/ /\ m.line = "release" /\ bridge.open
             /\ bridge' = [bridge EXCEPT !.controller = IF held THEN "nobody" ELSE @]
             /\ Say(IF held THEN <<Controller("nobody")>> ELSE <<>>)
             /\ UNCHANGED left
          \/ m.line = "raw" /\ bridge.open /\ bridge.provider /\ Reply(m)
          \/ m.line = "raw" /\ bridge.open /\ ~bridge.provider /\ UNCHANGED <<fromProbe, bridge, left>>
    /\ KeepServices

\* The probe connects, again after a loss; a bridge without controller may make it
\* controller at once.
Connects ==
    /\ rt.probe = "running" /\ ~bridge.open
    /\ \E who \in IF bridge.controller = "nobody" THEN {"nobody", "probe"} ELSE {bridge.controller} :
        /\ bridge' = [bridge EXCEPT !.open = TRUE, !.controller = who]
        /\ Say(<<[line |-> "opened", role |-> IF who = "probe" THEN "controller" ELSE "observer"],
                 Controller(who), Provider(bridge.provider)>>)
    /\ UNCHANGED <<rt, left>> /\ KeepServices

\* The connection is lost, with what the probe had not sent; the app-server goes or
\* comes back; another client takes or leaves control; the flow is completed in the
\* user's browser; inference is refused.
BridgeChanges ==
    /\ bridge.open /\ Charge(TRUE) /\ KeepServices
    /\ \/ /\ bridge' = BridgeLeft
          /\ Say(<<[line |-> "disconnected"]>>) /\ rt' = [rt EXCEPT !.out = <<>>]
       \/ /\ UNCHANGED rt
          /\ \/ /\ bridge' = [bridge EXCEPT !.provider = ~@, !.flow = 0]
                /\ Say(<<Provider(~bridge.provider)>>)
             \/ /\ bridge.controller = "nobody" /\ bridge' = [bridge EXCEPT !.controller = "other"]
                /\ Say(<<Controller("other")>>)
             \/ /\ bridge.controller = "other" /\ bridge' = [bridge EXCEPT !.controller = "nobody"]
                /\ Say(<<Controller("nobody")>>)
             \/ /\ bridge.flow # 0 /\ bridge' = [bridge EXCEPT !.flow = 0, !.signedIn = TRUE]
                /\ Say(<<Completion(bridge.flow), [line |-> "updated"]>>)
             \/ Say(<<[line |-> "rejected"]>>) /\ UNCHANGED bridge

ServicesChange ==
    /\ UNCHANGED rt /\ Quiet
    /\ \/ /\ Charge(TRUE)
          /\ \E c \in Owned : services[c] /\ services' = [services EXCEPT ![c] = FALSE]
          /\ listening' = (listening /\ services'[UI])
       \/ services[UI] /\ ~listening /\ listening' = TRUE /\ UNCHANGED <<services, left>>

UserNext ==
    \/ \E open \in BOOLEAN : Start(open)
    \/ Check \/ OpenUi \/ Stop \/ ReadLogs \/ AskAccount \/ CancelSignIn
    \/ \E kind \in {"chatgpt", "apiKey", "signout"} : BeginAuthentication(kind)

RuntimeNext(valid) ==
    \/ UserNext \/ HelperNext(valid) \/ RefreshTimer \/ DeadlinesPass \/ ReadinessTimesOut
    \/ ReadProbe \/ ProbeExits \/ ProbeTakes \/ Connects \/ BridgeChanges \/ ServicesChange

-----------------------------------------------------------------------------
\* A sign-in takes nothing along when it ends or loses its provider: whatever it asked the
\* app-server is forgotten, so that a later answer finds no request, and when the probe holds
\* control without a sign-in, a release is on its way, or the line that makes the manager
\* write one is still unread (finishAuthentication, forgetAccount).
ControlAccounted ==
    /\ LoginRequests(rt) # {} => rt.ready /\ rt.login.phase \notin {"none", "Claiming"}
    /\ bridge.controller = "probe" /\ rt.probe = "running" /\ rt.login = NoLogin =>
        \/ \E i \in DOMAIN rt.out : rt.out[i] = Release
        \/ \E i \in DOMAIN fromProbe : fromProbe[i] = Controller("probe")

\* Data is deleted only after every owned unit was seen stopped, while the runtime stays
\* closed and nothing that could start a unit again is queued (stop, stopComponent).
DeletionAlone ==
    rt.current.kind = "delete" =>
        /\ rt.deletion /\ rt.stopping /\ ~rt.starting /\ rt.login = NoLogin
        /\ ~HasOwnedProcesses(rt)
        /\ \A c \in Owned : ~services[c]
        /\ \A i \in DOMAIN rt.operations : rt.operations[i].kind \notin {"check", "start"}

\* When nothing is going on, a unit shown as stopped does not run, whatever was lost,
\* ignored or cancelled before.
KnownStopped == ~Busy(rt) => \A c \in Owned : rt.states[c] = "Inactive" => ~services[c]

\* No launch is begun for a unit that runs already: a repeated request waits for, or finds,
\* what the one before it started (openUi, ensureUi, ensureComponent).
NoDuplicateLaunch == rt.current.kind = "start" => ~services[rt.current.on]
=============================================================================
