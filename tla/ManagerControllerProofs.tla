----------------------- MODULE ManagerControllerProofs -----------------------
(***************************************************************************)
(* Proofs about ManagerController and the ProfileRuntime below it: for any *)
(* backends, owned or external, no unit of a profile is taken for stopped  *)
(* while it runs, data is deleted with every owned unit stopped and        *)
(* nothing queued that starts one, a registration is removed only with its *)
(* units stopped, and control of the bridge is accounted for.              *)
(***************************************************************************)
EXTENDS ManagerController, Integers, TLAPS

(* The commands, by what they are for.                                     *)
Looks == [kind : {"show"}, on : BackendSet, why : {"ensure"}]
           \cup [kind : {"show"}, on : {UI}, why : {"ui"}]
Launches == [kind : {"check", "start"}, on : BackendSet, why : {"ensure"}]
              \cup [kind : {"check", "start"}, on : {UI}, why : {"ui"}]
Refreshes == [kind : {"show"}, on : Owned, why : {"refresh"}]
Stops == [kind : {"show", "stop"}, on : Owned, why : {"stop"}]
Deletes == [kind : {"delete"}, on : Targets, why : {"delete"}]
Silent == [kind : {"inspect"}, on : Targets, why : {"delete"}]
            \cup [kind : {"logs"}, on : Owned, why : {"logs"}]
Opening == Looks \cup Launches \cup Refreshes
Chain == Stops \cup Deletes
Commands == Opening \cup Chain \cup Silent

(* What the members of a runtime are taken from.                           *)
States == {"External", "Unknown", "Inactive", "Starting", "Running"}
Who == {"nobody", "probe", "other"}
Methods == {Read, "account/login/start", "account/login/cancel", "account/logout"}
SignIns == {"none", "chatgpt", "apiKey", "signout"}
Phases == {"none", "Claiming", "Starting", "SigningOut", "Waiting", "Cancelling"}
Values == {"", "SignedIn", "SignedOut", "stored", "flow", "unusable"}
Logins == [phase : Phases, kind : SignIns, id : Nat, completed : Nat]

(* What the probe is told, and what it prints.                             *)
OutLines == [line : {"acquire", "release", "quit"}]
              \cup [line : {"raw"}, id : Nat, method : Methods, extra : Nat \cup SignIns]
Lines == [line : {"disconnected", "refused", "updated", "rejected"}]
           \cup [line : {"opened"}, role : {"controller", "observer"}]
           \cup [line : {"provider"}, up : BOOLEAN]
           \cup [line : {"controller"}, who : Who]
           \cup [line : {"completed"}, id : Nat]
           \cup [line : {"answer"}, id : Nat, ok : BOOLEAN, value : Values]
Bridges == [open : BOOLEAN, controller : Who, provider : BOOLEAN, flow : Nat, signedIn : BOOLEAN]

Runtimes ==
  [states : [Components -> States], current : Commands \cup {NoOperation}, operations : Seq(Commands),
   starting : BOOLEAN, stopping : BOOLEAN, openRequested : BOOLEAN, deletion : BOOLEAN,
   finished : Seq({"deleted", "failed"}), probe : {"none", "running", "terminating"},
   out : Seq(OutLines), ready : BOOLEAN, observer : BOOLEAN, readiness : BOOLEAN,
   login : Logins, requests : SUBSET [id : Nat, method : Methods], sequence : Nat,
   account : Values \cup {"Unknown", "Rejected"}, controller : Who]

ManagerTypes ==
  /\ rt \in Runtimes
  /\ services \in [Owned -> BOOLEAN]
  /\ listening \in BOOLEAN
  /\ fromProbe \in Seq(Lines)
  /\ bridge \in Bridges

----------------------------------------------------------------------------
(* The command that runs, and behind it those that wait.                   *)
Queue(s) == IF s.current = NoOperation THEN s.operations ELSE <<s.current>> \o s.operations
Place(c) == Position(OwnedSeq, c)
StopUi == Command("show", UI, "stop")

(* The stop, and the deletion after it, have one command at a time.        *)
OneChain(q) == \A i, j \in DOMAIN q : q[i] \in Chain /\ q[j] \in Chain => i = j

(* The timer's refresh is asked for with nothing queued: it is ahead of    *)
(* whatever opens the profile, and over before a unit is launched.         *)
RefreshFirst(q) ==
  \A i, j \in DOMAIN q :
     /\ i < j /\ q[j] \in Refreshes => q[i] \in Refreshes
     /\ ~(q[i] \in Refreshes /\ q[j] \in Launches)

(* During a stop nothing opens the profile but the command that ran when   *)
(* it began, and that one ends before the stop looks at the first unit.    *)
StopAlone(q, stopping) ==
  \A i \in DOMAIN q :
     /\ q[i] \in Chain => stopping
     /\ stopping /\ q[i] \in Opening => i = 1 /\ \E j \in DOMAIN q : q[j] = StopUi

(* A deletion goes on only while every unit is known to be stopped.        *)
DeletesStopped(q, states, deletion) ==
  \A i \in DOMAIN q :
     q[i] \in Deletes => deletion /\ \A c \in Components : states[c] \in {"Inactive", "External"}

(* A unit that counts as stopped and runs is one the stop has yet to reach.*)
StatesTrue(q, states, running) ==
  \A c \in Owned :
     /\ states[c] # "External"
     /\ states[c] = "Inactive" /\ running[c] =>
          \E j \in DOMAIN q : q[j] \in Stops /\ Place(c) <= Place(q[j].on)

(* A backend that is about to be launched does not count as stopped.       *)
LaunchesMarked(q, states, stopping) ==
  ~stopping =>
     \A i \in DOMAIN q :
        q[i] \in Launches /\ q[i].why = "ensure" => states[q[i].on] # "Inactive"

QueueInv(q, states, stopping, deletion, running) ==
  /\ OneChain(q)
  /\ RefreshFirst(q)
  /\ StopAlone(q, stopping)
  /\ DeletesStopped(q, states, deletion)
  /\ StatesTrue(q, states, running)
  /\ LaunchesMarked(q, states, stopping)

ServiceInv(s, running) == QueueInv(Queue(s), s.states, s.stopping, s.deletion, running)

(* A stop ends what it interrupts; readiness is that of a probe.           *)
ProbeInv(s) ==
  /\ s.stopping => ~s.starting /\ ~s.ready /\ s.probe # "running"
  /\ s.deletion => s.stopping
  /\ s.ready => s.probe # "none"

(* A sign-in and its requests need a probe that is ready, and a request of *)
(* a sign-in is one of the sign-in that goes on.                           *)
LoginInv(s) ==
  /\ s.login # NoLogin \/ s.requests # {} => s.ready
  /\ s.login.phase = "none" => s.login = NoLogin
  /\ LoginRequests(s) # {} => s.login.phase \notin {"none", "Claiming"}

ClosedInv(s) == ProbeInv(s) /\ LoginInv(s)

(* The manager knows that the probe holds control, or has given it back.   *)
Released(s) == \E i \in DOMAIN s.out : s.out[i] = Release
Holds(s) == Released(s) \/ (s.controller = "probe" /\ s.login # NoLogin)
(* The last word on control among these lines is that the probe has it.    *)
Told(lines) ==
  \E i \in DOMAIN lines :
     lines[i] = Controller("probe") /\ \A j \in DOMAIN lines : j > i => lines[j].line # "controller"
NoWord(lines) == \A j \in DOMAIN lines : lines[j].line # "controller"

ControlInv(s, b, lines) ==
  /\ b.controller = "probe" => b.open
  /\ b.open \/ lines # <<>> => s.probe # "none"
  /\ b.controller = "probe" /\ s.probe = "running" =>
       Released(s) \/ Told(lines) \/ (Holds(s) /\ NoWord(lines))

Healthy(s, running, b, lines) ==
  s \in Runtimes /\ ServiceInv(s, running) /\ ClosedInv(s) /\ ControlInv(s, b, lines)

LiveInv == ManagerTypes /\ Healthy(rt, services, bridge, fromProbe)

(* Of a profile that was removed nothing moves any more.                   *)
ManagerInv ==
  /\ rt \in Runtimes
  /\ registered => LiveInv
  /\ ControlAccounted /\ DeletionAlone /\ KnownStopped /\ NothingOrphaned

----------------------------------------------------------------------------
(* Appending one sequence to another.                                      *)
LEMMA ConcatFacts ==
  ASSUME NEW S, NEW q \in Seq(S), NEW r \in Seq(S)
  PROVE  /\ q \o r \in Seq(S)
         /\ Len(q) \in Nat /\ Len(r) \in Nat
         /\ DOMAIN q = 1 .. Len(q) /\ DOMAIN r = 1 .. Len(r)
         /\ DOMAIN (q \o r) = 1 .. Len(q) + Len(r)
         /\ \A i \in 1 .. Len(q) : (q \o r)[i] = q[i]
         /\ \A i \in 1 .. Len(r) : (q \o r)[Len(q) + i] = r[i]
         /\ \A i \in DOMAIN (q \o r) :
               \/ i \in DOMAIN q /\ (q \o r)[i] = q[i]
               \/ i - Len(q) \in DOMAIN r /\ (q \o r)[i] = r[i - Len(q)]
<1>1. /\ q \o r \in Seq(S)
      /\ Len(q) \in Nat /\ Len(r) \in Nat
      /\ DOMAIN q = 1 .. Len(q) /\ DOMAIN r = 1 .. Len(r)
      /\ DOMAIN (q \o r) = 1 .. Len(q) + Len(r)
      /\ \A i \in 1 .. Len(q) : (q \o r)[i] = q[i]
  OBVIOUS
<1>2. ASSUME NEW i \in 1 .. Len(r) PROVE (q \o r)[Len(q) + i] = r[i]
  BY <1>1
<1>3. ASSUME NEW i \in DOMAIN (q \o r), i > Len(q)
      PROVE  i - Len(q) \in 1 .. Len(r) /\ (q \o r)[i] = r[i - Len(q)]
  <2>1. i - Len(q) \in 1 .. Len(r) /\ Len(q) + (i - Len(q)) = i
    BY <1>1, <1>3
  <2>2. QED
    BY <2>1, <1>2
<1>4. QED
  BY <1>1, <1>2, <1>3

(* A sequence with one more.                                               *)
LEMMA AppendFacts ==
  ASSUME NEW S, NEW q \in Seq(S), NEW k \in S
  PROVE  /\ Append(q, k) \in Seq(S)
         /\ Len(q) \in Nat
         /\ DOMAIN q = 1 .. Len(q)
         /\ DOMAIN Append(q, k) = 1 .. Len(q) + 1
         /\ \A i \in 1 .. Len(q) : Append(q, k)[i] = q[i]
         /\ Append(q, k)[Len(q) + 1] = k
  OBVIOUS

(* A sequence of one.                                                      *)
LEMMA SingleFacts ==
  ASSUME NEW S, NEW k \in S
  PROVE  <<k>> \in Seq(S) /\ Len(<<k>>) = 1 /\ DOMAIN <<k>> = {1} /\ <<k>>[1] = k
  OBVIOUS

(* A sequence of one in front.                                             *)
LEMMA PrependFacts ==
  ASSUME NEW S, NEW k \in S, NEW q \in Seq(S)
  PROVE  /\ <<k>> \o q \in Seq(S)
         /\ Head(<<k>> \o q) = k
         /\ Tail(<<k>> \o q) = q
         /\ <<k>> \o q # <<>>
  OBVIOUS

(* Taking the first one off.                                               *)
LEMMA TailFacts ==
  ASSUME NEW S, NEW q \in Seq(S), q # <<>>
  PROVE  /\ Tail(q) \in Seq(S)
         /\ Head(q) \in S /\ Head(q) = q[1]
         /\ Len(q) \in Nat \ {0}
         /\ DOMAIN q = 1 .. Len(q) /\ 1 \in DOMAIN q
         /\ DOMAIN Tail(q) = 1 .. Len(q) - 1
         /\ \A i \in DOMAIN Tail(q) : i + 1 \in DOMAIN q /\ Tail(q)[i] = q[i + 1]
         /\ \A i \in DOMAIN q : i # 1 => i - 1 \in DOMAIN Tail(q) /\ Tail(q)[i - 1] = q[i]
<1>1. /\ Tail(q) \in Seq(S)
      /\ Len(q) \in Nat \ {0}
      /\ DOMAIN q = 1 .. Len(q)
      /\ DOMAIN Tail(q) = 1 .. Len(q) - 1
      /\ \A i \in 1 .. Len(q) - 1 : Tail(q)[i] = q[i + 1]
      /\ Head(q) = q[1] /\ Head(q) \in S
  OBVIOUS
<1>2. ASSUME NEW i \in DOMAIN q, i # 1
      PROVE  i - 1 \in DOMAIN Tail(q) /\ Tail(q)[i - 1] = q[i]
  BY <1>1, <1>2
<1>3. QED
  BY <1>1, <1>2

(* The kinds of commands exclude each other.                               *)
LEMMA KindFacts ==
  ASSUME NEW k \in Commands
  PROVE  /\ k # NoOperation
         /\ k \in Looks <=> k.kind = "show" /\ k.why \in {"ensure", "ui"}
         /\ k \in Launches <=> k.kind \in {"check", "start"}
         /\ k \in Refreshes <=> k.why = "refresh"
         /\ k \in Stops <=> k.why = "stop"
         /\ k \in Deletes <=> k.kind = "delete"
         /\ k \in Silent <=> k.kind \in {"inspect", "logs"}
  BY SMTT(60) DEF Commands, Opening, Chain, Looks, Launches, Refreshes, Stops, Deletes, Silent, NoOperation

(* No command is of two of these kinds.                                    *)
LEMMA KindsApart ==
  ASSUME NEW k \in Commands
  PROVE  /\ ~(k \in Opening /\ k \in Chain)
         /\ ~(k \in Opening /\ k \in Silent)
         /\ ~(k \in Chain /\ k \in Silent)
         /\ ~(k \in Refreshes /\ k \in Launches)
         /\ ~(k \in Refreshes /\ k \in Looks)
         /\ ~(k \in Launches /\ k \in Looks)
         /\ ~(k \in Stops /\ k \in Deletes)
  BY SMTT(60) DEF Commands, Opening, Chain, Looks, Launches, Refreshes, Stops, Deletes, Silent

(* q goes on with members of R.                                            *)
Extended(q, p, R) ==
  /\ \A i \in DOMAIN q : i \in Nat /\ i \in DOMAIN p /\ p[i] = q[i]
  /\ \A i \in DOMAIN p : i \in Nat /\ p[i] \in Commands
  /\ \A i \in DOMAIN p : i \in DOMAIN q \/ (p[i] \in R /\ \A j \in DOMAIN q : j < i)

(* What enqueue does to the queue.                                         *)
LEMMA ConcatExtends ==
  ASSUME NEW R \in SUBSET Commands, NEW q \in Seq(Commands), NEW r \in Seq(R)
  PROVE  q \o r \in Seq(Commands) /\ Extended(q, q \o r, R)
<1>1. r \in Seq(Commands) /\ \A i \in DOMAIN r : r[i] \in R
  OBVIOUS
<1>2. PICK p \in Seq(Commands) : p = q \o r
  BY <1>1, ConcatFacts
<1>3. /\ Len(q) \in Nat /\ Len(r) \in Nat
      /\ DOMAIN q = 1 .. Len(q) /\ DOMAIN r = 1 .. Len(r)
      /\ DOMAIN p = 1 .. Len(q) + Len(r)
      /\ \A i \in 1 .. Len(q) : p[i] = q[i]
      /\ \A i \in DOMAIN p :
            \/ i \in DOMAIN q /\ p[i] = q[i]
            \/ i - Len(q) \in DOMAIN r /\ p[i] = r[i - Len(q)]
  BY <1>1, <1>2, ConcatFacts
<1>4. \A i \in DOMAIN p : p[i] \in Commands
  OBVIOUS
<1>5. ASSUME NEW i \in DOMAIN p, i \notin DOMAIN q
      PROVE  p[i] \in R /\ \A j \in DOMAIN q : j < i
  <2>1. p[i] \in R
    BY <1>1, <1>3, <1>5
  <2>2. i > Len(q)
    BY <1>3, <1>5
  <2>3. QED
    BY <1>3, <2>1, <2>2
<1>6. Extended(q, p, R)
  BY <1>3, <1>4, <1>5 DEF Extended
<1>7. QED
  BY <1>2, <1>6

(* Logs and previews change nothing.                                       *)
LEMMA SilentExtends ==
  ASSUME NEW q, NEW p, NEW states, NEW stopping \in BOOLEAN, NEW deletion \in BOOLEAN, NEW running,
         Extended(q, p, Silent), QueueInv(q, states, stopping, deletion, running)
  PROVE  QueueInv(p, states, stopping, deletion, running)
<1>1. /\ \A i \in DOMAIN q : i \in Nat /\ i \in DOMAIN p /\ p[i] = q[i]
      /\ \A i \in DOMAIN p : i \in Nat /\ p[i] \in Commands
      /\ \A i \in DOMAIN p : i \in DOMAIN q \/ (p[i] \in Silent /\ \A j \in DOMAIN q : j < i)
  BY DEF Extended
<1>2. ASSUME NEW i \in DOMAIN p, p[i] \in Silent
      PROVE  p[i] \notin Chain /\ p[i] \notin Opening
  BY <1>1, <1>2, KindsApart
<1>3. ASSUME NEW i \in DOMAIN p, p[i] \in Opening \cup Chain PROVE i \in DOMAIN q /\ p[i] = q[i]
  BY <1>1, <1>2, <1>3
<1>4. OneChain(p)
  BY <1>3 DEF QueueInv, OneChain
<1>5. RefreshFirst(p)
  <2>1. ASSUME NEW i \in DOMAIN p, NEW j \in DOMAIN p, i < j, p[j] \in Refreshes
        PROVE  p[i] \in Refreshes
    <3>1. j \in DOMAIN q /\ q[j] \in Refreshes
      BY <1>3, <2>1 DEF Opening
    <3>2. i \in DOMAIN q
      BY <1>1, <2>1, <3>1
    <3>3. QED
      BY <1>1, <2>1, <3>1, <3>2 DEF QueueInv, RefreshFirst
  <2>2. ASSUME NEW i \in DOMAIN p, NEW j \in DOMAIN p, p[i] \in Refreshes, p[j] \in Launches
        PROVE  FALSE
    BY <1>3, <2>2 DEF QueueInv, RefreshFirst, Opening
  <2>3. QED
    BY <2>1, <2>2 DEF RefreshFirst
<1>6. StopAlone(p, stopping)
  BY <1>1, <1>3 DEF QueueInv, StopAlone
<1>7. DeletesStopped(p, states, deletion)
  BY <1>3 DEF QueueInv, DeletesStopped, Chain
<1>8. StatesTrue(p, states, running)
  BY <1>1 DEF QueueInv, StatesTrue
<1>9. LaunchesMarked(p, states, stopping)
  BY <1>3 DEF QueueInv, LaunchesMarked, Opening
<1>10. QED
  BY <1>4, <1>5, <1>6, <1>7, <1>8, <1>9 DEF QueueInv

(* What opens the profile is queued while it is not being stopped, and a   *)
(* launch once the refreshes are over and the unit is marked.              *)
LEMMA OpeningExtends ==
  ASSUME NEW q, NEW p, NEW states, NEW stopping \in BOOLEAN, NEW deletion \in BOOLEAN, NEW running,
         NEW k \in Looks \cup Launches, ~stopping,
         k \in Launches =>
           /\ \A i \in DOMAIN q : q[i] \notin Refreshes
           /\ k.why = "ensure" => states[k.on] # "Inactive",
         Extended(q, p, {k}), QueueInv(q, states, stopping, deletion, running)
  PROVE  QueueInv(p, states, stopping, deletion, running)
<1>1. /\ \A i \in DOMAIN q : i \in Nat /\ i \in DOMAIN p /\ p[i] = q[i]
      /\ \A i \in DOMAIN p : i \in Nat /\ p[i] \in Commands
      /\ \A i \in DOMAIN p : i \in DOMAIN q \/ (p[i] = k /\ \A j \in DOMAIN q : j < i)
  BY DEF Extended
<1>2. k \in Commands
  BY DEF Commands, Opening
<1>3. k \notin Chain /\ k \notin Refreshes
  BY <1>2, KindsApart DEF Opening
<1>4. ASSUME NEW i \in DOMAIN p PROVE p[i] \notin Chain
  BY <1>1, <1>3 DEF QueueInv, StopAlone
<1>5. OneChain(p)
  BY <1>4 DEF OneChain
<1>6. RefreshFirst(p)
  <2>1. ASSUME NEW i \in DOMAIN p, p[i] \in Refreshes PROVE i \in DOMAIN q /\ p[i] = q[i]
    BY <1>1, <1>3, <2>1
  <2>2. ASSUME NEW i \in DOMAIN p, NEW j \in DOMAIN p, i < j, p[j] \in Refreshes
        PROVE  p[i] \in Refreshes
    <3>1. j \in DOMAIN q /\ q[j] \in Refreshes
      BY <2>1, <2>2
    <3>2. i \in DOMAIN q
      BY <1>1, <2>2, <3>1
    <3>3. QED
      BY <1>1, <2>2, <3>1, <3>2 DEF QueueInv, RefreshFirst
  <2>3. ASSUME NEW i \in DOMAIN p, NEW j \in DOMAIN p, p[i] \in Refreshes, p[j] \in Launches
        PROVE  FALSE
    <3>1. i \in DOMAIN q /\ q[i] \in Refreshes
      BY <2>1, <2>3
    <3>2. CASE j \in DOMAIN q
      BY <1>1, <2>3, <3>1, <3>2 DEF QueueInv, RefreshFirst
    <3>3. CASE p[j] = k
      BY <2>3, <3>1, <3>3
    <3>4. QED
      BY <1>1, <3>2, <3>3
  <2>4. QED
    BY <2>2, <2>3 DEF RefreshFirst
<1>7. StopAlone(p, stopping)
  BY <1>4 DEF StopAlone
<1>8. DeletesStopped(p, states, deletion)
  BY <1>4 DEF DeletesStopped, Chain
<1>9. StatesTrue(p, states, running)
  BY <1>1 DEF QueueInv, StatesTrue
<1>10. LaunchesMarked(p, states, stopping)
  BY <1>1 DEF QueueInv, LaunchesMarked
<1>11. QED
  BY <1>5, <1>6, <1>7, <1>8, <1>9, <1>10 DEF QueueInv

(* A refresh is queued when nothing else is.                               *)
LEMMA RefreshExtends ==
  ASSUME NEW q, NEW p, NEW states, NEW stopping \in BOOLEAN, NEW deletion \in BOOLEAN, NEW running,
         ~stopping, q = <<>>,
         Extended(q, p, Refreshes), QueueInv(q, states, stopping, deletion, running)
  PROVE  QueueInv(p, states, stopping, deletion, running)
<1>1. \A i \in DOMAIN p : p[i] \in Refreshes /\ p[i] \in Commands
  BY DEF Extended
<1>2. \A i \in DOMAIN p : p[i] \notin Chain /\ p[i] \notin Launches
  BY <1>1, KindsApart DEF Opening
<1>3. StatesTrue(p, states, running)
  BY DEF QueueInv, StatesTrue
<1>4. QED
  BY <1>1, <1>2, <1>3 DEF QueueInv, OneChain, RefreshFirst, StopAlone, DeletesStopped, LaunchesMarked, Chain

(* A command that ends, if it is not part of a stop.                       *)
LEMMA TailKeeps ==
  ASSUME NEW q \in Seq(Commands), q # <<>>, Head(q) \notin Stops,
         NEW states, NEW stopping \in BOOLEAN, NEW deletion \in BOOLEAN, NEW running,
         QueueInv(q, states, stopping, deletion, running)
  PROVE  /\ QueueInv(Tail(q), states, stopping, deletion, running)
         /\ stopping => \A i \in DOMAIN Tail(q) : Tail(q)[i] \notin Opening
<1>1. PICK p \in Seq(Commands) : p = Tail(q)
  BY TailFacts
<1>2. /\ Head(q) = q[1] /\ 1 \in DOMAIN q
      /\ \A i \in DOMAIN p : i \in Nat \ {0} /\ i + 1 \in DOMAIN q /\ p[i] = q[i + 1]
      /\ \A i \in DOMAIN q : i \in Nat \ {0} /\ (i # 1 => i - 1 \in DOMAIN p /\ p[i - 1] = q[i])
  BY <1>1, TailFacts
<1>3. OneChain(p)
  BY <1>2 DEF QueueInv, OneChain
<1>4. RefreshFirst(p)
  <2>1. ASSUME NEW i \in DOMAIN p, NEW j \in DOMAIN p
        PROVE  /\ i < j /\ p[j] \in Refreshes => p[i] \in Refreshes
               /\ ~(p[i] \in Refreshes /\ p[j] \in Launches)
    <3>1. i < j => i + 1 < j + 1
      BY <1>2
    <3>2. QED
      BY <1>2, <3>1 DEF QueueInv, RefreshFirst
  <2>2. QED
    BY <2>1 DEF RefreshFirst
<1>5. ASSUME stopping, NEW i \in DOMAIN p PROVE p[i] \notin Opening
  BY <1>2, <1>5 DEF QueueInv, StopAlone
<1>6. StopAlone(p, stopping)
  BY <1>2, <1>5 DEF QueueInv, StopAlone
<1>7. DeletesStopped(p, states, deletion)
  BY <1>2 DEF QueueInv, DeletesStopped
<1>8. StatesTrue(p, states, running)
  <2>1. ASSUME NEW c \in Owned, states[c] = "Inactive", running[c]
        PROVE  \E j \in DOMAIN p : p[j] \in Stops /\ Place(c) <= Place(p[j].on)
    <3>1. PICK j \in DOMAIN q : q[j] \in Stops /\ Place(c) <= Place(q[j].on)
      BY <2>1 DEF QueueInv, StatesTrue
    <3>2. j # 1
      BY <1>2, <3>1
    <3>3. QED
      BY <1>2, <3>1, <3>2
  <2>2. QED
    BY <2>1 DEF QueueInv, StatesTrue
<1>9. LaunchesMarked(p, states, stopping)
  BY <1>2 DEF QueueInv, LaunchesMarked
<1>10. QED
  BY <1>1, <1>3, <1>4, <1>5, <1>6, <1>7, <1>8, <1>9 DEF QueueInv

(* The owned units in start order: the UI is the last of them.             *)
LEMMA PlaceFacts ==
  /\ Len(Backends) \in Nat /\ DOMAIN Backends = 1 .. Len(Backends)
  /\ \A i \in 1 .. Len(Backends) : Backends[i] \in BackendSet
  /\ \A i \in 1 .. Len(Backends) + 1 : OwnedSeq[i] \in Owned /\ Place(OwnedSeq[i]) = i
  /\ \A c \in Owned : Place(c) \in 1 .. Len(Backends) + 1 /\ OwnedSeq[Place(c)] = c
  /\ Place(UI) = Len(Backends) + 1
  /\ DOMAIN OwnedSeq = 1 .. Len(Backends) + 1
<1>1. /\ Len(Backends) \in Nat /\ DOMAIN Backends = 1 .. Len(Backends)
      /\ Backends \in Seq(BackendSet)
  BY ProfileAssumption
<1>2. \A i \in 1 .. Len(Backends) : Backends[i] \in BackendSet
  BY <1>1
<1>3. /\ DOMAIN OwnedSeq = 1 .. Len(Backends) + 1
      /\ \A i \in 1 .. Len(Backends) : OwnedSeq[i] = Backends[i]
      /\ OwnedSeq[Len(Backends) + 1] = UI
  BY <1>1 DEF OwnedSeq
<1>4. \A i \in 1 .. Len(Backends) + 1 : OwnedSeq[i] \in Owned
  <2>1. ASSUME NEW i \in 1 .. Len(Backends) + 1, i \notin 1 .. Len(Backends) PROVE OwnedSeq[i] = UI
    BY <1>1, <1>3, <2>1
  <2>2. QED
    BY <1>2, <1>3, <2>1 DEF Owned
<1>5. ASSUME NEW i \in 1 .. Len(Backends) + 1, NEW j \in 1 .. Len(Backends) + 1, OwnedSeq[i] = OwnedSeq[j]
      PROVE  i = j
  <2>1. ASSUME NEW n \in 1 .. Len(Backends) + 1, n \notin 1 .. Len(Backends)
        PROVE  n = Len(Backends) + 1 /\ OwnedSeq[n] = UI
    BY <1>1, <1>3, <2>1
  <2>2. \A n \in 1 .. Len(Backends) : OwnedSeq[n] # UI
    BY <1>2, <1>3, ProfileAssumption
  <2>3. CASE i \in 1 .. Len(Backends) /\ j \in 1 .. Len(Backends)
    BY <1>1, <1>3, <1>5, <2>3, ProfileAssumption
  <2>4. CASE i \notin 1 .. Len(Backends) \/ j \notin 1 .. Len(Backends)
    BY <1>5, <2>1, <2>2, <2>4
  <2>5. QED
    BY <2>3, <2>4
<1>6. ASSUME NEW i \in 1 .. Len(Backends) + 1 PROVE Place(OwnedSeq[i]) = i
  <2>1. \E n \in DOMAIN OwnedSeq : OwnedSeq[n] = OwnedSeq[i]
    BY <1>3
  <2>2. Place(OwnedSeq[i]) \in DOMAIN OwnedSeq /\ OwnedSeq[Place(OwnedSeq[i])] = OwnedSeq[i]
    BY <2>1 DEF Place, Position
  <2>3. QED
    BY <1>3, <1>5, <2>2
<1>7. ASSUME NEW c \in Owned PROVE Place(c) \in 1 .. Len(Backends) + 1 /\ OwnedSeq[Place(c)] = c
  <2>1. PICK i \in 1 .. Len(Backends) + 1 : OwnedSeq[i] = c
    <3>1. CASE c = UI
      <4>1. Len(Backends) + 1 \in 1 .. Len(Backends) + 1
        BY <1>1
      <4>2. QED
        BY <1>3, <3>1, <4>1
    <3>2. CASE c # UI
      <4>1. PICK n \in DOMAIN Backends : Backends[n] = c
        BY <3>2 DEF Owned, BackendSet
      <4>2. n \in 1 .. Len(Backends) /\ n \in 1 .. Len(Backends) + 1
        BY <1>1
      <4>3. QED
        BY <1>3, <4>1, <4>2
    <3>3. QED
      BY <3>1, <3>2
  <2>2. QED
    BY <1>6, <2>1
<1>8. Place(UI) = Len(Backends) + 1
  <2>1. Len(Backends) + 1 \in 1 .. Len(Backends) + 1
    BY <1>1
  <2>2. QED
    BY <1>3, <1>6, <2>1
<1>9. QED
  BY <1>1, <1>2, <1>3, <1>4, <1>6, <1>7, <1>8

(* With nothing but logs and previews queued.                              *)
LEMMA SilentOnly ==
  ASSUME NEW q, NEW states, NEW stopping \in BOOLEAN, NEW deletion \in BOOLEAN, NEW running,
         \A i \in DOMAIN q : q[i] \in Silent,
         \A c \in Owned : states[c] # "External" /\ (states[c] = "Inactive" => ~running[c])
  PROVE  QueueInv(q, states, stopping, deletion, running)
<1>1. \A i \in DOMAIN q : q[i] \notin Chain /\ q[i] \notin Opening
  BY KindsApart DEF Commands
<1>2. QED
  BY <1>1 DEF QueueInv, OneChain, RefreshFirst, StopAlone, DeletesStopped, StatesTrue, LaunchesMarked,
              Chain, Opening

(* The stop, or the deletion after it, queues its next command.            *)
LEMMA ChainExtends ==
  ASSUME NEW q \in Seq(Commands), NEW k \in Chain,
         NEW states, NEW deletion \in BOOLEAN, NEW running,
         \A i \in DOMAIN q : q[i] \notin Chain /\ (q[i] \in Opening => i = 1 /\ k = StopUi),
         k \in Deletes => deletion /\ \A c \in Components : states[c] \in {"Inactive", "External"},
         \A c \in Owned :
            /\ states[c] # "External"
            /\ states[c] = "Inactive" /\ running[c] => k \in Stops /\ Place(c) <= Place(k.on)
  PROVE  QueueInv(q \o <<k>>, states, TRUE, deletion, running)
<1>0. PICK r \in Seq(Commands) : r = <<k>> /\ Len(r) = 1 /\ r[1] = k
  <2>1. k \in Commands
    BY DEF Commands
  <2>2. QED
    BY <2>1, SingleFacts
<1>1. PICK p \in Seq(Commands) : p = q \o r
  BY ConcatFacts
<1>2. /\ Len(q) \in Nat
      /\ DOMAIN q = 1 .. Len(q)
      /\ DOMAIN p = 1 .. Len(q) + 1
      /\ \A i \in 1 .. Len(q) : p[i] = q[i]
      /\ p[Len(q) + 1] = k
  <2>1. Len(r) = 1 /\ r[1] = k /\ 1 \in 1 .. Len(r)
    BY <1>0
  <2>2. /\ Len(q) \in Nat
        /\ DOMAIN q = 1 .. Len(q)
        /\ DOMAIN p = 1 .. Len(q) + Len(r)
        /\ \A i \in 1 .. Len(q) : p[i] = q[i]
        /\ \A i \in 1 .. Len(r) : p[Len(q) + i] = r[i]
    BY <1>1, ConcatFacts
  <2>3. QED
    BY <2>1, <2>2
<1>3. k \in Commands /\ k \notin Opening /\ \A i \in DOMAIN p : p[i] \in Commands
  BY KindsApart DEF Commands
<1>4. /\ Len(q) + 1 \in DOMAIN p
      /\ \A i \in DOMAIN p : i = Len(q) + 1 \/ (i \in DOMAIN q /\ p[i] = q[i])
  BY <1>2
<1>5. ASSUME NEW i \in DOMAIN p, p[i] \in Chain PROVE i = Len(q) + 1
  BY <1>4, <1>5
<1>6. ASSUME NEW i \in DOMAIN p, p[i] \in Opening PROVE i = 1 /\ k = StopUi
  BY <1>2, <1>3, <1>4, <1>6
<1>7. OneChain(p)
  BY <1>5 DEF OneChain
<1>8. RefreshFirst(p)
  <2>1. ASSUME NEW i \in DOMAIN p, NEW j \in DOMAIN p, i < j, p[j] \in Refreshes
        PROVE  FALSE
    BY <1>2, <1>6, <2>1 DEF Opening
  <2>2. ASSUME NEW i \in DOMAIN p, NEW j \in DOMAIN p, p[i] \in Refreshes, p[j] \in Launches
        PROVE  FALSE
    BY <1>3, <1>6, <2>2, KindsApart DEF Opening
  <2>3. QED
    BY <2>1, <2>2 DEF RefreshFirst
<1>9. StopAlone(p, TRUE)
  BY <1>2, <1>4, <1>6 DEF StopAlone
<1>10. DeletesStopped(p, states, deletion)
  BY <1>2, <1>5 DEF DeletesStopped, Chain
<1>11. StatesTrue(p, states, running)
  BY <1>2, <1>4 DEF StatesTrue
<1>12. LaunchesMarked(p, states, TRUE)
  BY DEF LaunchesMarked
<1>13. QED
  BY <1>0, <1>1, <1>7, <1>8, <1>9, <1>10, <1>11, <1>12 DEF QueueInv

(* A new state of a unit.                                                  *)
LEMMA MarkKeeps ==
  ASSUME NEW q, NEW states \in [Components -> States], NEW stopping \in BOOLEAN,
         NEW deletion \in BOOLEAN, NEW running,
         QueueInv(q, states, stopping, deletion, running),
         NEW c \in Owned, NEW state \in States, state # "External",
         state # "Inactive" => \A i \in DOMAIN q : q[i] \notin Deletes,
         state = "Inactive" =>
           ~running[c] /\ (~stopping => \A i \in DOMAIN q : q[i] \in Launches => q[i].on # c \/ q[i].why # "ensure")
  PROVE  QueueInv(q, [states EXCEPT ![c] = state], stopping, deletion, running)
<1>1. PICK new \in [Components -> States] : new = [states EXCEPT ![c] = state]
  BY DEF Components
<1>2. c \in Components /\ new[c] = state /\ \A d \in Components : d # c => new[d] = states[d]
  BY <1>1 DEF Components
<1>3. \A d \in Owned : d \in Components
  BY DEF Components
<1>4. DeletesStopped(q, new, deletion)
  BY <1>2 DEF QueueInv, DeletesStopped
<1>5. StatesTrue(q, new, running)
  BY <1>2, <1>3 DEF QueueInv, StatesTrue
<1>6. LaunchesMarked(q, new, stopping)
  <2>1. ASSUME ~stopping, NEW i \in DOMAIN q, q[i] \in Launches, q[i].why = "ensure"
        PROVE  new[q[i].on] # "Inactive"
    <3>1. q[i].on \in Components
      BY <2>1 DEF Launches, Components, Owned
    <3>2. QED
      BY <1>2, <2>1, <3>1 DEF QueueInv, LaunchesMarked
  <2>2. QED
    BY <2>1 DEF LaunchesMarked
<1>7. QED
  BY <1>1, <1>4, <1>5, <1>6 DEF QueueInv

(* Other units run: none that counts as stopped and has no stop coming.    *)
LEMMA RunningKeeps ==
  ASSUME NEW q, NEW states, NEW stopping \in BOOLEAN, NEW deletion \in BOOLEAN, NEW running, NEW now,
         QueueInv(q, states, stopping, deletion, running),
         \A c \in Owned : now[c] => running[c] \/ states[c] # "Inactive" \/ \E j \in DOMAIN q : q[j] = StopUi
  PROVE  QueueInv(q, states, stopping, deletion, now)
<1>1. StopUi \in Stops /\ StopUi.on = UI
  BY DEF StopUi, Command, Stops, Owned
<1>2. \A c \in Owned : Place(c) <= Place(UI)
  BY PlaceFacts
<1>3. StatesTrue(q, states, now)
  BY <1>1, <1>2 DEF QueueInv, StatesTrue
<1>4. QED
  BY <1>3 DEF QueueInv

(* What a step of the sign-in leaves alone.  Control that is known to be   *)
(* held, or given back, stays so.                                          *)
AccountStep(s, t) ==
  /\ t \in Runtimes
  /\ t.states = s.states /\ t.current = s.current /\ t.operations = s.operations
  /\ t.starting = s.starting /\ t.stopping = s.stopping /\ t.deletion = s.deletion
  /\ t.probe = s.probe /\ t.ready = s.ready
  /\ Released(s) => Released(t)
  /\ s.probe # "none" /\ Holds(s) => Holds(t)

(* Several of them in a row.                                               *)
LEMMA AccountSteps ==
  ASSUME NEW s, NEW t, NEW u, AccountStep(s, t), AccountStep(t, u)
  PROVE  AccountStep(s, u)
  BY DEF AccountStep

(* One that writes nothing.                                                *)
LEMMA AccountSilent ==
  ASSUME NEW s, NEW t \in Runtimes,
         t.states = s.states, t.current = s.current, t.operations = s.operations,
         t.starting = s.starting, t.stopping = s.stopping, t.deletion = s.deletion,
         t.probe = s.probe, t.ready = s.ready, t.out = s.out,
         s.controller = "probe" /\ s.login # NoLogin => t.controller = "probe" /\ t.login # NoLogin
  PROVE  AccountStep(s, t)
  BY DEF AccountStep, Released, Holds

(* A line is written to the probe, if there is one.                        *)
LEMMA WriteFacts ==
  ASSUME NEW s \in Runtimes, NEW line \in OutLines
  PROVE  /\ AccountStep(s, Write(s, line))
         /\ Write(s, line).login = s.login /\ Write(s, line).requests = s.requests
         /\ Write(s, line).controller = s.controller
         /\ s.probe # "none" /\ line = Release => Released(Write(s, line))
<1>1. CASE s.probe = "none"
  BY <1>1, AccountSilent DEF Write
<1>2. CASE s.probe # "none"
  <2>0. s.out \in Seq(OutLines)
    BY DEF Runtimes
  <2>1. PICK more \in Seq(OutLines) : more = Append(s.out, line)
    BY <2>0, AppendFacts
  <2>2. /\ Len(s.out) \in Nat
        /\ DOMAIN s.out = 1 .. Len(s.out)
        /\ DOMAIN more = 1 .. Len(s.out) + 1
        /\ \A i \in 1 .. Len(s.out) : more[i] = s.out[i]
        /\ more[Len(s.out) + 1] = line
    BY <2>0, <2>1, AppendFacts
  <2>3. PICK t \in Runtimes : t = [s EXCEPT !.out = more]
    BY DEF Runtimes
  <2>4. Write(s, line) = t
    BY <1>2, <2>1, <2>3 DEF Write
  <2>5. /\ t.states = s.states /\ t.current = s.current /\ t.operations = s.operations
        /\ t.starting = s.starting /\ t.stopping = s.stopping /\ t.deletion = s.deletion
        /\ t.probe = s.probe /\ t.ready = s.ready /\ t.out = more
        /\ t.login = s.login /\ t.requests = s.requests /\ t.controller = s.controller
    BY <2>3 DEF Runtimes
  <2>6. Released(s) => Released(t)
    BY <2>2, <2>5 DEF Released
  <2>7. line = Release => Released(t)
    BY <2>2, <2>5 DEF Released
  <2>8. QED
    BY <2>4, <2>5, <2>6, <2>7 DEF AccountStep, Holds
<1>3. QED
  BY <1>1, <1>2

(* The three lines that are written without an answer.                     *)
LEMMA PlainLines ==
  /\ Release \in OutLines
  /\ [line |-> "acquire"] \in OutLines
  /\ [line |-> "quit"] \in OutLines
  BY DEF Release, OutLines

(* giveBack: control that the manager knows of is released.                *)
LEMMA GiveBackFacts ==
  ASSUME NEW s \in Runtimes
  PROVE  /\ AccountStep(s, GiveBack(s))
         /\ GiveBack(s).login = s.login /\ GiveBack(s).requests = s.requests
         /\ s.probe # "none" /\ Holds(s) => Released(GiveBack(s))
<1>1. CASE s.controller = "probe"
  BY <1>1, WriteFacts, PlainLines DEF GiveBack
<1>2. CASE s.controller # "probe"
  BY <1>2, AccountSilent DEF GiveBack, Holds
<1>3. QED
  BY <1>1, <1>2

(* The account is forgotten, the sign-in and its requests with it.         *)
LEMMA ForgetFacts ==
  ASSUME NEW s \in Runtimes
  PROVE  /\ AccountStep(s, ForgetAccount(s))
         /\ ForgetAccount(s).login = NoLogin /\ ForgetAccount(s).requests = {}
<1>1. PICK g \in Runtimes : g = GiveBack(s)
  BY GiveBackFacts DEF AccountStep
<1>2. NoLogin \in Logins
  BY DEF NoLogin, Logins, Phases, SignIns
<1>3. PICK t \in Runtimes : t = [g EXCEPT !.login = NoLogin, !.requests = {}, !.account = "Unknown",
                                          !.controller = "nobody"]
  BY <1>2 DEF Runtimes, Who
<1>4. /\ t.states = g.states /\ t.current = g.current /\ t.operations = g.operations
      /\ t.starting = g.starting /\ t.stopping = g.stopping /\ t.deletion = g.deletion
      /\ t.probe = g.probe /\ t.ready = g.ready /\ t.out = g.out
      /\ t.login = NoLogin /\ t.requests = {}
  BY <1>3 DEF Runtimes
<1>5. ForgetAccount(s) = t
  BY <1>1, <1>3 DEF ForgetAccount
<1>6. /\ AccountStep(s, g)
      /\ s.probe # "none" /\ Holds(s) => Released(g)
  BY <1>1, GiveBackFacts
<1>7. Released(t) <=> Released(g)
  BY <1>4 DEF Released
<1>8. QED
  BY <1>4, <1>5, <1>6, <1>7 DEF AccountStep, Holds

(* finishAuthentication: the sign-in is over, and so are its requests.     *)
LEMMA FinishFacts ==
  ASSUME NEW s \in Runtimes
  PROVE  /\ AccountStep(s, FinishAuthentication(s))
         /\ FinishAuthentication(s).login = NoLogin
         /\ FinishAuthentication(s).requests = s.requests \ LoginRequests(s)
<1>1. NoLogin \in Logins
  BY DEF NoLogin, Logins, Phases, SignIns
<1>2. PICK t \in Runtimes : t = [s EXCEPT !.login = NoLogin, !.requests = @ \ LoginRequests(s)]
  BY <1>1 DEF Runtimes
<1>3. /\ t.states = s.states /\ t.current = s.current /\ t.operations = s.operations
      /\ t.starting = s.starting /\ t.stopping = s.stopping /\ t.deletion = s.deletion
      /\ t.probe = s.probe /\ t.ready = s.ready /\ t.out = s.out /\ t.controller = s.controller
      /\ t.login = NoLogin /\ t.requests = s.requests \ LoginRequests(s)
  BY <1>2 DEF Runtimes
<1>4. FinishAuthentication(s) = GiveBack(t)
  BY <1>2 DEF FinishAuthentication
<1>5. Released(s) <=> Released(t)
  BY <1>3 DEF Released
<1>6. AccountStep(t, GiveBack(t)) /\ GiveBack(t).login = t.login /\ GiveBack(t).requests = t.requests
  BY GiveBackFacts
<1>7. s.controller = "probe" /\ s.probe # "none" => Released(GiveBack(t))
  <2>1. CASE s.controller = "probe" /\ s.probe # "none"
    BY <1>3, <2>1, WriteFacts, PlainLines DEF GiveBack
  <2>2. QED
    BY <2>1
<1>8. QED
  BY <1>3, <1>4, <1>5, <1>6, <1>7 DEF AccountStep, Holds

(* A step of the sign-in keeps what is said of the probe.                  *)
LEMMA AccountProbe ==
  ASSUME NEW s, NEW t, AccountStep(s, t), ProbeInv(s)
  PROVE  ProbeInv(t)
  BY DEF AccountStep, ProbeInv

(* With no sign-in and no request of one.                                  *)
LEMMA LoginOver ==
  ASSUME NEW s, s.login = NoLogin, LoginRequests(s) = {}, s.requests # {} => s.ready
  PROVE  LoginInv(s)
  BY DEF LoginInv

(* Forgetting and finishing leave no sign-in.                              *)
LEMMA OverFacts ==
  ASSUME NEW s \in Runtimes
  PROVE  /\ LoginInv(ForgetAccount(s))
         /\ (s.requests # {} => s.ready) => LoginInv(FinishAuthentication(s))
<1>1. LoginInv(ForgetAccount(s))
  <2>1. LoginRequests(ForgetAccount(s)) = {}
    BY ForgetFacts DEF LoginRequests
  <2>2. QED
    BY <2>1, ForgetFacts, LoginOver
<1>2. ASSUME s.requests # {} => s.ready PROVE LoginInv(FinishAuthentication(s))
  <2>1. PICK t \in Runtimes : t = FinishAuthentication(s)
    BY FinishFacts DEF AccountStep
  <2>2. t.login = NoLogin /\ t.requests = s.requests \ LoginRequests(s) /\ t.ready = s.ready
    BY <2>1, FinishFacts DEF AccountStep
  <2>3. LoginRequests(t) = {}
    BY <2>2 DEF LoginRequests
  <2>4. LoginInv(t)
    BY <1>2, <2>2, <2>3, LoginOver
  <2>5. QED
    BY <2>1, <2>4
<1>3. QED
  BY <1>1, <1>2

(* accountRequest: it is made of a probe that is ready, or not at all.     *)
LEMMA RequestFacts ==
  ASSUME NEW s \in Runtimes, NEW method \in Methods, NEW extra \in Nat \cup SignIns
  PROVE  /\ AccountStep(s, AccountRequest(s, method, extra))
         /\ AccountRequest(s, method, extra).login = s.login
         /\ AccountRequest(s, method, extra).controller = s.controller
         /\ \A r \in AccountRequest(s, method, extra).requests : r \in s.requests \/ r.method = method
         /\ ~s.ready => AccountRequest(s, method, extra).requests = s.requests
<1>1. CASE ~(s.ready /\ ~s.stopping)
  <2>1. AccountRequest(s, method, extra) = s
    BY <1>1 DEF AccountRequest
  <2>2. QED
    BY <2>1, AccountSilent
<1>2. CASE s.ready /\ ~s.stopping
  <2>1. PICK id \in Nat : id = s.sequence + 1
    BY DEF Runtimes
  <2>2. PICK r \in [id : Nat, method : Methods] : r = [id |-> id, method |-> method]
    OBVIOUS
  <2>3. PICK t \in Runtimes : t = [s EXCEPT !.sequence = id, !.requests = @ \cup {r}]
    BY DEF Runtimes
  <2>4. /\ t.states = s.states /\ t.current = s.current /\ t.operations = s.operations
        /\ t.starting = s.starting /\ t.stopping = s.stopping /\ t.deletion = s.deletion
        /\ t.probe = s.probe /\ t.ready = s.ready /\ t.out = s.out /\ t.controller = s.controller
        /\ t.login = s.login /\ t.requests = s.requests \cup {r}
    BY <2>3 DEF Runtimes
  <2>5. PICK line \in OutLines : line = [line |-> "raw", id |-> id, method |-> method, extra |-> extra]
    BY DEF OutLines
  <2>6. AccountRequest(s, method, extra) = Write(t, line)
    BY <1>2, <2>1, <2>2, <2>3, <2>5 DEF AccountRequest
  <2>7. AccountStep(s, t)
    BY <2>4, AccountSilent
  <2>8. /\ AccountStep(t, Write(t, line))
        /\ Write(t, line).login = t.login /\ Write(t, line).requests = t.requests
        /\ Write(t, line).controller = t.controller
    BY WriteFacts
  <2>9. r.method = method
    BY <2>2
  <2>10. QED
    BY <1>2, <2>4, <2>6, <2>7, <2>8, <2>9, AccountSteps
<1>3. QED
  BY <1>1, <1>2

(* refreshAccount: asking for the account is not part of a sign-in.        *)
LEMMA RefreshFacts ==
  ASSUME NEW s \in Runtimes
  PROVE  /\ AccountStep(s, RefreshAccount(s))
         /\ RefreshAccount(s).login = s.login
         /\ LoginInv(s) => LoginInv(RefreshAccount(s))
<1>1. CASE Asks(s, Read)
  BY <1>1, AccountSilent DEF RefreshAccount
<1>2. CASE ~Asks(s, Read)
  <2>1. Read \in Methods /\ 0 \in Nat \cup SignIns
    BY DEF Methods
  <2>2. RefreshAccount(s) = AccountRequest(s, Read, 0)
    BY <1>2 DEF RefreshAccount
  <2>3. PICK t \in Runtimes : t = AccountRequest(s, Read, 0)
    BY <2>1, RequestFacts DEF AccountStep
  <2>4. /\ AccountStep(s, t) /\ t.login = s.login /\ t.ready = s.ready
        /\ \A r \in t.requests : r \in s.requests \/ r.method = Read
        /\ ~s.ready => t.requests = s.requests
    BY <2>1, <2>3, RequestFacts DEF AccountStep
  <2>5. LoginRequests(t) # {} => LoginRequests(s) # {}
    BY <2>4 DEF LoginRequests
  <2>6. LoginInv(s) => LoginInv(t)
    BY <2>4, <2>5 DEF LoginInv
  <2>7. QED
    BY <2>2, <2>3, <2>4, <2>6
<1>3. QED
  BY <1>1, <1>2

(* cancelLogin of a sign-in that goes on.                                  *)
LEMMA CancelFacts ==
  ASSUME NEW s \in Runtimes, LoginInv(s), s.login.phase # "none"
  PROVE  AccountStep(s, CancelLogin(s)) /\ LoginInv(CancelLogin(s))
<1>1. s.login # NoLogin
  BY DEF NoLogin
<1>2. PICK l \in Logins : l = [s.login EXCEPT !.phase = "Cancelling"]
  BY DEF Runtimes, Logins, Phases
<1>3. PICK t \in Runtimes : t = [s EXCEPT !.login.phase = "Cancelling"] /\ t = [s EXCEPT !.login = l]
  BY <1>2 DEF Runtimes
<1>4. /\ t.states = s.states /\ t.current = s.current /\ t.operations = s.operations
      /\ t.starting = s.starting /\ t.stopping = s.stopping /\ t.deletion = s.deletion
      /\ t.probe = s.probe /\ t.ready = s.ready /\ t.out = s.out /\ t.controller = s.controller
      /\ t.requests = s.requests /\ t.login = l
  BY <1>3 DEF Runtimes
<1>5. l.phase = "Cancelling" /\ l # NoLogin
  BY <1>2 DEF Logins, NoLogin
<1>6. AccountStep(s, t)
  BY <1>4, <1>5, AccountSilent
<1>7. LoginInv(t)
  BY <1>1, <1>4, <1>5 DEF LoginInv, LoginRequests
<1>8. CASE s.login.id # 0 /\ ~Asks(s, "account/login/cancel")
  <2>1. PICK m \in Methods, e \in Nat \cup SignIns : m = "account/login/cancel" /\ e = s.login.id
    BY DEF Methods, Runtimes, Logins
  <2>2. /\ AccountStep(t, AccountRequest(t, m, e)) /\ AccountRequest(t, m, e).login = t.login
        /\ ~t.ready => AccountRequest(t, m, e).requests = t.requests
    BY RequestFacts
  <2>3. PICK u \in Runtimes : u = AccountRequest(t, m, e)
    BY <2>2 DEF AccountStep
  <2>4. /\ AccountStep(t, u) /\ u.login = t.login
        /\ ~t.ready => u.requests = t.requests
    BY <2>2, <2>3
  <2>5. LoginInv(u)
    <3>1. u.ready = t.ready
      BY <2>4 DEF AccountStep
    <3>2. QED
      BY <1>4, <1>5, <1>7, <2>4, <3>1 DEF LoginInv
  <2>6. CancelLogin(s) = u
    BY <1>3, <1>8, <2>1, <2>3 DEF CancelLogin
  <2>7. QED
    BY <1>6, <2>4, <2>5, <2>6, AccountSteps
<1>9. CASE ~(s.login.id # 0 /\ ~Asks(s, "account/login/cancel")) /\ s.login.phase = "Claiming"
  <2>1. CancelLogin(s) = FinishAuthentication(s)
    BY <1>9 DEF CancelLogin
  <2>2. QED
    BY <2>1, FinishFacts, OverFacts DEF LoginInv
<1>10. CASE ~(s.login.id # 0 /\ ~Asks(s, "account/login/cancel")) /\ s.login.phase = "Starting"
  <2>1. CancelLogin(s) = t
    BY <1>3, <1>10 DEF CancelLogin
  <2>2. QED
    BY <1>6, <1>7, <2>1
<1>11. CASE ~(s.login.id # 0 /\ ~Asks(s, "account/login/cancel")) /\ s.login.phase \notin {"Claiming", "Starting"}
  <2>1. CancelLogin(s) = s
    BY <1>11 DEF CancelLogin
  <2>2. QED
    BY <2>1, AccountSilent
<1>12. QED
  BY <1>8, <1>9, <1>10, <1>11

(* What a step of the opening leaves alone.                                *)
ClientSame(s, t) ==
  /\ t \in Runtimes
  /\ t.stopping = s.stopping /\ t.deletion = s.deletion
  /\ t.starting => s.starting
  /\ t.probe = s.probe /\ t.ready = s.ready /\ t.out = s.out
  /\ t.login = s.login /\ t.requests = s.requests /\ t.controller = s.controller

(* What that keeps.                                                        *)
LEMMA ClientKeeps ==
  ASSUME NEW s, NEW t, ClientSame(s, t), ClosedInv(s)
  PROVE  /\ ClosedInv(t)
         /\ \A b, lines : ControlInv(s, b, lines) => ControlInv(t, b, lines)
<1>1. LoginRequests(t) = LoginRequests(s)
  BY DEF ClientSame, LoginRequests
<1>2. Released(s) <=> Released(t)
  BY DEF ClientSame, Released
<1>3. QED
  BY <1>1, <1>2 DEF ClientSame, ClosedInv, ProbeInv, LoginInv, ControlInv, Holds

(* Sequences one after the other.                                          *)
LEMMA ConcatThree ==
  ASSUME NEW S, NEW k \in S, NEW q \in Seq(S), NEW r \in Seq(S)
  PROVE  <<k>> \o (q \o r) = (<<k>> \o q) \o r
<1>1. PICK a \in Seq(S) : a = <<k>> \o q
  BY PrependFacts
<1>2. PICK b \in Seq(S) : b = q \o r
  BY ConcatFacts
<1>3. PICK x \in Seq(S) : x = <<k>> \o b
  BY PrependFacts
<1>4. PICK y \in Seq(S) : y = a \o r
  BY ConcatFacts
<1>5. Len(q) \in Nat /\ Len(r) \in Nat
  OBVIOUS
<1>6. Len(a) = Len(q) + 1 /\ a[1] = k /\ \A i \in 1 .. Len(q) : a[i + 1] = q[i]
  BY <1>1
<1>7. Len(b) = Len(q) + Len(r) /\ \A i \in 1 .. Len(q) : b[i] = q[i]
  BY <1>2
<1>8. \A i \in 1 .. Len(r) : b[Len(q) + i] = r[i]
  BY <1>2, ConcatFacts
<1>9. Len(x) = Len(b) + 1 /\ x[1] = k /\ \A i \in 1 .. Len(b) : x[i + 1] = b[i]
  BY <1>3
<1>10. Len(y) = Len(a) + Len(r) /\ \A i \in 1 .. Len(a) : y[i] = a[i]
  BY <1>4
<1>11. \A i \in 1 .. Len(r) : y[Len(a) + i] = r[i]
  BY <1>4, ConcatFacts
<1>12. Len(x) = Len(y)
  BY <1>5, <1>6, <1>7, <1>9, <1>10
<1>13. ASSUME NEW i \in 1 .. Len(x) PROVE x[i] = y[i]
  <2>1. CASE i = 1
    BY <1>5, <1>6, <1>9, <1>10, <2>1
  <2>2. CASE i # 1 /\ i <= Len(q) + 1
    <3>1. i - 1 \in 1 .. Len(q) /\ (i - 1) + 1 = i /\ i - 1 \in 1 .. Len(b) /\ i \in 1 .. Len(a)
      BY <1>5, <1>6, <1>7, <1>9, <2>2
    <3>2. x[i] = b[i - 1] /\ b[i - 1] = q[i - 1] /\ y[i] = a[i] /\ a[i] = q[i - 1]
      BY <1>6, <1>7, <1>9, <1>10, <3>1
    <3>3. QED
      BY <3>2
  <2>3. CASE i > Len(q) + 1
    <3>0. Len(x) = Len(q) + Len(r) + 1
      BY <1>5, <1>7, <1>9
    <3>1. /\ i - Len(q) - 1 \in 1 .. Len(r)
          /\ i = (i - Len(q) - 1) + Len(q) + 1
      BY <1>5, <2>3, <3>0
    <3>2. PICK n \in 1 .. Len(r) : i = n + Len(q) + 1
      BY <3>1
    <3>3. i = (Len(q) + n) + 1 /\ Len(q) + n \in 1 .. Len(b) /\ i = Len(a) + n
      BY <1>5, <1>6, <1>7, <3>2
    <3>4. x[i] = b[Len(q) + n]
      BY <1>9, <3>3
    <3>5. b[Len(q) + n] = r[n] /\ y[i] = r[n]
      BY <1>8, <1>11, <3>3
    <3>6. QED
      BY <3>4, <3>5
  <2>4. QED
    BY <1>5, <2>1, <2>2, <2>3
<1>14. x = y
  <2>1. x \in [1 .. Len(x) -> S]
    OBVIOUS
  <2>2. y \in [1 .. Len(x) -> S]
    BY <1>12
  <2>3. QED
    BY <1>13, <2>1, <2>2
<1>15. QED
  BY <1>1, <1>2, <1>3, <1>4, <1>14

(* The queue is a sequence of commands.                                    *)
LEMMA QueueType ==
  ASSUME NEW s \in Runtimes
  PROVE  Queue(s) \in Seq(Commands)
<1>1. s.operations \in Seq(Commands) /\ s.current \in Commands \cup {NoOperation}
  BY DEF Runtimes
<1>2. QED
  BY <1>1, PrependFacts DEF Queue

(* enqueue: the commands go to the end, and the first may run at once.     *)
LEMMA EnqueueFacts ==
  ASSUME NEW s \in Runtimes, NEW R \in SUBSET Commands, NEW commands \in Seq(R)
  PROVE  /\ ClientSame(s, Enqueue(s, commands))
         /\ Enqueue(s, commands).states = s.states
         /\ Enqueue(s, commands).starting = s.starting
         /\ Queue(Enqueue(s, commands)) = Queue(s) \o commands
<1>0. commands \in Seq(Commands)
  OBVIOUS
<1>1. s.operations \in Seq(Commands) /\ s.current \in Commands \cup {NoOperation}
  BY DEF Runtimes
<1>2. PICK all \in Seq(Commands) : all = s.operations \o commands
  BY <1>0, <1>1, ConcatFacts
<1>3. CASE s.current = NoOperation /\ commands # <<>>
  <2>1. all # <<>>
    <3>1. Len(all) = Len(s.operations) + Len(commands)
      BY <1>0, <1>1, <1>2
    <3>2. Len(s.operations) \in Nat /\ Len(commands) \in Nat \ {0}
      BY <1>0, <1>1, <1>3
    <3>3. Len(all) # 0
      BY <3>1, <3>2
    <3>4. QED
      BY <3>3
  <2>2. PICK k \in Commands, rest \in Seq(Commands) : k = Head(all) /\ rest = Tail(all)
    BY <2>1, TailFacts
  <2>3. all = <<k>> \o rest
    BY <2>1, <2>2
  <2>4. PICK t \in Runtimes : t = [s EXCEPT !.current = k, !.operations = rest]
    BY DEF Runtimes
  <2>5. t.current = k /\ t.operations = rest /\ t.states = s.states /\ t.starting = s.starting
    BY <2>4 DEF Runtimes
  <2>6. ClientSame(s, t)
    BY <2>4 DEF ClientSame, Runtimes
  <2>7. Queue(t) = all
    BY <2>3, <2>5, KindFacts DEF Queue
  <2>8. Enqueue(s, commands) = t
    BY <1>2, <1>3, <2>2, <2>4 DEF Enqueue
  <2>9. Queue(s) = s.operations
    BY <1>3 DEF Queue
  <2>10. QED
    BY <1>2, <2>5, <2>6, <2>7, <2>8, <2>9
<1>4. CASE ~(s.current = NoOperation /\ commands # <<>>)
  <2>1. PICK t \in Runtimes : t = [s EXCEPT !.operations = all]
    BY DEF Runtimes
  <2>2. t.current = s.current /\ t.operations = all /\ t.states = s.states /\ t.starting = s.starting
    BY <2>1 DEF Runtimes
  <2>3. ClientSame(s, t)
    BY <2>1 DEF ClientSame, Runtimes
  <2>4. Enqueue(s, commands) = t
    BY <1>2, <1>4, <2>1 DEF Enqueue
  <2>5. CASE s.current = NoOperation
    BY <1>2, <2>2, <2>3, <2>4, <2>5 DEF Queue
  <2>6. CASE s.current # NoOperation
    <3>1. PICK k \in Commands, q \in Seq(Commands) : k = s.current /\ q = s.operations
      BY <1>1, <2>6
    <3>2. <<k>> \o (q \o commands) = (<<k>> \o q) \o commands
      BY <1>0, ConcatThree
    <3>3. QED
      BY <1>2, <2>2, <2>3, <2>4, <2>6, <3>1, <3>2 DEF Queue
  <2>7. QED
    BY <2>5, <2>6
<1>5. QED
  BY <1>3, <1>4

(* What opens the profile keeps what is said of the services.              *)
OpeningStep(s, t) ==
  /\ ClientSame(s, t)
  /\ \A running : ServiceInv(s, running) => ServiceInv(t, running)

(* Several of them in a row.                                               *)
LEMMA OpeningSteps ==
  ASSUME NEW s, NEW t, NEW u, OpeningStep(s, t), OpeningStep(t, u)
  PROVE  OpeningStep(s, u)
  BY DEF OpeningStep, ClientSame

(* One that concerns no service.                                           *)
LEMMA OpeningSilent ==
  ASSUME NEW s, NEW t, ClientSame(s, t),
         t.states = s.states, t.current = s.current, t.operations = s.operations
  PROVE  OpeningStep(s, t)
<1>1. Queue(t) = Queue(s) /\ t.stopping = s.stopping /\ t.deletion = s.deletion
  BY DEF Queue, ClientSame
<1>2. QED
  BY <1>1 DEF OpeningStep, ServiceInv

(* The state of a unit is set.                                             *)
LEMMA MarkFacts ==
  ASSUME NEW s \in Runtimes, NEW c \in Owned, NEW state \in States
  PROVE  /\ ClientSame(s, Mark(s, c, state))
         /\ Mark(s, c, state).states = [s.states EXCEPT ![c] = state]
         /\ Mark(s, c, state).starting = s.starting
         /\ Mark(s, c, state).current = s.current
         /\ Mark(s, c, state).operations = s.operations
         /\ Queue(Mark(s, c, state)) = Queue(s)
<1>1. PICK new \in [Components -> States] : new = [s.states EXCEPT ![c] = state]
  BY DEF Runtimes
<1>2. PICK t \in Runtimes : t = [s EXCEPT !.states = new]
  BY DEF Runtimes
<1>3. Mark(s, c, state) = t
  BY <1>1, <1>2 DEF Mark, Runtimes
<1>4. ClientSame(s, t) /\ t.states = new /\ t.starting = s.starting /\ t.current = s.current
      /\ t.operations = s.operations
  BY <1>2 DEF ClientSame, Runtimes
<1>5. QED
  BY <1>1, <1>3, <1>4 DEF Queue

(* While the profile is open, a unit may be shown as anything but stopped. *)
LEMMA OpenMark ==
  ASSUME NEW s \in Runtimes, ~s.stopping, NEW c \in Owned, NEW state \in States \ {"External", "Inactive"}
  PROVE  OpeningStep(s, Mark(s, c, state))
<1>1. PICK t \in Runtimes : t = Mark(s, c, state)
  BY MarkFacts DEF ClientSame
<1>2. /\ ClientSame(s, t) /\ t.states = [s.states EXCEPT ![c] = state] /\ Queue(t) = Queue(s)
  BY <1>1, MarkFacts
<1>3. t.stopping = s.stopping /\ t.deletion = s.deletion
  BY <1>2 DEF ClientSame
<1>4. s.states \in [Components -> States] /\ s.stopping \in BOOLEAN /\ s.deletion \in BOOLEAN
  BY DEF Runtimes
<1>5. ASSUME NEW running, ServiceInv(s, running) PROVE ServiceInv(t, running)
  <2>1. \A i \in DOMAIN Queue(s) : Queue(s)[i] \notin Deletes
    BY <1>5 DEF ServiceInv, QueueInv, StopAlone, Chain
  <2>2. QueueInv(Queue(s), s.states, s.stopping, s.deletion, running)
    BY <1>5 DEF ServiceInv
  <2>3. QueueInv(Queue(s), [s.states EXCEPT ![c] = state], s.stopping, s.deletion, running)
    BY <1>4, <2>1, <2>2, MarkKeeps
  <2>4. QED
    BY <1>2, <1>3, <2>3 DEF ServiceInv
<1>6. QED
  BY <1>1, <1>2, <1>5 DEF OpeningStep

(* While the profile is open, a look at a unit may be queued.              *)
LEMMA OpenEnqueue ==
  ASSUME NEW s \in Runtimes, ~s.stopping, NEW k \in Looks
  PROVE  OpeningStep(s, Enqueue(s, <<k>>))
<1>0. {k} \in SUBSET Commands /\ k \notin Launches
  BY KindsApart DEF Commands, Opening
<1>1. PICK r \in Seq({k}) : r = <<k>>
  BY SingleFacts
<1>2. /\ ClientSame(s, Enqueue(s, r)) /\ Enqueue(s, r).states = s.states
      /\ Queue(Enqueue(s, r)) = Queue(s) \o r
  BY <1>0, EnqueueFacts
<1>3. PICK t \in Runtimes : t = Enqueue(s, r)
  BY <1>2 DEF ClientSame
<1>4. t.stopping = s.stopping /\ t.deletion = s.deletion /\ t.states = s.states /\ Queue(t) = Queue(s) \o r
  BY <1>2, <1>3 DEF ClientSame
<1>5. s.stopping \in BOOLEAN /\ s.deletion \in BOOLEAN
  BY DEF Runtimes
<1>6. Extended(Queue(s), Queue(t), {k})
  BY <1>0, <1>4, QueueType, ConcatExtends
<1>7. ASSUME NEW running, ServiceInv(s, running) PROVE ServiceInv(t, running)
  <2>1. QueueInv(Queue(s), s.states, s.stopping, s.deletion, running)
    BY <1>7 DEF ServiceInv
  <2>2. PICK q \in Seq(Commands), p \in Seq(Commands), b \in BOOLEAN, d \in BOOLEAN :
                q = Queue(s) /\ p = Queue(t) /\ b = s.stopping /\ d = s.deletion
    BY <1>5, QueueType
  <2>3. Extended(q, p, {k}) /\ QueueInv(q, s.states, b, d, running) /\ ~b
    BY <1>6, <2>1, <2>2
  <2>4. k \in Looks \cup Launches
    OBVIOUS
  <2>5. QueueInv(p, s.states, b, d, running)
    BY <1>0, <2>3, <2>4, OpeningExtends
  <2>6. QED
    BY <1>4, <2>2, <2>5 DEF ServiceInv
<1>8. QED
  BY <1>1, <1>2, <1>3, <1>7 DEF OpeningStep

(* A start that fails is over.                                             *)
LEMMA FailFacts ==
  ASSUME NEW s \in Runtimes
  PROVE  OpeningStep(s, Fail(s))
<1>1. PICK t \in Runtimes : t = Fail(s)
  BY DEF Runtimes, Fail
<1>2. ClientSame(s, t) /\ t.states = s.states /\ t.current = s.current /\ t.operations = s.operations
  BY <1>1 DEF ClientSame, Runtimes, Fail
<1>3. QED
  BY <1>1, <1>2, OpeningSilent

(* ensureUi of a profile that is open.                                     *)
LEMMA EnsureUiOpens ==
  ASSUME NEW s \in Runtimes, ~s.stopping
  PROVE  OpeningStep(s, EnsureUi(s))
<1>1. UI \in Owned /\ "Running" \in States \ {"External", "Inactive"}
      /\ "Starting" \in States \ {"External", "Inactive"}
  BY DEF Owned, States
<1>2. CASE s.states[UI] = "Starting"
  <2>1. EnsureUi(s) = s
    BY <1>2 DEF EnsureUi
  <2>2. ClientSame(s, s)
    BY DEF ClientSame
  <2>3. QED
    BY <2>1, <2>2, OpeningSilent
<1>3. CASE s.states[UI] # "Starting" /\ listening
  BY <1>1, <1>3, OpenMark DEF EnsureUi
<1>4. CASE s.states[UI] # "Starting" /\ ~listening
  <2>1. PICK t \in Runtimes : t = Mark(s, UI, "Starting")
    BY <1>1, OpenMark DEF OpeningStep, ClientSame
  <2>2. OpeningStep(s, t)
    BY <1>1, <2>1, OpenMark
  <2>3. ~t.stopping
    BY <2>2 DEF OpeningStep, ClientSame
  <2>4. PICK k \in Looks : k = Command("show", UI, "ui")
    BY DEF Looks, Command
  <2>5. OpeningStep(t, Enqueue(t, <<k>>))
    BY <2>3, OpenEnqueue
  <2>6. EnsureUi(s) = Enqueue(t, <<k>>)
    BY <1>4, <2>1, <2>4 DEF EnsureUi
  <2>7. QED
    BY <2>2, <2>5, <2>6, OpeningSteps
<1>5. QED
  BY <1>2, <1>3, <1>4

(* updateReadiness of a profile that is open.                              *)
LEMMA ReadinessOpens ==
  ASSUME NEW s \in Runtimes, ~s.stopping
  PROVE  OpeningStep(s, UpdateReadiness(s))
<1>1. PICK r \in Runtimes : r = [s EXCEPT !.readiness = FALSE, !.starting = FALSE]
  BY DEF Runtimes
<1>2. PICK o \in Runtimes : o = [r EXCEPT !.openRequested = FALSE]
  BY DEF Runtimes
<1>3. OpeningStep(s, r)
  <2>1. ClientSame(s, r) /\ r.states = s.states /\ r.current = s.current /\ r.operations = s.operations
    BY <1>1 DEF ClientSame, Runtimes
  <2>2. QED
    BY <2>1, OpeningSilent
<1>4. OpeningStep(r, o)
  <2>1. ClientSame(r, o) /\ o.states = r.states /\ o.current = r.current /\ o.operations = r.operations
    BY <1>2 DEF ClientSame, Runtimes
  <2>2. QED
    BY <2>1, OpeningSilent
<1>5. OpeningStep(s, o)
  BY <1>3, <1>4, OpeningSteps
<1>6. OpeningStep(s, EnsureUi(o))
  <2>1. ~o.stopping
    BY <1>5 DEF OpeningStep, ClientSame
  <2>2. QED
    BY <1>5, <2>1, EnsureUiOpens, OpeningSteps
<1>7. OpeningStep(s, s)
  <2>1. ClientSame(s, s)
    BY DEF ClientSame
  <2>2. QED
    BY <2>1, OpeningSilent
<1>8. UpdateReadiness(s) \in {s, r, o, EnsureUi(o)}
  BY <1>1, <1>2 DEF UpdateReadiness
<1>9. QED
  BY <1>3, <1>5, <1>6, <1>7, <1>8

(* What opens the profile keeps everything that is said of it.             *)
LEMMA HealthyOpening ==
  ASSUME NEW s, NEW t, OpeningStep(s, t),
         NEW running, NEW b, NEW lines, Healthy(s, running, b, lines)
  PROVE  Healthy(t, running, b, lines) /\ t.stopping = s.stopping
  BY ClientKeeps DEF OpeningStep, Healthy, ClientSame

(* So does the sign-in.                                                    *)
LEMMA HealthyAccount ==
  ASSUME NEW s, NEW t, AccountStep(s, t), LoginInv(t),
         NEW running, NEW b, NEW lines, Healthy(s, running, b, lines)
  PROVE  Healthy(t, running, b, lines) /\ t.stopping = s.stopping
<1>1. ClosedInv(t)
  BY AccountProbe DEF Healthy, ClosedInv
<1>2. ControlInv(t, b, lines)
  BY DEF Healthy, ControlInv, AccountStep
<1>3. Queue(t) = Queue(s) /\ t.states = s.states /\ t.stopping = s.stopping /\ t.deletion = s.deletion
      /\ t \in Runtimes
  BY DEF AccountStep, Queue
<1>4. ServiceInv(t, running)
  BY <1>3 DEF Healthy, ServiceInv
<1>5. QED
  BY <1>1, <1>2, <1>3, <1>4 DEF Healthy

(* beginProbe: a new probe starts without readiness, sign-in and control.  *)
LEMMA BeginProbeKeeps ==
  ASSUME NEW s, ~s.stopping,
         NEW running, NEW b, NEW lines, Healthy(s, running, b, lines)
  PROVE  Healthy(BeginProbe(s), running, b, lines) /\ ~BeginProbe(s).stopping
<1>1. s \in Runtimes
  BY DEF Healthy
<1>2. CASE s.probe = "none"
  <2>1. PICK t \in Runtimes :
          t = [s EXCEPT !.probe = "running", !.ready = FALSE, !.observer = FALSE, !.readiness = TRUE]
    BY <1>1 DEF Runtimes
  <2>2. BeginProbe(s) = t
    BY <1>2, <2>1 DEF BeginProbe
  <2>3. /\ t.states = s.states /\ t.current = s.current /\ t.operations = s.operations
        /\ t.starting = s.starting /\ t.stopping = s.stopping /\ t.deletion = s.deletion
        /\ t.probe = "running" /\ t.ready = FALSE
        /\ t.login = s.login /\ t.requests = s.requests
    BY <1>1, <2>1 DEF Runtimes
  <2>4. s.login = NoLogin /\ s.requests = {}
    BY <1>2 DEF Healthy, ClosedInv, ProbeInv, LoginInv
  <2>5. LoginRequests(t) = {} /\ t.login = NoLogin /\ t.requests = {}
    BY <2>3, <2>4 DEF LoginRequests
  <2>6. LoginInv(t)
    BY <2>5, LoginOver
  <2>7. ProbeInv(t)
    BY <2>3 DEF Healthy, ClosedInv, ProbeInv
  <2>8. ControlInv(t, b, lines)
    BY <1>2, <2>3 DEF Healthy, ControlInv
  <2>9. Queue(t) = Queue(s)
    BY <2>3 DEF Queue
  <2>10. ServiceInv(t, running)
    BY <2>3, <2>9 DEF Healthy, ServiceInv
  <2>11. QED
    BY <2>2, <2>3, <2>6, <2>7, <2>8, <2>10 DEF Healthy, ClosedInv
<1>3. CASE s.probe # "none" /\ s.ready /\ s.observer
  BY <1>1, <1>3, ReadinessOpens, HealthyOpening DEF BeginProbe
<1>4. CASE s.probe # "none" /\ ~(s.ready /\ s.observer)
  <2>1. PICK t \in Runtimes : t = [s EXCEPT !.readiness = TRUE]
    BY <1>1 DEF Runtimes
  <2>2. ClientSame(s, t) /\ t.states = s.states /\ t.current = s.current /\ t.operations = s.operations
    BY <1>1, <2>1 DEF ClientSame, Runtimes
  <2>3. BeginProbe(s) = t
    BY <1>4, <2>1 DEF BeginProbe
  <2>4. QED
    BY <2>2, <2>3, OpeningSilent, HealthyOpening
<1>5. QED
  BY <1>2, <1>3, <1>4

(* ensureComponent, while the profile starts.                              *)
LEMMA EnsureComponentKeeps ==
  ASSUME NEW s, ~s.stopping, NEW index \in 1 .. Len(Backends) + 1,
         NEW running, NEW b, NEW lines, Healthy(s, running, b, lines)
  PROVE  Healthy(EnsureComponent(s, index), running, b, lines)
<1>1. s \in Runtimes
  BY DEF Healthy
<1>2. CASE index > Len(Backends)
  BY <1>2, BeginProbeKeeps DEF EnsureComponent
<1>3. CASE ~(index > Len(Backends))
  <2>1. Backends[index] \in BackendSet
    BY <1>3, PlaceFacts
  <2>2. PICK k \in Looks : k = Command("show", Backends[index], "ensure")
    BY <2>1 DEF Looks, Command
  <2>3. EnsureComponent(s, index) = Enqueue(s, <<k>>)
    BY <1>3, <2>2 DEF EnsureComponent
  <2>4. QED
    BY <1>1, <2>3, OpenEnqueue, HealthyOpening
<1>4. QED
  BY <1>2, <1>3

(* The backend after one that is owned.                                    *)
LEMMA NextIndex ==
  ASSUME NEW c \in BackendSet
  PROVE  Position(Backends, c) + 1 \in 1 .. Len(Backends) + 1
<1>1. \E i \in DOMAIN Backends : Backends[i] = c
  BY DEF BackendSet
<1>2. Position(Backends, c) \in DOMAIN Backends
  BY <1>1 DEF Position
<1>3. QED
  BY <1>2, PlaceFacts

(* What the properties ask follows from what is said of a profile.         *)
LEMMA HealthyGives ==
  ASSUME NEW s, NEW running, NEW b, NEW lines, Healthy(s, running, b, lines)
  PROVE  /\ LoginRequests(s) # {} => s.ready /\ s.login.phase \notin {"none", "Claiming"}
         /\ b.controller = "probe" /\ s.probe = "running" /\ s.login = NoLogin =>
              \/ \E i \in DOMAIN s.out : s.out[i] = Release
              \/ \E i \in DOMAIN lines : lines[i] = Controller("probe")
         /\ s.current.kind = "delete" =>
              /\ s.deletion /\ s.stopping /\ ~s.starting /\ s.login = NoLogin
              /\ ~HasOwnedProcesses(s)
              /\ \A c \in Owned : ~running[c]
              /\ \A i \in DOMAIN s.operations : s.operations[i].kind \notin {"check", "start"}
         /\ ~Busy(s) => \A c \in Owned : s.states[c] = "Inactive" => ~running[c]
<1>1. LoginRequests(s) # {} => s.ready /\ s.login.phase \notin {"none", "Claiming"}
  BY DEF Healthy, ClosedInv, LoginInv, LoginRequests
<1>2. b.controller = "probe" /\ s.probe = "running" /\ s.login = NoLogin =>
        \/ \E i \in DOMAIN s.out : s.out[i] = Release
        \/ \E i \in DOMAIN lines : lines[i] = Controller("probe")
  BY DEF Healthy, ControlInv, Released, Holds, Told
<1>3. s \in Runtimes /\ s.operations \in Seq(Commands)
  BY DEF Healthy, Runtimes
<1>4. QueueInv(Queue(s), s.states, s.stopping, s.deletion, running)
  BY DEF Healthy, ServiceInv
<1>5. ASSUME s.current.kind = "delete"
      PROVE  /\ s.deletion /\ s.stopping /\ ~s.starting /\ s.login = NoLogin
             /\ ~HasOwnedProcesses(s)
             /\ \A c \in Owned : ~running[c]
             /\ \A i \in DOMAIN s.operations : s.operations[i].kind \notin {"check", "start"}
  <2>1. s.current \in Commands /\ s.current \in Deletes
    <3>1. s.current # NoOperation
      BY <1>5 DEF NoOperation
    <3>2. s.current \in Commands
      BY <1>3, <3>1 DEF Runtimes
    <3>3. QED
      BY <1>5, <3>2, KindFacts
  <2>2. PICK q \in Seq(Commands) : q = <<s.current>> \o s.operations
    BY <1>3, <2>1, PrependFacts
  <2>3. q = Queue(s)
    BY <2>1, <2>2, KindFacts DEF Queue
  <2>4. Head(q) = s.current /\ Tail(q) = s.operations /\ q # <<>>
    BY <1>3, <2>1, <2>2, PrependFacts
  <2>5. /\ 1 \in DOMAIN q /\ q[1] \in Deletes
        /\ \A i \in DOMAIN s.operations : i \in Nat \ {0} /\ i + 1 \in DOMAIN q /\ q[i + 1] = s.operations[i]
    <3>1. DOMAIN s.operations = 1 .. Len(s.operations)
      BY <1>3
    <3>2. QED
      BY <2>1, <2>4, <3>1, TailFacts
  <2>6. s.deletion /\ \A c \in Components : s.states[c] \in {"Inactive", "External"}
    BY <1>4, <2>3, <2>5 DEF QueueInv, DeletesStopped
  <2>7. s.stopping
    BY <1>4, <2>3, <2>5 DEF QueueInv, StopAlone, Chain
  <2>8. ~s.starting /\ ~s.ready
    BY <2>7 DEF Healthy, ClosedInv, ProbeInv
  <2>9. s.login = NoLogin
    BY <2>8 DEF Healthy, ClosedInv, LoginInv
  <2>10. ASSUME NEW c \in Owned PROVE ~running[c]
    <3>1. s.states[c] = "Inactive"
      BY <1>4, <2>6 DEF QueueInv, StatesTrue, Components
    <3>2. ASSUME NEW j \in DOMAIN q, q[j] \in Stops PROVE FALSE
      <4>1. j = 1
        BY <1>4, <2>3, <2>5, <3>2 DEF QueueInv, OneChain, Chain
      <4>2. QED
        BY <2>5, <3>2, <4>1, KindsApart DEF Commands, Chain
    <3>3. QED
      BY <1>4, <2>3, <3>1, <3>2 DEF QueueInv, StatesTrue
  <2>11. ASSUME NEW i \in DOMAIN s.operations PROVE s.operations[i].kind \notin {"check", "start"}
    <3>1. i + 1 # 1 /\ i + 1 \in DOMAIN q /\ q[i + 1] = s.operations[i]
      BY <2>5
    <3>2. q[i + 1] \notin Opening
      BY <1>4, <2>3, <2>7, <3>1 DEF QueueInv, StopAlone
    <3>3. s.operations[i] \in Commands
      BY <1>3
    <3>4. QED
      BY <3>1, <3>2, <3>3, KindFacts DEF Opening
  <2>12. QED
    BY <2>6, <2>7, <2>8, <2>9, <2>10, <2>11 DEF HasOwnedProcesses
<1>6. ASSUME ~Busy(s), NEW c \in Owned, s.states[c] = "Inactive" PROVE ~running[c]
  <2>1. Queue(s) = <<>>
    BY <1>6 DEF Busy, Queue
  <2>2. QED
    BY <1>4, <1>6, <2>1 DEF QueueInv, StatesTrue
<1>7. QED
  BY <1>1, <1>2, <1>5, <1>6

(* A stop may begin: nothing of an earlier one is queued.                  *)
StopReady(s) ==
  /\ s \in Runtimes
  /\ \A i \in DOMAIN Queue(s) : Queue(s)[i] \notin Chain
  /\ \A c \in Owned : s.states[c] # "External"

(* stop: the queue is dropped, the sign-in forgotten and the probe ended.  *)
LEMMA StopAllKeeps ==
  ASSUME NEW s, StopReady(s), NEW running, NEW b, NEW lines, ControlInv(s, b, lines)
  PROVE  Healthy(StopAll(s), running, b, lines)
<1>1. s \in Runtimes
  BY DEF StopReady
<1>2. PICK quiet \in Runtimes :
        quiet = [s EXCEPT !.stopping = TRUE, !.starting = FALSE, !.openRequested = FALSE,
                          !.ready = FALSE, !.operations = <<>>, !.readiness = FALSE]
  <2>1. <<>> \in Seq(Commands)
    OBVIOUS
  <2>2. QED
    BY <1>1, <2>1 DEF Runtimes
<1>3. /\ quiet.states = s.states /\ quiet.current = s.current /\ quiet.operations = <<>>
      /\ ~quiet.starting /\ quiet.stopping /\ quiet.deletion = s.deletion
      /\ quiet.probe = s.probe /\ ~quiet.ready
  BY <1>1, <1>2 DEF Runtimes
<1>4. PICK f \in Runtimes : f = ForgetAccount(quiet)
  BY ForgetFacts DEF AccountStep
<1>5. AccountStep(quiet, f) /\ f.login = NoLogin /\ f.requests = {}
  BY <1>4, ForgetFacts
<1>6. PICK quit \in OutLines : quit = [line |-> "quit"]
  BY PlainLines
<1>7. PICK w \in Runtimes : w = Write(f, quit)
  BY WriteFacts DEF AccountStep
<1>8. AccountStep(f, w) /\ w.login = f.login /\ w.requests = f.requests
  BY <1>7, WriteFacts
<1>9. /\ w.states = s.states /\ w.current = s.current /\ w.operations = <<>>
      /\ ~w.starting /\ w.stopping /\ w.deletion = s.deletion
      /\ w.probe = s.probe /\ ~w.ready
      /\ w.login = NoLogin /\ w.requests = {}
  BY <1>3, <1>5, <1>8 DEF AccountStep
<1>10. PICK told \in Runtimes : told = [w EXCEPT !.probe = IF @ = "none" THEN @ ELSE "terminating"]
  <2>1. PICK how \in {"none", "running", "terminating"} :
               how = IF w.probe = "none" THEN w.probe ELSE "terminating"
    OBVIOUS
  <2>2. [w EXCEPT !.probe = how] \in Runtimes
    BY DEF Runtimes
  <2>3. QED
    BY <2>1, <2>2
<1>11. /\ told.states = s.states /\ told.current = s.current /\ told.operations = <<>>
      /\ ~told.starting /\ told.stopping /\ told.deletion = s.deletion
      /\ told.probe = (IF s.probe = "none" THEN "none" ELSE "terminating") /\ ~told.ready
      /\ told.login = NoLogin /\ told.requests = {}
  BY <1>9, <1>10 DEF Runtimes
<1>12. ClosedInv(told)
  <2>1. LoginRequests(told) = {}
    BY <1>11 DEF LoginRequests
  <2>2. LoginInv(told)
    BY <1>11, <2>1, LoginOver
  <2>3. QED
    BY <1>11, <2>2 DEF ClosedInv, ProbeInv
<1>13. ControlInv(told, b, lines)
  BY <1>11 DEF ControlInv
<1>14. StopUi \in Chain /\ StopUi \in Stops /\ StopUi.on = UI /\ StopUi \notin Deletes
  <2>1. StopUi \in Stops /\ StopUi.on = UI
    BY DEF StopUi, Command, Stops, Owned
  <2>2. QED
    BY <2>1, KindsApart DEF Chain, Commands
<1>15. PICK r \in Seq({StopUi}) : r = <<StopUi>>
  BY SingleFacts
<1>16. {StopUi} \in SUBSET Commands
  BY <1>14 DEF Commands
<1>17. PICK t \in Runtimes : t = Enqueue(told, r)
  BY <1>16, EnqueueFacts DEF ClientSame
<1>18. ClientSame(told, t) /\ t.states = told.states /\ Queue(t) = Queue(told) \o r
  BY <1>16, <1>17, EnqueueFacts
<1>19. \A i \in DOMAIN Queue(told) : Queue(told)[i] \notin Chain /\ (Queue(told)[i] \in Opening => i = 1)
  <2>1. CASE s.current = NoOperation
    BY <1>11, <2>1 DEF Queue
  <2>2. CASE s.current # NoOperation
    <3>1. PICK k \in Commands : k = s.current
      BY <1>1, <2>2 DEF Runtimes
    <3>2. Queue(told) = <<k>>
      <4>1. <<k>> \o <<>> = <<k>>
        OBVIOUS
      <4>2. QED
        BY <1>11, <2>2, <3>1, <4>1 DEF Queue
    <3>3. k \notin Chain
      <4>1. PICK ops \in Seq(Commands) : ops = s.operations
        BY <1>1 DEF Runtimes
      <4>2. PICK q \in Seq(Commands) : q = <<k>> \o ops
        BY PrependFacts
      <4>3. 1 \in DOMAIN q /\ q[1] = k
        BY <4>2, PrependFacts, TailFacts
      <4>4. q = Queue(s)
        BY <2>2, <3>1, <4>1, <4>2 DEF Queue
      <4>5. QED
        BY <4>3, <4>4 DEF StopReady
    <3>4. QED
      BY <3>2, <3>3, SingleFacts
  <2>3. QED
    BY <2>1, <2>2
<1>20. \A c \in Owned : s.states[c] # "External" /\ Place(c) <= Place(StopUi.on)
  BY <1>14, PlaceFacts DEF StopReady
<1>21. QueueInv(Queue(t), t.states, TRUE, t.deletion, running)
  <2>1. PICK q \in Seq(Commands), d \in BOOLEAN : q = Queue(told) /\ d = t.deletion
    BY QueueType DEF Runtimes
  <2>2. QueueInv(q \o <<StopUi>>, s.states, TRUE, d, running)
    BY <1>14, <1>19, <1>20, <2>1, ChainExtends
  <2>3. QED
    BY <1>11, <1>15, <1>18, <2>1, <2>2
<1>22. ServiceInv(t, running)
  BY <1>11, <1>18, <1>21 DEF ServiceInv, ClientSame
<1>23. ClosedInv(t) /\ ControlInv(t, b, lines)
  BY <1>12, <1>13, <1>18, ClientKeeps
<1>24. StopAll(s) = t
  BY <1>2, <1>4, <1>6, <1>7, <1>10, <1>15, <1>17 DEF StopAll, StopUi
<1>25. QED
  BY <1>22, <1>23, <1>24 DEF Healthy

(* Every owned unit that counts as stopped is stopped.                     *)
AllKnown(s, running) ==
  \A c \in Owned : s.states[c] # "External" /\ (s.states[c] = "Inactive" => ~running[c])
OnlySilent(s) == \A i \in DOMAIN Queue(s) : Queue(s)[i] \in Silent

(* A stop, or a deletion, is over: all units were seen, nothing is queued. *)
LEMMA StopOver ==
  ASSUME NEW s, NEW t \in Runtimes, NEW running, NEW b, NEW lines,
         OnlySilent(s), AllKnown(s, running), ClosedInv(s), ControlInv(s, b, lines),
         t.states = s.states, t.current = s.current, t.operations = s.operations,
         t.probe = s.probe, t.ready = s.ready, t.out = s.out,
         t.login = s.login, t.requests = s.requests, t.controller = s.controller,
         ~t.stopping, ~t.deletion
  PROVE  Healthy(t, running, b, lines)
<1>1. LoginRequests(t) = LoginRequests(s)
  BY DEF LoginRequests
<1>2. Released(s) <=> Released(t)
  BY DEF Released
<1>3. ClosedInv(t)
  BY <1>1 DEF ClosedInv, ProbeInv, LoginInv
<1>4. ControlInv(t, b, lines)
  BY <1>2 DEF ControlInv, Holds
<1>5. Queue(t) = Queue(s)
  BY DEF Queue
<1>6. t.stopping \in BOOLEAN /\ t.deletion \in BOOLEAN
  BY DEF Runtimes
<1>7. ServiceInv(t, running)
  BY <1>5, <1>6, SilentOnly DEF ServiceInv, OnlySilent, AllKnown
<1>8. QED
  BY <1>3, <1>4, <1>7 DEF Healthy

(* The next command of a stop or a deletion.                               *)
LEMMA ChainGoesOn ==
  ASSUME NEW s \in Runtimes, NEW k \in Chain, NEW running, NEW b, NEW lines,
         s.stopping, OnlySilent(s), ClosedInv(s), ControlInv(s, b, lines),
         k \in Deletes => s.deletion /\ \A c \in Components : s.states[c] \in {"Inactive", "External"},
         \A c \in Owned :
            /\ s.states[c] # "External"
            /\ s.states[c] = "Inactive" /\ running[c] => k \in Stops /\ Place(c) <= Place(k.on)
  PROVE  Healthy(Enqueue(s, <<k>>), running, b, lines)
<1>1. {k} \in SUBSET Commands
  BY DEF Commands
<1>2. PICK r \in Seq({k}) : r = <<k>>
  BY SingleFacts
<1>3. PICK t \in Runtimes : t = Enqueue(s, r)
  BY <1>1, EnqueueFacts DEF ClientSame
<1>4. ClientSame(s, t) /\ t.states = s.states /\ Queue(t) = Queue(s) \o r
  BY <1>1, <1>3, EnqueueFacts
<1>5. \A i \in DOMAIN Queue(s) : Queue(s)[i] \notin Chain /\ (Queue(s)[i] \in Opening => i = 1 /\ k = StopUi)
  BY KindsApart DEF OnlySilent, Commands
<1>6. PICK q \in Seq(Commands), d \in BOOLEAN : q = Queue(s) /\ d = s.deletion
  BY QueueType DEF Runtimes
<1>7. QueueInv(q \o <<k>>, s.states, TRUE, d, running)
  BY <1>5, <1>6, ChainExtends
<1>8. ServiceInv(t, running)
  BY <1>2, <1>4, <1>6, <1>7 DEF ServiceInv, ClientSame
<1>9. ClosedInv(t) /\ ControlInv(t, b, lines)
  BY <1>4, ClientKeeps
<1>10. QED
  BY <1>2, <1>3, <1>8, <1>9 DEF Healthy

(* stopComponent, after the unit c was stopped or seen stopped.            *)
LEMMA StopNextKeeps ==
  ASSUME NEW s \in Runtimes, NEW c \in Owned, NEW running, NEW b, NEW lines,
         s.stopping, OnlySilent(s), ClosedInv(s), ControlInv(s, b, lines),
         \A d \in Owned :
            s.states[d] # "External" /\ (s.states[d] = "Inactive" /\ running[d] => Place(d) < Place(c))
  PROVE  Healthy(StopNext(s, c), running, b, lines)
<1>1. PICK i \in 1 .. Len(Backends) + 1 : i = Place(c)
  BY PlaceFacts
<1>2. Len(Backends) \in Nat
  BY PlaceFacts
<1>3. CASE i > 1
  <2>1. i - 1 \in 1 .. Len(Backends) + 1
    BY <1>2, <1>3
  <2>2. PICK u \in Owned : u = OwnedSeq[i - 1] /\ Place(u) = i - 1
    BY <2>1, PlaceFacts
  <2>3. Command("show", u, "stop") \in Stops
    BY DEF Stops, Command
  <2>4. Command("show", u, "stop").on = u
    BY DEF Command
  <2>5. PICK k \in Stops : k = Command("show", u, "stop") /\ k.on = u
    BY <2>3, <2>4
  <2>6. k \in Chain /\ k \notin Deletes
    BY KindsApart DEF Chain, Commands
  <2>7. \A d \in Owned : s.states[d] # "External" /\ (s.states[d] = "Inactive" /\ running[d] => Place(d) <= Place(k.on))
    BY <1>1, <1>2, <2>2, <2>5, PlaceFacts
  <2>8. Healthy(Enqueue(s, <<k>>), running, b, lines)
    BY <2>6, <2>7, ChainGoesOn
  <2>9. StopNext(s, c) = Enqueue(s, <<k>>)
    BY <1>1, <1>3, <2>2, <2>5 DEF StopNext, Place
  <2>10. QED
    BY <2>8, <2>9
<1>4. CASE ~(i > 1)
  <2>1. AllKnown(s, running)
    BY <1>1, <1>2, <1>4, PlaceFacts DEF AllKnown
  <2>2. CASE ~s.deletion
    <3>1. PICK t \in Runtimes : t = [s EXCEPT !.stopping = FALSE]
      BY DEF Runtimes
    <3>2. /\ t.states = s.states /\ t.current = s.current /\ t.operations = s.operations
          /\ t.probe = s.probe /\ t.ready = s.ready /\ t.out = s.out
          /\ t.login = s.login /\ t.requests = s.requests /\ t.controller = s.controller
          /\ ~t.stopping /\ ~t.deletion
      BY <2>2, <3>1 DEF Runtimes
    <3>3. StopNext(s, c) = t
      BY <1>1, <1>4, <2>2, <3>1 DEF StopNext, Place
    <3>4. QED
      BY <2>1, <3>2, <3>3, StopOver
  <2>3. CASE s.deletion /\ HasOwnedProcesses(s)
    <3>1. PICK f \in Seq({"deleted", "failed"}) : f = Append(s.finished, "failed")
      <4>1. s.finished \in Seq({"deleted", "failed"})
        BY DEF Runtimes
      <4>2. QED
        BY <4>1, AppendFacts
    <3>2. PICK t \in Runtimes : t = [s EXCEPT !.deletion = FALSE, !.stopping = FALSE, !.finished = f]
      BY DEF Runtimes
    <3>3. /\ t.states = s.states /\ t.current = s.current /\ t.operations = s.operations
          /\ t.probe = s.probe /\ t.ready = s.ready /\ t.out = s.out
          /\ t.login = s.login /\ t.requests = s.requests /\ t.controller = s.controller
          /\ ~t.stopping /\ ~t.deletion
      BY <3>2 DEF Runtimes
    <3>4. StopNext(s, c) = t
      BY <1>1, <1>4, <2>3, <3>1, <3>2 DEF StopNext, Place, FinishDeletion
    <3>5. QED
      BY <2>1, <3>3, <3>4, StopOver
  <2>4. CASE s.deletion /\ ~HasOwnedProcesses(s)
    <3>1. 1 \in Targets
      BY DEF Targets
    <3>2. Command("delete", 1, "delete") \in Deletes
      BY <3>1 DEF Deletes, Command
    <3>3. PICK k \in Deletes : k = Command("delete", 1, "delete")
      BY <3>2
    <3>4. k \in Chain
      BY DEF Chain
    <3>5. \A d \in Components : s.states[d] \in {"Inactive", "External"}
      BY <2>4 DEF HasOwnedProcesses
    <3>6. Healthy(Enqueue(s, <<k>>), running, b, lines)
      BY <2>1, <2>4, <3>4, <3>5, ChainGoesOn DEF AllKnown
    <3>7. StopNext(s, c) = Enqueue(s, <<k>>)
      BY <1>1, <1>4, <2>4, <3>3 DEF StopNext, Place
    <3>8. QED
      BY <3>6, <3>7
  <2>5. QED
    BY <2>2, <2>3, <2>4
<1>5. QED
  BY <1>3, <1>4

(* Logs and previews are queued.                                           *)
LEMMA SilentKeeps ==
  ASSUME NEW s, NEW running, NEW b, NEW lines, Healthy(s, running, b, lines),
         NEW commands \in Seq(Silent)
  PROVE  Healthy(Enqueue(s, commands), running, b, lines)
<1>0. Silent \in SUBSET Commands /\ s \in Runtimes
  BY DEF Commands, Healthy
<1>1. PICK t \in Runtimes : t = Enqueue(s, commands)
  BY <1>0, EnqueueFacts DEF ClientSame
<1>2. ClientSame(s, t) /\ t.states = s.states /\ Queue(t) = Queue(s) \o commands
  BY <1>0, <1>1, EnqueueFacts
<1>3. Extended(Queue(s), Queue(t), Silent)
  BY <1>0, <1>2, QueueType, ConcatExtends
<1>4. t.stopping = s.stopping /\ t.deletion = s.deletion /\ s.stopping \in BOOLEAN /\ s.deletion \in BOOLEAN
  BY <1>0, <1>2 DEF ClientSame, Runtimes
<1>5. QueueInv(Queue(s), s.states, s.stopping, s.deletion, running)
  BY DEF Healthy, ServiceInv
<1>6. QueueInv(Queue(t), s.states, s.stopping, s.deletion, running)
  BY <1>3, <1>4, <1>5, SilentExtends
<1>7. ServiceInv(t, running)
  BY <1>2, <1>4, <1>6 DEF ServiceInv
<1>8. ClosedInv(t) /\ ControlInv(t, b, lines)
  BY <1>2, ClientKeeps DEF Healthy
<1>9. QED
  BY <1>1, <1>7, <1>8 DEF Healthy

(* A refresh is queued when nothing else is.                               *)
LEMMA RefreshKeeps ==
  ASSUME NEW s, NEW running, NEW b, NEW lines, Healthy(s, running, b, lines),
         NEW commands \in Seq(Refreshes), Queue(s) = <<>>, ~s.stopping
  PROVE  Healthy(Enqueue(s, commands), running, b, lines)
<1>0. Refreshes \in SUBSET Commands /\ s \in Runtimes
  BY DEF Commands, Opening, Healthy
<1>1. PICK t \in Runtimes : t = Enqueue(s, commands)
  BY <1>0, EnqueueFacts DEF ClientSame
<1>2. ClientSame(s, t) /\ t.states = s.states /\ Queue(t) = Queue(s) \o commands
  BY <1>0, <1>1, EnqueueFacts
<1>3. Extended(Queue(s), Queue(t), Refreshes)
  BY <1>0, <1>2, QueueType, ConcatExtends
<1>4. t.stopping = s.stopping /\ t.deletion = s.deletion /\ s.stopping \in BOOLEAN /\ s.deletion \in BOOLEAN
  BY <1>0, <1>2 DEF ClientSame, Runtimes
<1>5. QueueInv(Queue(s), s.states, s.stopping, s.deletion, running)
  BY DEF Healthy, ServiceInv
<1>6. QueueInv(Queue(t), s.states, s.stopping, s.deletion, running)
  BY <1>3, <1>4, <1>5, RefreshExtends
<1>7. ServiceInv(t, running)
  BY <1>2, <1>4, <1>6 DEF ServiceInv
<1>8. ClosedInv(t) /\ ControlInv(t, b, lines)
  BY <1>2, ClientKeeps DEF Healthy
<1>9. QED
  BY <1>1, <1>7, <1>8 DEF Healthy

(* A command for each owned unit.                                          *)
LEMMA ForEachFacts ==
  /\ ForEach("logs", "logs") \in Seq(Silent)
  /\ ForEach("show", "refresh") \in Seq(Refreshes)
<1>1. PICK n \in Nat : n = Len(Backends) + 1
  BY PlaceFacts
<1>2. DOMAIN OwnedSeq = 1 .. n /\ \A i \in 1 .. n : OwnedSeq[i] \in Owned
  BY <1>1, PlaceFacts
<1>3. \A c \in Owned : Command("logs", c, "logs") \in Silent /\ Command("show", c, "refresh") \in Refreshes
  BY DEF Command, Silent, Refreshes
<1>4. ForEach("logs", "logs") \in [1 .. n -> Silent]
  BY <1>2, <1>3 DEF ForEach
<1>5. ForEach("show", "refresh") \in [1 .. n -> Refreshes]
  BY <1>2, <1>3 DEF ForEach
<1>6. QED
  BY <1>1, <1>4, <1>5

----------------------------------------------------------------------------
(* A step of the manager alone.                                            *)
LEMMA KeepStep ==
  ASSUME LiveInv, Keep, Healthy(rt', services, bridge, fromProbe)
  PROVE  LiveInv'
<1>1. services' = services /\ listening' = listening /\ fromProbe' = fromProbe /\ bridge' = bridge
  BY DEF Keep
<1>2. rt' \in Runtimes
  BY DEF Healthy
<1>3. ManagerTypes'
  BY <1>1, <1>2 DEF LiveInv, ManagerTypes
<1>4. Healthy(rt', services', bridge', fromProbe')
  BY <1>1
<1>5. QED
  BY <1>3, <1>4 DEF LiveInv

(* A start that begins.                                                    *)
LEMMA StartBegins ==
  ASSUME NEW s, NEW running, NEW b, NEW lines, Healthy(s, running, b, lines), ~s.stopping,
         NEW open \in BOOLEAN
  PROVE  /\ Healthy([s EXCEPT !.starting = TRUE, !.openRequested = open], running, b, lines)
         /\ ~[s EXCEPT !.starting = TRUE, !.openRequested = open].stopping
<1>1. s \in Runtimes
  BY DEF Healthy
<1>2. PICK t \in Runtimes : t = [s EXCEPT !.starting = TRUE, !.openRequested = open]
  BY <1>1 DEF Runtimes
<1>3. /\ t.states = s.states /\ t.current = s.current /\ t.operations = s.operations
      /\ t.stopping = s.stopping /\ t.deletion = s.deletion
      /\ t.probe = s.probe /\ t.ready = s.ready /\ t.out = s.out
      /\ t.login = s.login /\ t.requests = s.requests /\ t.controller = s.controller
  BY <1>1, <1>2 DEF Runtimes
<1>4. Queue(t) = Queue(s) /\ LoginRequests(t) = LoginRequests(s) /\ (Released(t) <=> Released(s))
  BY <1>3 DEF Queue, LoginRequests, Released
<1>5. ServiceInv(t, running)
  BY <1>3, <1>4 DEF Healthy, ServiceInv
<1>6. ClosedInv(t)
  BY <1>3, <1>4 DEF Healthy, ClosedInv, ProbeInv, LoginInv
<1>7. ControlInv(t, b, lines)
  BY <1>3, <1>4 DEF Healthy, ControlInv, Holds
<1>8. QED
  BY <1>2, <1>3, <1>5, <1>6, <1>7 DEF Healthy

(* start, check and openUi.                                                *)
LEMMA OpenSteps ==
  ASSUME LiveInv, (\E open \in BOOLEAN : Start(open)) \/ Check \/ OpenUi
  PROVE  LiveInv'
<1>0. rt \in Runtimes /\ Healthy(rt, services, bridge, fromProbe)
  BY DEF LiveInv, Healthy
<1>1. ASSUME NEW open \in BOOLEAN, Start(open) PROVE LiveInv'
  <2>1. Keep /\ ~rt.stopping
    BY <1>1 DEF Start, Idle
  <2>2. PICK s : s = [rt EXCEPT !.starting = TRUE, !.openRequested = open]
    OBVIOUS
  <2>3. Healthy(s, services, bridge, fromProbe) /\ ~s.stopping
    BY <1>0, <2>1, <2>2, StartBegins
  <2>4. 1 \in 1 .. Len(Backends) + 1
    BY PlaceFacts
  <2>5. CASE rt' = EnsureComponent(s, 1)
    BY <2>1, <2>3, <2>4, <2>5, EnsureComponentKeeps, KeepStep
  <2>6. CASE rt' = Fail(rt)
    BY <1>0, <2>1, <2>6, FailFacts, HealthyOpening, KeepStep
  <2>7. QED
    BY <1>1, <2>2, <2>5, <2>6 DEF Start
<1>2. ASSUME Check PROVE LiveInv'
  <2>1. Keep /\ ~rt.stopping
    BY <1>2 DEF Check, Idle
  <2>2. PICK s : s = [rt EXCEPT !.starting = TRUE, !.openRequested = FALSE]
    OBVIOUS
  <2>3. Healthy(s, services, bridge, fromProbe) /\ ~s.stopping
    BY <1>0, <2>1, <2>2, StartBegins
  <2>4. rt' = BeginProbe(s)
    BY <1>2, <2>2 DEF Check
  <2>5. QED
    BY <2>1, <2>3, <2>4, BeginProbeKeeps, KeepStep
<1>3. ASSUME OpenUi PROVE LiveInv'
  <2>1. Keep /\ rt.ready /\ rt' = EnsureUi(rt)
    BY <1>3 DEF OpenUi
  <2>2. ~rt.stopping
    BY <1>0, <2>1 DEF Healthy, ClosedInv, ProbeInv
  <2>3. QED
    BY <1>0, <2>1, <2>2, EnsureUiOpens, HealthyOpening, KeepStep
<1>4. QED
  BY <1>1, <1>2, <1>3

(* While a profile is open no stop is queued.                              *)
LEMMA StopMayBegin ==
  ASSUME NEW s, NEW running, NEW b, NEW lines, Healthy(s, running, b, lines), ~s.stopping
  PROVE  StopReady(s)
  BY DEF Healthy, ServiceInv, QueueInv, StopAlone, StatesTrue, StopReady

(* stop, readLogs, refreshAccount, cancelLogin and beginAuthentication.    *)
LEMMA OtherUserSteps ==
  ASSUME LiveInv,
         \/ Stop \/ ReadLogs \/ AskAccount \/ CancelSignIn
         \/ \E kind \in {"chatgpt", "apiKey", "signout"} : BeginAuthentication(kind)
  PROVE  LiveInv'
<1>0. rt \in Runtimes /\ Healthy(rt, services, bridge, fromProbe) /\ LoginInv(rt)
  BY DEF LiveInv, Healthy, ClosedInv
<1>1. ASSUME Stop PROVE LiveInv'
  <2>1. Keep /\ ~rt.stopping /\ rt' = StopAll(rt)
    BY <1>1 DEF Stop
  <2>2. StopReady(rt) /\ ControlInv(rt, bridge, fromProbe)
    BY <1>0, <2>1, StopMayBegin DEF Healthy
  <2>3. QED
    BY <2>1, <2>2, StopAllKeeps, KeepStep
<1>2. ASSUME ReadLogs PROVE LiveInv'
  BY <1>0, <1>2, ForEachFacts, SilentKeeps, KeepStep DEF ReadLogs
<1>3. ASSUME AskAccount PROVE LiveInv'
  <2>1. Keep /\ rt' = RefreshAccount(rt)
    BY <1>3 DEF AskAccount
  <2>2. QED
    BY <1>0, <2>1, RefreshFacts, HealthyAccount, KeepStep
<1>4. ASSUME CancelSignIn PROVE LiveInv'
  <2>1. Keep /\ rt.login # NoLogin /\ rt' = CancelLogin(rt)
    BY <1>4 DEF CancelSignIn
  <2>2. rt.login.phase # "none"
    BY <1>0, <2>1 DEF LoginInv
  <2>3. QED
    BY <1>0, <2>1, <2>2, CancelFacts, HealthyAccount, KeepStep
<1>5. ASSUME NEW kind \in {"chatgpt", "apiKey", "signout"}, BeginAuthentication(kind) PROVE LiveInv'
  <2>1. PICK l \in Logins : l = [NoLogin EXCEPT !.phase = "Claiming", !.kind = kind]
    BY DEF NoLogin, Logins, Phases, SignIns
  <2>2. l.phase = "Claiming" /\ l # NoLogin
    BY <2>1 DEF NoLogin
  <2>3. PICK t \in Runtimes : t = [rt EXCEPT !.login = l]
    BY <1>0 DEF Runtimes
  <2>4. /\ t.states = rt.states /\ t.current = rt.current /\ t.operations = rt.operations
        /\ t.starting = rt.starting /\ t.stopping = rt.stopping /\ t.deletion = rt.deletion
        /\ t.probe = rt.probe /\ t.ready = rt.ready /\ t.out = rt.out
        /\ t.login = l /\ t.requests = rt.requests /\ t.controller = rt.controller
    BY <1>0, <2>3 DEF Runtimes
  <2>5. /\ Keep /\ rt.ready /\ rt.login = NoLogin /\ rt.controller = "nobody"
        /\ rt' = Write(t, [line |-> "acquire"])
    BY <1>5, <2>1, <2>3 DEF BeginAuthentication
  <2>6. AccountStep(rt, t)
    BY <2>4, <2>5, AccountSilent
  <2>7. LoginRequests(t) = {}
    BY <1>0, <2>4, <2>5 DEF LoginInv, LoginRequests, NoLogin
  <2>8. PICK acquire \in OutLines : acquire = [line |-> "acquire"]
    BY PlainLines
  <2>9. PICK u \in Runtimes : u = Write(t, acquire)
    BY WriteFacts DEF AccountStep
  <2>10. AccountStep(t, u) /\ u.login = t.login /\ u.requests = t.requests
    BY <2>9, WriteFacts
  <2>11. LoginInv(u)
    <3>1. u.ready
      BY <2>4, <2>5, <2>10 DEF AccountStep
    <3>2. LoginRequests(u) = {}
      BY <2>7, <2>10 DEF LoginRequests
    <3>3. QED
      BY <2>2, <2>4, <2>10, <3>1, <3>2 DEF LoginInv
  <2>12. AccountStep(rt, u)
    BY <2>6, <2>10, AccountSteps
  <2>13. rt' = u
    BY <2>5, <2>8, <2>9
  <2>14. QED
    BY <1>0, <2>5, <2>11, <2>12, <2>13, HealthyAccount, KeepStep
<1>6. QED
  BY <1>1, <1>2, <1>3, <1>4, <1>5

(* The timer's refresh, whatever it finds expired.                         *)
LEMMA RefreshStep ==
  ASSUME LiveInv, NEW expired \in SUBSET rt.requests, NEW over \in BOOLEAN, Refresh(expired, over)
  PROVE  LiveInv'
<1>1. rt \in Runtimes /\ Healthy(rt, services, bridge, fromProbe) /\ LoginInv(rt)
  BY DEF LiveInv, Healthy, ClosedInv
<1>2. PICK account \in Values \cup {"Unknown", "Rejected"} :
        account = IF \E r \in expired : r.method = Read THEN "Unknown" ELSE rt.account
  BY <1>1 DEF Runtimes
<1>3. PICK pending \in Runtimes : pending = [rt EXCEPT !.requests = @ \ expired, !.account = account]
  BY <1>1 DEF Runtimes
<1>4. /\ pending.states = rt.states /\ pending.current = rt.current /\ pending.operations = rt.operations
      /\ pending.starting = rt.starting /\ pending.stopping = rt.stopping /\ pending.deletion = rt.deletion
      /\ pending.probe = rt.probe /\ pending.ready = rt.ready /\ pending.out = rt.out
      /\ pending.login = rt.login /\ pending.requests = rt.requests \ expired
      /\ pending.controller = rt.controller
  BY <1>1, <1>3 DEF Runtimes
<1>5. AccountStep(rt, pending)
  BY <1>4, AccountSilent
<1>6. LoginInv(pending)
  BY <1>1, <1>4 DEF LoginInv, LoginRequests
<1>7. PICK f \in Runtimes : f = FinishAuthentication(pending)
  BY FinishFacts DEF AccountStep
<1>8. PICK done \in Runtimes : done = [f EXCEPT !.account = "Unknown"]
  BY DEF Runtimes
<1>9. AccountStep(rt, done) /\ LoginInv(done)
  <2>1. AccountStep(pending, f) /\ LoginInv(f)
    BY <1>6, <1>7, FinishFacts, OverFacts DEF LoginInv
  <2>2. /\ done.states = f.states /\ done.current = f.current /\ done.operations = f.operations
        /\ done.starting = f.starting /\ done.stopping = f.stopping /\ done.deletion = f.deletion
        /\ done.probe = f.probe /\ done.ready = f.ready /\ done.out = f.out
        /\ done.login = f.login /\ done.requests = f.requests /\ done.controller = f.controller
    BY <1>8 DEF Runtimes
  <2>3. AccountStep(f, done)
    BY <2>2, AccountSilent
  <2>4. LoginInv(done)
    BY <2>1, <2>2 DEF LoginInv, LoginRequests
  <2>5. QED
    BY <1>5, <2>1, <2>3, <2>4, AccountSteps
<1>10. rt.login.phase = "Waiting" => AccountStep(rt, CancelLogin(pending)) /\ LoginInv(CancelLogin(pending))
  <2>1. CASE rt.login.phase = "Waiting"
    BY <1>4, <1>5, <1>6, <2>1, CancelFacts, AccountSteps
  <2>2. QED
    BY <2>1
<1>11. PICK s : /\ s = IF ~((\E r \in expired : r.method # Read) \/ (rt.login # NoLogin /\ over)) THEN pending
                      ELSE IF rt.login.phase = "Waiting" THEN CancelLogin(pending)
                      ELSE [FinishAuthentication(pending) EXCEPT !.account = "Unknown"]
               /\ rt' = IF Busy(s) THEN s ELSE Enqueue(s, ForEach("show", "refresh"))
  BY <1>2, <1>3 DEF Refresh
<1>12. AccountStep(rt, s) /\ LoginInv(s)
  BY <1>5, <1>6, <1>7, <1>8, <1>9, <1>10, <1>11
<1>13. Healthy(s, services, bridge, fromProbe)
  BY <1>1, <1>12, HealthyAccount
<1>14. CASE Busy(s)
  BY <1>11, <1>13, <1>14, KeepStep DEF Refresh
<1>15. CASE ~Busy(s)
  <2>1. Queue(s) = <<>> /\ ~s.stopping
    BY <1>15 DEF Busy, Queue
  <2>2. Healthy(Enqueue(s, ForEach("show", "refresh")), services, bridge, fromProbe)
    BY <1>13, <2>1, ForEachFacts, RefreshKeeps
  <2>3. QED
    BY <1>11, <1>15, <2>2, KeepStep DEF Refresh
<1>16. QED
  BY <1>14, <1>15

(* readinessTimeout_.                                                      *)
LEMMA TimeoutStep ==
  ASSUME LiveInv, ReadinessTimesOut
  PROVE  LiveInv'
<1>0. rt \in Runtimes /\ Healthy(rt, services, bridge, fromProbe)
  BY DEF LiveInv, Healthy
<1>1. PICK s \in Runtimes : s = [rt EXCEPT !.readiness = FALSE]
  BY <1>0 DEF Runtimes
<1>2. ClientSame(rt, s) /\ s.states = rt.states /\ s.current = rt.current /\ s.operations = rt.operations
  BY <1>0, <1>1 DEF ClientSame, Runtimes
<1>3. OpeningStep(rt, s)
  BY <1>2, OpeningSilent
<1>4. OpeningStep(rt, Fail(s))
  BY <1>3, FailFacts, OpeningSteps
<1>5. Keep /\ rt' \in {s, Fail(s)}
  BY <1>1 DEF ReadinessTimesOut
<1>6. QED
  BY <1>0, <1>3, <1>4, <1>5, HealthyOpening, KeepStep

----------------------------------------------------------------------------
(* What is left of the queue when the command that runs has ended.         *)
LEMMA AfterFacts ==
  ASSUME LiveInv, rt.current # NoOperation
  PROVE  /\ rt.current \in Commands
         /\ ClientSame(rt, After) /\ After.states = rt.states /\ After.starting = rt.starting
         /\ Queue(After) \in Seq(Commands)
         /\ rt.current \notin Stops => Healthy(After, services, bridge, fromProbe)
         /\ rt.stopping => \A i \in DOMAIN Queue(After) : Queue(After)[i] \notin Opening
         /\ rt.current \in Chain => rt.stopping /\ OnlySilent(After)
         /\ rt.current \notin Refreshes => \A i \in DOMAIN Queue(After) : Queue(After)[i] \notin Refreshes
         /\ rt.current \in Refreshes => \A i \in DOMAIN Queue(After) : Queue(After)[i] \notin Launches
         /\ rt.current \in Launches => \A i \in DOMAIN Queue(After) : Queue(After)[i] \notin Refreshes
         /\ rt.current \in Opening /\ rt.stopping => \E i \in DOMAIN Queue(After) : Queue(After)[i] = StopUi
         /\ rt.current \in Opening => \A i \in DOMAIN Queue(After) : Queue(After)[i] \notin Deletes
<1>0. rt \in Runtimes /\ Healthy(rt, services, bridge, fromProbe)
  BY DEF LiveInv, Healthy
<1>1. rt.current \in Commands /\ rt.operations \in Seq(Commands)
  BY <1>0 DEF Runtimes
<1>2. PICK t \in Runtimes : t = After
  BY <1>0 DEF Runtimes, After
<1>3. ClientSame(rt, t) /\ t.states = rt.states /\ t.starting = rt.starting
      /\ t.current = NoOperation /\ t.operations = rt.operations
  BY <1>0, <1>2 DEF ClientSame, Runtimes, After
<1>4. PICK q \in Seq(Commands) : q = Queue(rt)
  BY <1>0, QueueType
<1>5. PICK p \in Seq(Commands) : p = rt.operations
  BY <1>1
<1>6. q # <<>> /\ Head(q) = rt.current /\ Tail(q) = p
  BY <1>1, <1>4, <1>5, PrependFacts DEF Queue
<1>7. Queue(t) = p
  BY <1>3, <1>5 DEF Queue
<1>8. /\ 1 \in DOMAIN q /\ q[1] = rt.current
      /\ \A i \in DOMAIN p : i \in Nat \ {0} /\ 1 < i + 1 /\ i + 1 # 1 /\ i + 1 \in DOMAIN q /\ p[i] = q[i + 1]
      /\ \A j \in DOMAIN q : j # 1 => j - 1 \in DOMAIN p /\ p[j - 1] = q[j]
  <2>1. /\ 1 \in DOMAIN q /\ q[1] = rt.current
        /\ \A i \in DOMAIN p : i + 1 \in DOMAIN q /\ p[i] = q[i + 1]
        /\ \A j \in DOMAIN q : j # 1 => j - 1 \in DOMAIN p /\ p[j - 1] = q[j]
    BY <1>6, TailFacts
  <2>2. \A i \in DOMAIN p : i \in Nat \ {0} /\ 1 < i + 1 /\ i + 1 # 1
    OBVIOUS
  <2>3. QED
    BY <2>1, <2>2
<1>9. QueueInv(q, rt.states, rt.stopping, rt.deletion, services)
  BY <1>0, <1>4 DEF Healthy, ServiceInv
<1>10. rt.stopping \in BOOLEAN /\ rt.deletion \in BOOLEAN
  BY <1>0 DEF Runtimes
<1>11. rt.stopping => \A i \in DOMAIN p : p[i] \notin Opening
  BY <1>8, <1>9 DEF QueueInv, StopAlone
<1>12. ASSUME rt.current \notin Stops PROVE Healthy(t, services, bridge, fromProbe)
  <2>1. PICK b \in BOOLEAN, d \in BOOLEAN : b = rt.stopping /\ d = rt.deletion
    BY <1>10
  <2>2. QueueInv(q, rt.states, b, d, services)
    BY <1>9, <2>1
  <2>3. QueueInv(p, rt.states, b, d, services)
    BY <1>6, <1>12, <2>2, TailKeeps
  <2>4. ServiceInv(t, services)
    BY <1>3, <1>7, <2>1, <2>3 DEF ServiceInv, ClientSame
  <2>5. QED
    BY <1>0, <1>3, <2>4, ClientKeeps DEF Healthy
<1>13. ASSUME rt.current \in Chain PROVE rt.stopping /\ \A i \in DOMAIN p : p[i] \in Silent
  <2>1. rt.stopping
    BY <1>8, <1>9, <1>13 DEF QueueInv, StopAlone
  <2>2. \A i \in DOMAIN p : p[i] \notin Chain
    BY <1>8, <1>9, <1>13 DEF QueueInv, OneChain
  <2>3. \A i \in DOMAIN p : p[i] \in Commands
    OBVIOUS
  <2>4. QED
    BY <1>11, <2>1, <2>2, <2>3 DEF Commands
<1>14. rt.current \notin Refreshes => \A i \in DOMAIN p : p[i] \notin Refreshes
  BY <1>8, <1>9 DEF QueueInv, RefreshFirst
<1>15. rt.current \in Refreshes => \A i \in DOMAIN p : p[i] \notin Launches
  BY <1>8, <1>9 DEF QueueInv, RefreshFirst
<1>16. rt.current \in Launches => \A i \in DOMAIN p : p[i] \notin Refreshes
  BY <1>8, <1>9 DEF QueueInv, RefreshFirst
<1>17. ASSUME rt.current \in Opening, rt.stopping PROVE \E i \in DOMAIN p : p[i] = StopUi
  <2>1. PICK j \in DOMAIN q : q[j] = StopUi
    BY <1>8, <1>9, <1>17 DEF QueueInv, StopAlone
  <2>2. StopUi \in Chain /\ rt.current \notin Chain
    BY <1>1, <1>17, KindsApart DEF StopUi, Command, Stops, Chain, Owned
  <2>3. j # 1
    BY <1>8, <2>1, <2>2
  <2>4. QED
    BY <1>8, <2>1, <2>3
<1>18. ASSUME rt.current \in Opening, NEW i \in DOMAIN p, p[i] \in Deletes PROVE FALSE
  <2>1. rt.stopping
    BY <1>8, <1>9, <1>18 DEF QueueInv, StopAlone, Chain
  <2>2. PICK j \in DOMAIN p : p[j] = StopUi
    BY <1>17, <1>18, <2>1
  <2>3. StopUi \in Stops
    BY DEF StopUi, Command, Stops, Owned
  <2>4. i + 1 = j + 1
    BY <1>8, <1>9, <1>18, <2>2, <2>3 DEF QueueInv, OneChain, Chain
  <2>5. i = j
    BY <1>8, <2>4
  <2>6. QED
    BY <1>18, <2>2, <2>3, <2>5, KindsApart
<1>19. QED
  BY <1>1, <1>2, <1>3, <1>7, <1>11, <1>12, <1>13, <1>14, <1>15, <1>16, <1>17, <1>18 DEF OnlySilent

(* A step of a helper command at the services.                             *)
LEMMA ServicesStep ==
  ASSUME LiveInv, Quiet, services' \in [Owned -> BOOLEAN], listening' \in BOOLEAN,
         Healthy(rt', services', bridge, fromProbe)
  PROVE  LiveInv'
<1>1. fromProbe' = fromProbe /\ bridge' = bridge
  BY DEF Quiet
<1>2. rt' \in Runtimes
  BY DEF Healthy
<1>3. ManagerTypes'
  BY <1>1, <1>2 DEF LiveInv, ManagerTypes
<1>4. Healthy(rt', services', bridge', fromProbe')
  BY <1>1
<1>5. QED
  BY <1>3, <1>4 DEF LiveInv

(* The next command runs.                                                  *)
LEMMA RunNextStep ==
  ASSUME LiveInv, RunNext
  PROVE  LiveInv'
<1>0. rt \in Runtimes /\ Healthy(rt, services, bridge, fromProbe)
  BY DEF LiveInv, Healthy
<1>1. PICK p \in Seq(Commands) : p = rt.operations
  BY <1>0 DEF Runtimes
<1>2. p # <<>> /\ rt.current = NoOperation /\ Keep
  BY <1>1 DEF RunNext
<1>3. PICK k \in Commands, rest \in Seq(Commands) : k = Head(p) /\ rest = Tail(p) /\ p = <<k>> \o rest
  <2>1. p = <<Head(p)>> \o Tail(p)
    BY <1>2
  <2>2. QED
    BY <1>2, <2>1, TailFacts
<1>4. PICK t \in Runtimes : t = [rt EXCEPT !.current = k, !.operations = rest]
  BY <1>0 DEF Runtimes
<1>5. rt' = t
  BY <1>1, <1>3, <1>4 DEF RunNext
<1>6. /\ ClientSame(rt, t) /\ t.states = rt.states /\ t.current = k /\ t.operations = rest
      /\ t.stopping = rt.stopping /\ t.deletion = rt.deletion
  BY <1>0, <1>4 DEF ClientSame, Runtimes
<1>7. Queue(t) = p /\ Queue(rt) = p
  BY <1>1, <1>2, <1>3, <1>6, KindFacts DEF Queue
<1>8. ServiceInv(t, services)
  BY <1>0, <1>6, <1>7 DEF Healthy, ServiceInv
<1>9. Healthy(t, services, bridge, fromProbe)
  BY <1>0, <1>6, <1>8, ClientKeeps DEF Healthy
<1>10. QED
  BY <1>2, <1>5, <1>9, KeepStep

(* A launch is queued behind no refresh, while the profile is open.        *)
LEMMA LaunchEnqueue ==
  ASSUME NEW s, NEW running, NEW b, NEW lines, Healthy(s, running, b, lines), ~s.stopping,
         NEW k \in Launches, k.why = "ensure" => s.states[k.on] # "Inactive",
         \A i \in DOMAIN Queue(s) : Queue(s)[i] \notin Refreshes
  PROVE  Healthy(Enqueue(s, <<k>>), running, b, lines)
<1>0. {k} \in SUBSET Commands /\ s \in Runtimes
  BY DEF Commands, Opening, Healthy
<1>1. PICK r \in Seq({k}) : r = <<k>>
  BY SingleFacts
<1>2. PICK t \in Runtimes : t = Enqueue(s, r)
  BY <1>0, EnqueueFacts DEF ClientSame
<1>3. ClientSame(s, t) /\ t.states = s.states /\ Queue(t) = Queue(s) \o r
  BY <1>0, <1>2, EnqueueFacts
<1>4. t.stopping = s.stopping /\ t.deletion = s.deletion /\ s.stopping \in BOOLEAN /\ s.deletion \in BOOLEAN
  BY <1>0, <1>3 DEF ClientSame, Runtimes
<1>5. PICK q \in Seq(Commands), p \in Seq(Commands) : q = Queue(s) /\ p = Queue(t)
  BY <1>0, QueueType
<1>6. Extended(q, p, {k})
  BY <1>0, <1>3, <1>5, ConcatExtends
<1>7. PICK o \in BOOLEAN, d \in BOOLEAN : o = s.stopping /\ d = s.deletion
  BY <1>4
<1>8. QueueInv(q, s.states, o, d, running)
  BY <1>5, <1>7 DEF Healthy, ServiceInv
<1>9. QueueInv(p, s.states, o, d, running)
  <2>1. k \in Looks \cup Launches
    OBVIOUS
  <2>2. \A i \in DOMAIN q : q[i] \notin Refreshes
    BY <1>5
  <2>3. QED
    BY <1>6, <1>7, <1>8, <2>1, <2>2, OpeningExtends
<1>10. ServiceInv(t, running)
  BY <1>3, <1>4, <1>5, <1>7, <1>9 DEF ServiceInv
<1>11. ClosedInv(t) /\ ControlInv(t, b, lines)
  BY <1>3, ClientKeeps DEF Healthy
<1>12. QED
  BY <1>1, <1>2, <1>10, <1>11 DEF Healthy

(* The state of a unit is set to what was seen of it.                      *)
LEMMA MarkShown ==
  ASSUME NEW s, NEW running, NEW b, NEW lines, Healthy(s, running, b, lines),
         NEW c \in Owned, NEW state \in States, state # "External",
         state # "Inactive" => \A i \in DOMAIN Queue(s) : Queue(s)[i] \notin Deletes,
         state = "Inactive" =>
           ~running[c] /\ (~s.stopping => \A i \in DOMAIN Queue(s) :
                              Queue(s)[i] \in Launches => Queue(s)[i].on # c \/ Queue(s)[i].why # "ensure")
  PROVE  Healthy(Mark(s, c, state), running, b, lines)
<1>0. s \in Runtimes
  BY DEF Healthy
<1>1. PICK t \in Runtimes : t = Mark(s, c, state)
  BY <1>0, MarkFacts DEF ClientSame
<1>2. /\ ClientSame(s, t) /\ t.states = [s.states EXCEPT ![c] = state] /\ Queue(t) = Queue(s)
  BY <1>0, <1>1, MarkFacts
<1>3. t.stopping = s.stopping /\ t.deletion = s.deletion
  BY <1>2 DEF ClientSame
<1>4. PICK q \in Seq(Commands), states \in [Components -> States], o \in BOOLEAN, d \in BOOLEAN :
         q = Queue(s) /\ states = s.states /\ o = s.stopping /\ d = s.deletion
  BY <1>0, QueueType DEF Runtimes
<1>5. QueueInv(q, states, o, d, running)
  BY <1>4 DEF Healthy, ServiceInv
<1>6. QueueInv(q, [states EXCEPT ![c] = state], o, d, running)
  BY <1>4, <1>5, MarkKeeps
<1>7. ServiceInv(t, running)
  BY <1>2, <1>3, <1>4, <1>6 DEF ServiceInv
<1>8. ClosedInv(t) /\ ControlInv(t, b, lines)
  BY <1>2, ClientKeeps DEF Healthy
<1>9. QED
  BY <1>1, <1>7, <1>8 DEF Healthy

(* What show printed, if it was Inactive, is the truth.                    *)
LEMMA ShownFacts ==
  ASSUME NEW state \in ShownStates, Shown(state)
  PROVE  state \in States \ {"External", "Starting"} /\ (state = "Inactive" => ~services[On])
  BY DEF ShownStates, Shown, States

(* ensureComponent has seen the unit.                                      *)
LEMMA EnsureShownStep ==
  ASSUME LiveInv, EnsureShown
  PROVE  LiveInv'
<1>0. rt \in Runtimes /\ Healthy(rt, services, bridge, fromProbe)
  BY DEF LiveInv, Healthy
<1>1. Keep /\ rt.current.kind = "show" /\ rt.current.why = "ensure" /\ rt.current # NoOperation
  BY DEF EnsureShown, Finished, NoOperation
<1>2. rt.current \in Looks /\ On \in BackendSet /\ On \in Owned
  <2>1. rt.current \in Commands
    BY <1>0, <1>1 DEF Runtimes
  <2>2. rt.current \in Looks
    BY <1>1, <2>1, KindFacts
  <2>3. QED
    BY <1>1, <2>2 DEF Looks, On, Owned
<1>3. rt.current \in Opening /\ rt.current \notin Stops /\ rt.current \notin Refreshes
  BY <1>2, KindsApart DEF Opening, Commands, Chain
<1>4. /\ Healthy(After, services, bridge, fromProbe)
      /\ After \in Runtimes /\ After.stopping = rt.stopping /\ After.starting = rt.starting
      /\ \A i \in DOMAIN Queue(After) : Queue(After)[i] \notin Refreshes
  BY <1>1, <1>3, AfterFacts DEF ClientSame
<1>5. PICK state \in ShownStates :
        /\ Shown(state)
        /\ rt' = CASE ~rt.starting -> After
                   [] rt.starting /\ state = "Unknown" -> Fail(Mark(After, On, state))
                   [] rt.starting /\ state = "Running" ->
                        EnsureComponent(Mark(After, On, state), Position(Backends, On) + 1)
                   [] rt.starting /\ state = "Inactive" ->
                        Enqueue(Mark(After, On, "Starting"), <<Command("check", On, "ensure")>>)
  BY DEF EnsureShown
<1>6. CASE ~rt.starting
  BY <1>1, <1>4, <1>5, <1>6, KeepStep
<1>7. CASE rt.starting
  <2>1. ~rt.stopping
    BY <1>0, <1>7 DEF Healthy, ClosedInv, ProbeInv
  <2>2. ASSUME NEW other \in {"Unknown", "Running", "Starting"}
        PROVE  /\ Healthy(Mark(After, On, other), services, bridge, fromProbe)
               /\ Mark(After, On, other) \in Runtimes
               /\ ~Mark(After, On, other).stopping
    <3>1. other \in States \ {"External", "Inactive"}
      BY DEF States
    <3>2. OpeningStep(After, Mark(After, On, other))
      BY <1>2, <1>4, <2>1, <3>1, OpenMark
    <3>3. QED
      BY <1>4, <2>1, <3>2, HealthyOpening DEF OpeningStep, ClientSame
  <2>3. CASE state = "Unknown"
    <3>1. rt' = Fail(Mark(After, On, "Unknown"))
      BY <1>5, <1>7, <2>3
    <3>2. PICK t \in Runtimes : t = Mark(After, On, "Unknown")
      BY <2>2
    <3>3. Healthy(t, services, bridge, fromProbe)
      BY <2>2, <3>2
    <3>4. QED
      BY <1>1, <3>1, <3>2, <3>3, FailFacts, HealthyOpening, KeepStep
  <2>4. CASE state = "Running"
    <3>1. rt' = EnsureComponent(Mark(After, On, "Running"), Position(Backends, On) + 1)
      BY <1>5, <1>7, <2>4
    <3>2. PICK t \in Runtimes : t = Mark(After, On, "Running")
      BY <2>2
    <3>3. Healthy(t, services, bridge, fromProbe) /\ ~t.stopping
      BY <2>2, <3>2
    <3>4. QED
      BY <1>1, <1>2, <3>1, <3>2, <3>3, NextIndex, EnsureComponentKeeps, KeepStep
  <2>5. CASE state = "Inactive"
    <3>1. rt' = Enqueue(Mark(After, On, "Starting"), <<Command("check", On, "ensure")>>)
      BY <1>5, <1>7, <2>5
    <3>2. PICK t \in Runtimes : t = Mark(After, On, "Starting")
      BY <2>2
    <3>3. Healthy(t, services, bridge, fromProbe) /\ ~t.stopping
      BY <2>2, <3>2
    <3>4. Command("check", On, "ensure") \in Launches /\ Command("check", On, "ensure").on = On
      BY <1>2 DEF Command, Launches
    <3>5. PICK k \in Launches : k = Command("check", On, "ensure") /\ k.on = On
      BY <3>4
    <3>6. "Starting" \in States /\ t.states[On] = "Starting"
      <4>1. t.states = [After.states EXCEPT ![On] = "Starting"]
        BY <1>2, <1>4, <3>2, MarkFacts DEF States
      <4>2. After.states \in [Components -> States] /\ On \in Components
        BY <1>2, <1>4 DEF Runtimes, Components
      <4>3. QED
        BY <4>1, <4>2 DEF States
    <3>7. Queue(t) = Queue(After)
      BY <1>2, <1>4, <3>2, <3>6, MarkFacts
    <3>8. Healthy(Enqueue(t, <<k>>), services, bridge, fromProbe)
      BY <1>4, <3>3, <3>5, <3>6, <3>7, LaunchEnqueue
    <3>9. QED
      BY <1>1, <3>1, <3>2, <3>5, <3>8, KeepStep
  <2>6. QED
    BY <2>3, <2>4, <2>5 DEF ShownStates
<1>8. QED
  BY <1>0, <1>6, <1>7 DEF Runtimes

(* ensureUi has seen the UI.                                               *)
LEMMA UiShownStep ==
  ASSUME LiveInv, UiShown
  PROVE  LiveInv'
<1>0. rt \in Runtimes /\ Healthy(rt, services, bridge, fromProbe)
  BY DEF LiveInv, Healthy
<1>1. Keep /\ rt.current.kind = "show" /\ rt.current.why = "ui" /\ rt.current # NoOperation
  BY DEF UiShown, Finished, NoOperation
<1>2. rt.current \in Looks /\ On = UI /\ UI \in Owned
  <2>1. rt.current \in Commands
    BY <1>0, <1>1 DEF Runtimes
  <2>2. rt.current \in Looks
    BY <1>1, <2>1, KindFacts
  <2>3. QED
    BY <1>1, <2>2 DEF Looks, On, Owned
<1>3. rt.current \in Opening /\ rt.current \notin Stops /\ rt.current \notin Refreshes
  BY <1>2, KindsApart DEF Opening, Commands, Chain
<1>4. /\ Healthy(After, services, bridge, fromProbe)
      /\ After \in Runtimes /\ After.stopping = rt.stopping
      /\ \A i \in DOMAIN Queue(After) : Queue(After)[i] \notin Refreshes
  BY <1>1, <1>3, AfterFacts DEF ClientSame
<1>5. PICK state \in ShownStates :
        /\ Shown(state)
        /\ rt' = CASE rt.stopping -> After
                   [] ~rt.stopping /\ state = "Unknown" -> Fail(Mark(After, UI, state))
                   [] ~rt.stopping /\ state = "Running" -> Mark(After, UI, state)
                   [] ~rt.stopping /\ state = "Inactive" ->
                        Enqueue(Mark(After, UI, state), <<Command("check", UI, "ui")>>)
  BY DEF UiShown
<1>6. CASE rt.stopping
  BY <1>1, <1>4, <1>5, <1>6, KeepStep
<1>7. CASE ~rt.stopping
  <2>1. ASSUME NEW i \in DOMAIN Queue(After), Queue(After)[i] \in Launches
        PROVE  Queue(After)[i].on # UI \/ Queue(After)[i].why # "ensure"
    BY <2>1, ProfileAssumption DEF Launches
  <2>2. ASSUME NEW i \in DOMAIN Queue(After) PROVE Queue(After)[i] \notin Deletes
    BY <1>1, <1>3, <2>2, AfterFacts
  <2>3. PICK t : t = Mark(After, UI, state)
    OBVIOUS
  <2>4. Healthy(t, services, bridge, fromProbe)
    BY <1>2, <1>4, <1>5, <2>1, <2>2, <2>3, ShownFacts, MarkShown
  <2>5. t \in Runtimes /\ ~t.stopping /\ Queue(t) = Queue(After)
    <3>1. state \in States
      BY <1>5, ShownFacts
    <3>2. ClientSame(After, t) /\ Queue(t) = Queue(After)
      BY <1>2, <1>4, <2>3, <3>1, MarkFacts
    <3>3. QED
      BY <1>4, <1>7, <3>2 DEF ClientSame
  <2>6. CASE state = "Unknown"
    <3>1. rt' = Fail(t)
      BY <1>5, <1>7, <2>3, <2>6
    <3>2. QED
      BY <1>1, <2>4, <2>5, <3>1, FailFacts, HealthyOpening, KeepStep
  <2>7. CASE state = "Running"
    <3>1. rt' = t
      BY <1>5, <1>7, <2>3, <2>7
    <3>2. QED
      BY <1>1, <2>4, <3>1, KeepStep
  <2>8. CASE state = "Inactive"
    <3>1. rt' = Enqueue(t, <<Command("check", UI, "ui")>>)
      BY <1>5, <1>7, <2>3, <2>8
    <3>2. Command("check", UI, "ui") \in Launches /\ Command("check", UI, "ui").why = "ui"
      BY DEF Command, Launches
    <3>3. PICK k \in Launches : k = Command("check", UI, "ui") /\ k.why = "ui"
      BY <3>2
    <3>4. Healthy(Enqueue(t, <<k>>), services, bridge, fromProbe)
      BY <1>4, <2>4, <2>5, <3>3, LaunchEnqueue
    <3>5. QED
      BY <1>1, <3>1, <3>3, <3>4, KeepStep
  <2>9. QED
    BY <2>6, <2>7, <2>8 DEF ShownStates
<1>8. QED
  BY <1>6, <1>7

(* refresh has seen a unit.                                                *)
LEMMA RefreshShownStep ==
  ASSUME LiveInv, RefreshShown
  PROVE  LiveInv'
<1>0. rt \in Runtimes /\ Healthy(rt, services, bridge, fromProbe)
  BY DEF LiveInv, Healthy
<1>1. Keep /\ rt.current.kind = "show" /\ rt.current.why = "refresh" /\ rt.current # NoOperation
  BY DEF RefreshShown, Finished, NoOperation
<1>2. rt.current \in Refreshes /\ On \in Owned
  <2>1. rt.current \in Commands
    BY <1>0, <1>1 DEF Runtimes
  <2>2. rt.current \in Refreshes
    BY <1>1, <2>1, KindFacts
  <2>3. QED
    BY <2>2 DEF Refreshes, On
<1>3. rt.current \in Opening /\ rt.current \notin Stops
  BY <1>2, KindsApart DEF Opening, Commands, Chain
<1>4. PICK state \in ShownStates : Shown(state) /\ rt' = Mark(After, On, state)
  BY DEF RefreshShown
<1>5. /\ Healthy(After, services, bridge, fromProbe)
      /\ \A i \in DOMAIN Queue(After) : Queue(After)[i] \notin Deletes
      /\ \A i \in DOMAIN Queue(After) : Queue(After)[i] \notin Launches
  BY <1>1, <1>2, <1>3, AfterFacts
<1>6. Healthy(Mark(After, On, state), services, bridge, fromProbe)
  BY <1>2, <1>4, <1>5, ShownFacts, MarkShown
<1>7. QED
  BY <1>1, <1>4, <1>6, KeepStep

(* A stop has one command at a time: what is left of the queue when it     *)
(* ends, and which units may still be wrongly taken for stopped.           *)
LEMMA StopRuns ==
  ASSUME LiveInv, rt.current \in Stops
  PROVE  /\ rt.current # NoOperation /\ On \in Owned
         /\ After \in Runtimes /\ After.stopping /\ After.states = rt.states /\ OnlySilent(After)
         /\ ClosedInv(After) /\ ControlInv(After, bridge, fromProbe)
         /\ \A d \in Owned :
               /\ rt.states[d] # "External"
               /\ rt.states[d] = "Inactive" /\ services[d] => Place(d) <= Place(On)
<1>0. rt \in Runtimes /\ Healthy(rt, services, bridge, fromProbe)
  BY DEF LiveInv, Healthy
<1>1. rt.current \in Commands /\ rt.current \in Chain
  BY DEF Commands, Chain
<1>2. rt.current # NoOperation
  BY <1>1, KindFacts
<1>3. On \in Owned
  BY DEF Stops, On
<1>4. /\ After \in Runtimes /\ ClientSame(rt, After) /\ After.states = rt.states
      /\ rt.stopping /\ OnlySilent(After)
  BY <1>1, <1>2, AfterFacts DEF ClientSame
<1>5. ClosedInv(After) /\ ControlInv(After, bridge, fromProbe)
  BY <1>0, <1>4, ClientKeeps DEF Healthy
<1>6. PICK q \in Seq(Commands) : q = Queue(rt)
  BY <1>0, QueueType
<1>7. QueueInv(q, rt.states, rt.stopping, rt.deletion, services)
  BY <1>0, <1>6 DEF Healthy, ServiceInv
<1>8. 1 \in DOMAIN q /\ q[1] = rt.current
  <2>1. PICK k \in Commands, p \in Seq(Commands) : k = rt.current /\ p = rt.operations
    BY <1>0, <1>1 DEF Runtimes
  <2>2. q = <<k>> \o p
    BY <1>2, <1>6, <2>1 DEF Queue
  <2>3. QED
    BY <2>1, <2>2, PrependFacts, TailFacts
<1>9. ASSUME NEW d \in Owned, rt.states[d] = "Inactive", services[d] PROVE Place(d) <= Place(On)
  <2>1. PICK j \in DOMAIN q : q[j] \in Stops /\ Place(d) <= Place(q[j].on)
    BY <1>7, <1>9 DEF QueueInv, StatesTrue
  <2>2. j = 1
    BY <1>1, <1>7, <1>8, <2>1 DEF QueueInv, OneChain, Chain
  <2>3. QED
    BY <1>8, <2>1, <2>2 DEF On
<1>10. \A d \in Owned : rt.states[d] # "External"
  BY <1>7 DEF QueueInv, StatesTrue
<1>11. After.stopping
  BY <1>4 DEF ClientSame
<1>12. QED
  BY <1>2, <1>3, <1>4, <1>5, <1>9, <1>10, <1>11

(* The stop has seen, or stopped, a unit.                                  *)
LEMMA StopMarks ==
  ASSUME LiveInv, rt.current \in Stops, NEW state \in States, state # "External",
         NEW now, \A d \in Owned : now[d] => services[d],
         NEW t, t = Mark(After, On, state)
  PROVE  /\ t \in Runtimes /\ t.stopping /\ OnlySilent(t)
         /\ ClosedInv(t) /\ ControlInv(t, bridge, fromProbe)
         /\ \A d \in Owned :
               t.states[d] # "External" /\ (t.states[d] = "Inactive" /\ now[d] => Place(d) <= Place(On))
         /\ state # "Inactive" \/ ~now[On] =>
               \A d \in Owned : t.states[d] = "Inactive" /\ now[d] => Place(d) < Place(On)
<1>1. /\ On \in Owned
      /\ After \in Runtimes /\ After.stopping /\ After.states = rt.states /\ OnlySilent(After)
      /\ ClosedInv(After) /\ ControlInv(After, bridge, fromProbe)
      /\ \A d \in Owned :
            /\ rt.states[d] # "External"
            /\ rt.states[d] = "Inactive" /\ services[d] => Place(d) <= Place(On)
  BY StopRuns
<1>2. /\ ClientSame(After, t) /\ t.states = [rt.states EXCEPT ![On] = state] /\ Queue(t) = Queue(After)
  BY <1>1, MarkFacts
<1>3. t \in Runtimes /\ t.stopping
  BY <1>1, <1>2 DEF ClientSame
<1>4. OnlySilent(t)
  BY <1>1, <1>2 DEF OnlySilent
<1>5. ClosedInv(t) /\ ControlInv(t, bridge, fromProbe)
  BY <1>1, <1>2, ClientKeeps
<1>6. rt.states \in [Components -> States]
  BY DEF LiveInv, ManagerTypes, Runtimes
<1>7. t.states[On] = state /\ \A d \in Owned : d # On => t.states[d] = rt.states[d]
  BY <1>1, <1>2, <1>6 DEF Components
<1>8. Place(On) \in Nat /\ \A d \in Owned : Place(d) \in Nat /\ (Place(d) = Place(On) => d = On)
  <2>1. /\ Len(Backends) \in Nat
        /\ \A c \in Owned : Place(c) \in 1 .. Len(Backends) + 1 /\ OwnedSeq[Place(c)] = c
    BY PlaceFacts
  <2>2. QED
    BY <1>1, <2>1
<1>9. ASSUME NEW d \in Owned
      PROVE  /\ t.states[d] # "External"
             /\ t.states[d] = "Inactive" /\ now[d] => Place(d) <= Place(On)
             /\ (state # "Inactive" \/ ~now[On]) /\ t.states[d] = "Inactive" /\ now[d] => Place(d) < Place(On)
  <2>1. CASE d = On
    BY <1>7, <1>8, <2>1
  <2>2. CASE d # On
    BY <1>1, <1>7, <1>8, <2>2
  <2>3. QED
    BY <2>1, <2>2
<1>10. QED
  BY <1>3, <1>4, <1>5, <1>9

(* stopComponent has seen a unit.                                          *)
LEMMA StopShownStep ==
  ASSUME LiveInv, StopShown
  PROVE  LiveInv'
<1>0. rt \in Runtimes /\ Healthy(rt, services, bridge, fromProbe)
  BY DEF LiveInv, Healthy
<1>1. Keep /\ rt.current.kind = "show" /\ rt.current.why = "stop" /\ rt.current # NoOperation
  BY DEF StopShown, Finished, NoOperation
<1>2. rt.current \in Stops /\ On \in Owned
  <2>1. rt.current \in Commands
    BY <1>0, <1>1 DEF Runtimes
  <2>2. rt.current \in Stops
    BY <1>1, <2>1, KindFacts
  <2>3. QED
    BY <2>2 DEF Stops, On
<1>3. PICK state \in ShownStates :
        /\ Shown(state)
        /\ rt' = IF state = "Running" THEN Enqueue(Mark(After, On, state), <<Command("stop", On, "stop")>>)
                 ELSE StopNext(Mark(After, On, state), On)
  BY DEF StopShown
<1>4. state \in States /\ state # "External" /\ (state # "Inactive" \/ ~services[On])
  BY <1>3, ShownFacts
<1>5. PICK t : t = Mark(After, On, state)
  OBVIOUS
<1>6. /\ t \in Runtimes /\ t.stopping /\ OnlySilent(t)
      /\ ClosedInv(t) /\ ControlInv(t, bridge, fromProbe)
      /\ \A d \in Owned :
            t.states[d] # "External" /\ (t.states[d] = "Inactive" /\ services[d] => Place(d) <= Place(On))
      /\ \A d \in Owned : t.states[d] = "Inactive" /\ services[d] => Place(d) < Place(On)
  BY <1>2, <1>4, <1>5, StopMarks
<1>7. CASE state = "Running"
  <2>1. Command("stop", On, "stop") \in Stops /\ Command("stop", On, "stop").on = On
    BY <1>2 DEF Command, Stops
  <2>2. PICK k \in Stops : k = Command("stop", On, "stop") /\ k.on = On
    BY <2>1
  <2>3. k \in Chain /\ k \notin Deletes
    BY KindsApart DEF Chain, Commands
  <2>4. Healthy(Enqueue(t, <<k>>), services, bridge, fromProbe)
    BY <1>6, <2>2, <2>3, ChainGoesOn
  <2>5. rt' = Enqueue(t, <<k>>)
    BY <1>3, <1>5, <1>7, <2>2
  <2>6. QED
    BY <1>1, <2>4, <2>5, KeepStep
<1>8. CASE state # "Running"
  <2>1. rt' = StopNext(t, On)
    BY <1>3, <1>5, <1>8
  <2>2. Healthy(StopNext(t, On), services, bridge, fromProbe)
    BY <1>2, <1>6, StopNextKeeps
  <2>3. QED
    BY <1>1, <2>1, <2>2, KeepStep
<1>9. QED
  BY <1>7, <1>8

(* A unit was stopped, or not.                                             *)
LEMMA StoppedStep ==
  ASSUME LiveInv, Stopped
  PROVE  LiveInv'
<1>0. rt \in Runtimes /\ services \in [Owned -> BOOLEAN]
  BY DEF LiveInv, ManagerTypes
<1>1. Quiet /\ rt.current.kind = "stop" /\ rt.current # NoOperation
  BY DEF Stopped, NoOperation
<1>2. rt.current \in Stops /\ On \in Owned
  <2>1. rt.current \in Commands
    BY <1>0, <1>1 DEF Runtimes
  <2>2. rt.current \in Stops
    BY <1>1, <2>1 DEF Commands, Opening, Chain, Looks, Launches, Refreshes, Stops, Deletes, Silent
  <2>3. QED
    BY <2>2 DEF Stops, On
<1>3. PICK ok \in BOOLEAN, run \in BOOLEAN :
        /\ ok => ~run
        /\ services' = [services EXCEPT ![On] = run /\ @]
        /\ listening' = (listening /\ services'[UI])
        /\ rt' = StopNext(Mark(After, On, IF ok THEN "Inactive" ELSE "Unknown"), On)
  BY DEF Stopped
<1>4. PICK state \in States : state = IF ok THEN "Inactive" ELSE "Unknown"
  BY DEF States
<1>5. PICK now \in [Owned -> BOOLEAN] : now = services'
  BY <1>0, <1>2, <1>3
<1>6. (\A d \in Owned : now[d] => services[d]) /\ (ok => ~now[On])
  BY <1>0, <1>2, <1>3, <1>5
<1>7. PICK t : t = Mark(After, On, state)
  OBVIOUS
<1>8. /\ t \in Runtimes /\ t.stopping /\ OnlySilent(t)
      /\ ClosedInv(t) /\ ControlInv(t, bridge, fromProbe)
      /\ \A d \in Owned : t.states[d] # "External" /\ (t.states[d] = "Inactive" /\ now[d] => Place(d) < Place(On))
  BY <1>2, <1>4, <1>6, <1>7, StopMarks
<1>9. Healthy(StopNext(t, On), now, bridge, fromProbe)
  BY <1>2, <1>8, StopNextKeeps
<1>10. Healthy(rt', services', bridge, fromProbe)
  BY <1>3, <1>4, <1>5, <1>7, <1>9
<1>11. listening' \in BOOLEAN
  BY <1>3, <1>5, ProfileAssumption DEF LiveInv, ManagerTypes, Owned
<1>12. QED
  BY <1>1, <1>5, <1>10, <1>11, ServicesStep

(* A unit may begin to run that does not count as stopped, or that the     *)
(* stop has yet to reach.                                                  *)
LEMMA HealthyNow ==
  ASSUME NEW s, NEW running, NEW now, NEW b, NEW lines, Healthy(s, running, b, lines),
         \A c \in Owned :
            now[c] => running[c] \/ s.states[c] # "Inactive" \/ \E j \in DOMAIN Queue(s) : Queue(s)[j] = StopUi
  PROVE  Healthy(s, now, b, lines)
<1>1. PICK q \in Seq(Commands), o \in BOOLEAN, d \in BOOLEAN : q = Queue(s) /\ o = s.stopping /\ d = s.deletion
  BY QueueType DEF Healthy, Runtimes
<1>2. QueueInv(q, s.states, o, d, running)
  BY <1>1 DEF Healthy, ServiceInv
<1>3. QueueInv(q, s.states, o, d, now)
  BY <1>1, <1>2, RunningKeeps
<1>4. QED
  BY <1>1, <1>3 DEF Healthy, ServiceInv

(* A launch ends, successful or not, and the unit may run from now on.     *)
LEMMA LaunchedKeeps ==
  ASSUME LiveInv, rt.current \in Launches, NEW ok \in BOOLEAN,
         NEW now, \A c \in Owned : now[c] => services[c] \/ c = On
  PROVE  Healthy(Launched(After, ok), now, bridge, fromProbe)
<1>0. rt \in Runtimes /\ Healthy(rt, services, bridge, fromProbe)
  BY DEF LiveInv, Healthy
<1>1. rt.current \in Commands /\ rt.current \in Opening
  BY DEF Commands, Opening
<1>2. rt.current # NoOperation /\ rt.current \notin Stops
  BY <1>1, KindFacts, KindsApart DEF Chain
<1>3. On \in Owned /\ (rt.current.why = "ensure" => On \in BackendSet) /\ rt.current.why \in {"ensure", "ui"}
  BY ProfileAssumption DEF Launches, On, Owned
<1>4. PICK s \in Runtimes : s = After
  BY <1>2, AfterFacts DEF ClientSame
<1>5. /\ Healthy(s, services, bridge, fromProbe)
      /\ s.stopping = rt.stopping /\ s.states = rt.states
      /\ rt.stopping => \E i \in DOMAIN Queue(s) : Queue(s)[i] = StopUi
  BY <1>1, <1>2, <1>4, AfterFacts DEF ClientSame
<1>6. PICK wanted \in BOOLEAN : wanted <=> ~s.stopping /\ (rt.current.why = "ensure" => s.starting)
  OBVIOUS
<1>7. CASE ~wanted
  <2>1. ASSUME s.stopping
        PROVE  s.states[On] # "Inactive" \/ \E j \in DOMAIN Queue(s) : Queue(s)[j] = StopUi
    BY <1>5, <2>1
  <2>2. ASSUME ~s.stopping PROVE s.states[On] # "Inactive"
    <3>1. rt.current.why = "ensure"
      BY <1>5, <1>6, <1>7, <2>2
    <3>2. rt.states[On] # "Inactive"
      <4>1. PICK q \in Seq(Commands) : q = Queue(rt)
        BY <1>0, QueueType
      <4>2. LaunchesMarked(q, rt.states, rt.stopping)
        BY <1>0, <4>1 DEF Healthy, ServiceInv, QueueInv
      <4>3. PICK k \in Commands, p \in Seq(Commands) : k = rt.current /\ p = rt.operations
        BY <1>0, <1>1 DEF Runtimes
      <4>4. q = <<k>> \o p
        BY <1>2, <4>1, <4>3 DEF Queue
      <4>5. 1 \in DOMAIN q /\ q[1] = rt.current
        BY <4>3, <4>4, PrependFacts, TailFacts
      <4>6. QED
        BY <1>5, <2>2, <3>1, <4>2, <4>5 DEF LaunchesMarked, On
    <3>3. QED
      BY <1>5, <3>2
  <2>3. s.states[On] # "Inactive" \/ \E j \in DOMAIN Queue(s) : Queue(s)[j] = StopUi
    BY <2>1, <2>2
  <2>4. Healthy(s, now, bridge, fromProbe)
    BY <1>5, <2>3, HealthyNow
  <2>5. Launched(After, ok) = s
    BY <1>4, <1>6, <1>7 DEF Launched
  <2>6. QED
    BY <2>4, <2>5
<1>8. CASE wanted
  <2>1. ~s.stopping
    BY <1>6, <1>8
  <2>2. ASSUME NEW state \in {"Unknown", "Running"}, NEW t, t = Mark(s, On, state)
        PROVE  t \in Runtimes /\ ~t.stopping /\ Healthy(t, now, bridge, fromProbe)
    <3>1. state \in States \ {"External", "Inactive"}
      BY DEF States
    <3>2. OpeningStep(s, t)
      BY <1>3, <2>1, <2>2, <3>1, OpenMark
    <3>3. Healthy(t, services, bridge, fromProbe) /\ t \in Runtimes /\ ~t.stopping
      BY <1>5, <2>1, <3>2, HealthyOpening DEF OpeningStep, ClientSame
    <3>4. t.states[On] # "Inactive"
      <4>1. t.states = [s.states EXCEPT ![On] = state]
        BY <1>3, <2>2, <3>1, MarkFacts
      <4>2. s.states \in [Components -> States] /\ On \in Components
        BY <1>3 DEF Runtimes, Components
      <4>3. QED
        BY <4>1, <4>2
    <3>5. QED
      BY <3>3, <3>4, HealthyNow
  <2>3. PICK t, u : t = Mark(s, On, "Unknown") /\ u = Mark(s, On, "Running")
    OBVIOUS
  <2>4. /\ t \in Runtimes /\ ~t.stopping /\ Healthy(t, now, bridge, fromProbe)
        /\ u \in Runtimes /\ ~u.stopping /\ Healthy(u, now, bridge, fromProbe)
    BY <2>2, <2>3
  <2>5. CASE ~ok
    <3>1. Launched(After, ok) = Fail(t)
      BY <1>4, <1>6, <1>8, <2>3, <2>5 DEF Launched
    <3>2. QED
      BY <2>4, <3>1, FailFacts, HealthyOpening
  <2>6. CASE ok /\ rt.current.why = "ui"
    <3>1. Launched(After, ok) = u
      BY <1>4, <1>6, <1>8, <2>3, <2>6 DEF Launched
    <3>2. QED
      BY <2>4, <3>1
  <2>7. CASE ok /\ rt.current.why = "ensure"
    <3>1. Launched(After, ok) = EnsureComponent(u, Position(Backends, On) + 1)
      BY <1>4, <1>6, <1>8, <2>3, <2>7 DEF Launched
    <3>2. QED
      BY <1>3, <2>4, <2>7, <3>1, NextIndex, EnsureComponentKeeps
  <2>8. QED
    BY <1>3, <2>5, <2>6, <2>7
<1>9. QED
  BY <1>7, <1>8

(* launch: the configuration was checked.                                  *)
LEMMA CheckedStep ==
  ASSUME LiveInv, Checked
  PROVE  LiveInv'
<1>0. rt \in Runtimes /\ Healthy(rt, services, bridge, fromProbe)
  BY DEF LiveInv, Healthy
<1>1. Keep /\ rt.current.kind = "check" /\ rt.current # NoOperation
  BY DEF Checked, NoOperation
<1>2. rt.current \in Commands /\ rt.current \in Launches
  <2>1. rt.current \in Commands
    BY <1>0, <1>1 DEF Runtimes
  <2>2. QED
    BY <1>1, <2>1, KindFacts
<1>3. CASE rt' = Launched(After, FALSE)
  BY <1>1, <1>2, <1>3, LaunchedKeeps, KeepStep
<1>4. rt.current \in Opening /\ rt.current \notin Stops
  BY <1>2, KindsApart DEF Opening, Chain
<1>5. /\ Healthy(After, services, bridge, fromProbe)
      /\ After.stopping = rt.stopping /\ After.states = rt.states
      /\ \A i \in DOMAIN Queue(After) : Queue(After)[i] \notin Refreshes
  BY <1>1, <1>2, <1>4, AfterFacts DEF ClientSame
<1>6. CASE rt.stopping /\ rt' = After
  BY <1>1, <1>5, <1>6, KeepStep
<1>7. CASE ~rt.stopping /\ rt' = Enqueue(After, <<Command("start", On, rt.current.why)>>)
  <2>1. /\ Command("start", On, rt.current.why) \in Launches
        /\ Command("start", On, rt.current.why).on = On
        /\ Command("start", On, rt.current.why).why = rt.current.why
    BY <1>2 DEF Command, Launches, On
  <2>2. PICK k \in Launches :
           k = Command("start", On, rt.current.why) /\ k.on = On /\ k.why = rt.current.why
    BY <2>1
  <2>3. rt.current.why = "ensure" => rt.states[On] # "Inactive"
    <3>1. PICK q \in Seq(Commands) : q = Queue(rt)
      BY <1>0, QueueType
    <3>2. LaunchesMarked(q, rt.states, rt.stopping)
      BY <1>0, <3>1 DEF Healthy, ServiceInv, QueueInv
    <3>3. PICK c \in Commands, p \in Seq(Commands) : c = rt.current /\ p = rt.operations
      BY <1>0, <1>2 DEF Runtimes
    <3>4. q = <<c>> \o p
      BY <1>1, <3>1, <3>3 DEF Queue
    <3>5. 1 \in DOMAIN q /\ q[1] = rt.current
      BY <3>3, <3>4, PrependFacts, TailFacts
    <3>6. QED
      BY <1>2, <1>7, <3>2, <3>5 DEF LaunchesMarked, On
  <2>4. Healthy(Enqueue(After, <<k>>), services, bridge, fromProbe)
    BY <1>5, <1>7, <2>2, <2>3, LaunchEnqueue
  <2>5. QED
    BY <1>1, <1>7, <2>2, <2>4, KeepStep
<1>8. QED
  BY <1>3, <1>6, <1>7 DEF Checked

(* launch: the service was started, or not.                                *)
LEMMA StartedStep ==
  ASSUME LiveInv, Started
  PROVE  LiveInv'
<1>0. rt \in Runtimes /\ services \in [Owned -> BOOLEAN] /\ listening \in BOOLEAN
  BY DEF LiveInv, ManagerTypes
<1>1. Quiet /\ listening' = listening /\ rt.current.kind = "start" /\ rt.current # NoOperation
  BY DEF Started, NoOperation
<1>2. rt.current \in Launches /\ On \in Owned
  <2>1. rt.current \in Commands
    BY <1>0, <1>1 DEF Runtimes
  <2>2. rt.current \in Launches
    BY <1>1, <2>1, KindFacts
  <2>3. QED
    BY <2>2 DEF Launches, On, Owned
<1>3. PICK ok \in BOOLEAN :
        /\ rt' = Launched(After, ok)
        /\ services' = services \/ \E run \in BOOLEAN : services' = [services EXCEPT ![On] = run]
  BY DEF Started
<1>4. PICK now \in [Owned -> BOOLEAN] : now = services'
  BY <1>0, <1>3
<1>5. \A c \in Owned : now[c] => services[c] \/ c = On
  BY <1>0, <1>3, <1>4
<1>6. Healthy(Launched(After, ok), now, bridge, fromProbe)
  BY <1>2, <1>5, LaunchedKeeps
<1>7. Healthy(rt', services', bridge, fromProbe)
  BY <1>3, <1>4, <1>6
<1>8. QED
  BY <1>0, <1>1, <1>4, <1>7, ServicesStep

(* readLogs: a log was read.                                               *)
LEMMA LogsReadStep ==
  ASSUME LiveInv, LogsRead
  PROVE  LiveInv'
<1>0. rt \in Runtimes
  BY DEF LiveInv, ManagerTypes
<1>1. Keep /\ rt.current.kind = "logs" /\ rt.current # NoOperation /\ rt' = After
  BY DEF LogsRead, NoOperation
<1>2. rt.current \in Commands
  BY <1>0, <1>1 DEF Runtimes
<1>3. rt.current \notin Stops
  BY <1>1, <1>2, KindFacts, KindsApart DEF Chain
<1>4. Healthy(After, services, bridge, fromProbe)
  BY <1>1, <1>3, AfterFacts
<1>5. QED
  BY <1>1, <1>4, KeepStep

(* A deletion, or its preview, has an outcome.                             *)
LEMMA OutcomeKeeps ==
  ASSUME NEW s, NEW running, NEW b, NEW lines, Healthy(s, running, b, lines),
         NEW f \in Seq({"deleted", "failed"})
  PROVE  Healthy([s EXCEPT !.finished = f], running, b, lines)
<1>1. PICK t \in Runtimes : t = [s EXCEPT !.finished = f]
  BY DEF Healthy, Runtimes
<1>2. ClientSame(s, t) /\ t.states = s.states /\ t.current = s.current /\ t.operations = s.operations
  BY <1>1 DEF Healthy, ClientSame, Runtimes
<1>3. OpeningStep(s, t)
  BY <1>2, OpeningSilent
<1>4. QED
  BY <1>1, <1>3, HealthyOpening

(* inspectDeletionTarget, and what deleteData does after the last target.  *)
LEMMA InspectedStep ==
  ASSUME LiveInv, NEW valid, Inspected(valid)
  PROVE  LiveInv'
<1>0. rt \in Runtimes
  BY DEF LiveInv, ManagerTypes
<1>1. Keep /\ rt.current.kind = "inspect" /\ rt.current # NoOperation
  BY DEF Inspected, NoOperation
<1>2. rt.current \in Silent /\ On \in Targets /\ rt.current \notin Stops
  <2>1. rt.current \in Commands
    BY <1>0, <1>1 DEF Runtimes
  <2>2. rt.current \in Silent
    BY <1>1, <2>1, KindFacts
  <2>3. rt.current \notin Stops
    BY <2>1, <2>2, KindsApart DEF Chain
  <2>4. QED
    BY <1>1, <2>2, <2>3 DEF Silent, On
<1>3. PICK s \in Runtimes : s = After
  BY <1>1, AfterFacts DEF ClientSame
<1>4. Healthy(s, services, bridge, fromProbe) /\ s.stopping = rt.stopping
  BY <1>1, <1>2, <1>3, AfterFacts DEF ClientSame
<1>5. CASE On + 1 \in Targets /\ rt' = Enqueue(After, <<Command("inspect", On + 1, "delete")>>)
  <2>1. Command("inspect", On + 1, "delete") \in Silent
    BY <1>5 DEF Command, Silent
  <2>2. PICK r \in Seq(Silent) : r = <<Command("inspect", On + 1, "delete")>>
    BY <2>1, SingleFacts
  <2>3. Healthy(Enqueue(s, r), services, bridge, fromProbe)
    BY <1>4, SilentKeeps
  <2>4. QED
    BY <1>1, <1>3, <1>5, <2>2, <2>3, KeepStep
<1>6. CASE Idle(rt) /\ rt' = StopAll([After EXCEPT !.deletion = TRUE])
  <2>1. ~s.stopping
    BY <1>4, <1>6 DEF Idle
  <2>2. PICK t \in Runtimes : t = [s EXCEPT !.deletion = TRUE]
    BY DEF Runtimes
  <2>3. /\ t.states = s.states /\ t.current = s.current /\ t.operations = s.operations
        /\ t.probe = s.probe /\ t.out = s.out /\ t.login = s.login /\ t.controller = s.controller
    BY <2>2 DEF Runtimes
  <2>4. StopReady(s)
    BY <1>4, <2>1, StopMayBegin
  <2>5. Queue(t) = Queue(s)
    BY <2>3 DEF Queue
  <2>6. StopReady(t)
    BY <2>3, <2>4, <2>5 DEF StopReady
  <2>7. ControlInv(s, bridge, fromProbe)
    BY <1>4 DEF Healthy
  <2>8. Released(s) <=> Released(t)
    BY <2>3 DEF Released
  <2>9. ControlInv(t, bridge, fromProbe)
    BY <2>3, <2>7, <2>8 DEF ControlInv, Holds
  <2>10. rt' = StopAll(t)
    BY <1>3, <1>6, <2>2
  <2>11. QED
    BY <1>1, <2>6, <2>9, <2>10, StopAllKeeps, KeepStep
<1>7. CASE rt' = [After EXCEPT !.finished = Append(@, "failed")]
  <2>1. s.finished \in Seq({"deleted", "failed"})
    BY DEF Runtimes
  <2>2. PICK f \in Seq({"deleted", "failed"}) : f = Append(s.finished, "failed")
    BY <2>1, AppendFacts
  <2>3. rt' = [s EXCEPT !.finished = f]
    BY <1>3, <1>7, <2>2
  <2>4. QED
    BY <1>1, <1>4, <2>3, OutcomeKeeps, KeepStep
<1>8. QED
  BY <1>5, <1>6, <1>7 DEF Inspected

(* deleteTarget: a target was deleted, or could not be.                    *)
LEMMA DeletedStep ==
  ASSUME LiveInv, Deleted
  PROVE  LiveInv'
<1>0. rt \in Runtimes /\ Healthy(rt, services, bridge, fromProbe)
  BY DEF LiveInv, Healthy
<1>1. Keep /\ rt.current.kind = "delete" /\ rt.current # NoOperation
  BY DEF Deleted, NoOperation
<1>2. rt.current \in Deletes /\ rt.current \in Chain /\ rt.current \notin Stops
  <2>1. rt.current \in Commands
    BY <1>0, <1>1 DEF Runtimes
  <2>2. rt.current \in Deletes
    BY <1>1, <2>1, KindFacts
  <2>3. QED
    BY <2>1, <2>2, KindsApart DEF Chain
<1>3. PICK s \in Runtimes : s = After
  BY <1>1, AfterFacts DEF ClientSame
<1>4. /\ Healthy(s, services, bridge, fromProbe)
      /\ s.stopping /\ s.states = rt.states /\ s.deletion = rt.deletion /\ OnlySilent(s)
  BY <1>1, <1>2, <1>3, AfterFacts DEF ClientSame
<1>5. rt.deletion /\ \A c \in Components : rt.states[c] \in {"Inactive", "External"}
  <2>1. PICK q \in Seq(Commands) : q = Queue(rt)
    BY <1>0, QueueType
  <2>2. DeletesStopped(q, rt.states, rt.deletion)
    BY <1>0, <2>1 DEF Healthy, ServiceInv, QueueInv
  <2>3. PICK k \in Commands, p \in Seq(Commands) : k = rt.current /\ p = rt.operations
    BY <1>0, <1>1 DEF Runtimes
  <2>4. q = <<k>> \o p
    BY <1>1, <2>1, <2>3 DEF Queue
  <2>5. 1 \in DOMAIN q /\ q[1] = rt.current
    BY <2>3, <2>4, PrependFacts, TailFacts
  <2>6. QED
    BY <1>2, <2>2, <2>5 DEF DeletesStopped
<1>6. AllKnown(s, services)
  <2>1. QueueInv(Queue(s), s.states, s.stopping, s.deletion, services)
    BY <1>4 DEF Healthy, ServiceInv
  <2>2. \A j \in DOMAIN Queue(s) : Queue(s)[j] \in Silent /\ Queue(s)[j] \in Commands
    BY <1>4 DEF OnlySilent, Commands
  <2>3. \A j \in DOMAIN Queue(s) : Queue(s)[j] \notin Stops
    BY <2>2, KindsApart DEF Chain
  <2>4. QED
    BY <2>1, <2>3 DEF QueueInv, StatesTrue, AllKnown
<1>7. ClosedInv(s) /\ ControlInv(s, bridge, fromProbe)
  BY <1>4 DEF Healthy
<1>8. CASE On + 1 \in Targets /\ rt' = Enqueue(After, <<Command("delete", On + 1, "delete")>>)
  <2>1. Command("delete", On + 1, "delete") \in Deletes
    BY <1>8 DEF Command, Deletes
  <2>2. PICK k \in Deletes : k = Command("delete", On + 1, "delete")
    BY <2>1
  <2>3. k \in Chain
    BY DEF Chain
  <2>4. Healthy(Enqueue(s, <<k>>), services, bridge, fromProbe)
    BY <1>4, <1>5, <1>6, <1>7, <2>3, ChainGoesOn DEF AllKnown
  <2>5. QED
    BY <1>1, <1>3, <1>8, <2>2, <2>4, KeepStep
<1>9. ASSUME NEW outcome \in {"deleted", "failed"}, rt' = FinishDeletion(After, outcome) PROVE LiveInv'
  <2>1. s.finished \in Seq({"deleted", "failed"})
    BY DEF Runtimes
  <2>2. PICK f \in Seq({"deleted", "failed"}) : f = Append(s.finished, outcome)
    BY <2>1, AppendFacts
  <2>3. PICK t \in Runtimes : t = [s EXCEPT !.deletion = FALSE, !.stopping = FALSE, !.finished = f]
    BY DEF Runtimes
  <2>4. /\ t.states = s.states /\ t.current = s.current /\ t.operations = s.operations
        /\ t.probe = s.probe /\ t.ready = s.ready /\ t.out = s.out
        /\ t.login = s.login /\ t.requests = s.requests /\ t.controller = s.controller
        /\ ~t.stopping /\ ~t.deletion
    BY <2>3 DEF Runtimes
  <2>5. rt' = t
    BY <1>3, <1>9, <2>2, <2>3 DEF FinishDeletion
  <2>6. Healthy(t, services, bridge, fromProbe)
    BY <1>4, <1>6, <1>7, <2>4, StopOver
  <2>7. QED
    BY <1>1, <2>5, <2>6, KeepStep
<1>10. QED
  BY <1>8, <1>9 DEF Deleted

(* A helper command ends, and the next one runs.                           *)
LEMMA HelperSteps ==
  ASSUME LiveInv, NEW valid, HelperNext(valid)
  PROVE  LiveInv'
  BY RunNextStep, EnsureShownStep, UiShownStep, RefreshShownStep, StopShownStep, CheckedStep, StartedStep,
     StoppedStep, LogsReadStep, InspectedStep, DeletedStep DEF HelperNext

----------------------------------------------------------------------------
(* What a line that the probe printed makes of the runtime.                *)
SameServices(s, t) ==
  /\ t.states = s.states /\ t.current = s.current /\ t.operations = s.operations
  /\ t.starting = s.starting /\ t.stopping = s.stopping /\ t.deletion = s.deletion
  /\ t.probe = s.probe

LineRead(h) ==
  /\ h \in Runtimes /\ SameServices(rt, h) /\ ClosedInv(h)
  /\ Released(rt) => Released(h)
  /\ Printed.line # "controller" /\ Holds(rt) => Holds(h)
  /\ Printed = Controller("probe") => Holds(h)

(* Reading a line: what the probe said last of control is known then.      *)
LEMMA LineHealthy ==
  ASSUME LiveInv, fromProbe # <<>>, NEW h, LineRead(h)
  PROVE  Healthy(h, services, bridge, Tail(fromProbe))
<1>0. /\ rt \in Runtimes /\ Healthy(rt, services, bridge, fromProbe)
      /\ h \in Runtimes /\ SameServices(rt, h) /\ ClosedInv(h)
  BY DEF LiveInv, Healthy, LineRead
<1>1. Queue(h) = Queue(rt)
  BY <1>0 DEF SameServices, Queue
<1>2. ServiceInv(h, services)
  BY <1>0, <1>1 DEF Healthy, ServiceInv, SameServices
<1>3. PICK lines \in Seq(Lines) : lines = fromProbe
  BY DEF LiveInv, ManagerTypes
<1>4. PICK rest \in Seq(Lines) : rest = Tail(lines)
  BY <1>3, TailFacts
<1>5. /\ lines[1] = Printed /\ 1 \in DOMAIN lines
      /\ \A i \in DOMAIN rest : i \in Nat \ {0} /\ i + 1 \in DOMAIN lines /\ rest[i] = lines[i + 1]
      /\ \A i \in DOMAIN lines : i \in Nat \ {0} /\ (i # 1 => i - 1 \in DOMAIN rest /\ rest[i - 1] = lines[i])
  <2>1. /\ lines[1] = Printed /\ 1 \in DOMAIN lines
        /\ \A i \in DOMAIN rest : i + 1 \in DOMAIN lines /\ rest[i] = lines[i + 1]
        /\ \A i \in DOMAIN lines : i # 1 => i - 1 \in DOMAIN rest /\ rest[i - 1] = lines[i]
    BY <1>3, <1>4, TailFacts DEF Printed
  <2>2. (\A i \in DOMAIN rest : i \in Nat \ {0}) /\ (\A i \in DOMAIN lines : i \in Nat \ {0})
    OBVIOUS
  <2>3. QED
    BY <2>1, <2>2
<1>6. ControlInv(rt, bridge, lines)
  BY <1>0, <1>3 DEF Healthy
<1>7. NoWord(lines) => NoWord(rest) /\ Printed.line # "controller"
  BY <1>5 DEF NoWord
<1>8. ASSUME Told(lines) PROVE Told(rest) \/ (Printed = Controller("probe") /\ NoWord(rest))
  <2>1. PICK i \in DOMAIN lines :
          lines[i] = Controller("probe") /\ \A j \in DOMAIN lines : j > i => lines[j].line # "controller"
    BY <1>8 DEF Told
  <2>2. CASE i = 1
    <3>1. \A j \in DOMAIN rest : rest[j].line # "controller"
      BY <1>5, <2>1, <2>2
    <3>2. QED
      BY <1>5, <2>1, <2>2, <3>1 DEF NoWord
  <2>3. CASE i # 1
    <3>1. i - 1 \in DOMAIN rest /\ rest[i - 1] = Controller("probe")
      BY <1>5, <2>1, <2>3
    <3>2. \A j \in DOMAIN rest : j > i - 1 => rest[j].line # "controller"
      BY <1>5, <2>1
    <3>3. QED
      BY <3>1, <3>2 DEF Told
  <2>4. QED
    BY <2>2, <2>3
<1>9. h.probe = rt.probe /\ rt.probe # "none"
  BY <1>0, <1>3, <1>6 DEF SameServices, ControlInv
<1>10. ControlInv(h, bridge, rest)
  BY <1>6, <1>7, <1>8, <1>9 DEF ControlInv, LineRead
<1>11. QED
  BY <1>0, <1>2, <1>3, <1>4, <1>10 DEF Healthy

(* A step of the sign-in on what the line says of the client.              *)
LEMMA LineStep ==
  ASSUME LiveInv, fromProbe # <<>>, ~rt.stopping,
         NEW s \in Runtimes, SameServices(rt, s), s.out = rt.out,
         NEW h, AccountStep(s, h), LoginInv(h),
         Printed.line # "controller" /\ Holds(rt) => Holds(s),
         Printed = Controller("probe") => Holds(h)
  PROVE  LineRead(h)
<1>1. rt.probe # "none" /\ ProbeInv(rt)
  BY DEF LiveInv, Healthy, ClosedInv, ControlInv
<1>2. SameServices(rt, h) /\ h \in Runtimes
  BY DEF SameServices, AccountStep
<1>3. Released(rt) => Released(h)
  BY DEF Released, AccountStep
<1>4. s.probe # "none"
  BY <1>1 DEF SameServices
<1>5. Printed.line # "controller" /\ Holds(rt) => Holds(h)
  BY <1>4 DEF AccountStep
<1>6. ProbeInv(h)
  BY <1>1, <1>2 DEF ProbeInv, SameServices
<1>7. QED
  BY <1>2, <1>3, <1>5, <1>6 DEF LineRead, ClosedInv

(* The lines by what they say.                                             *)
LEMMA PrintedFacts ==
  ASSUME LiveInv, fromProbe # <<>>
  PROVE  /\ Printed \in Lines
         /\ Printed.line = "opened" => Printed.role \in {"controller", "observer"}
         /\ Printed.line = "provider" => Printed.up \in BOOLEAN
         /\ Printed.line = "controller" => Printed.who \in Who /\ Printed = Controller(Printed.who)
         /\ Printed.line = "completed" => Printed.id \in Nat
         /\ Printed.line = "answer" => Printed.id \in Nat /\ Printed.ok \in BOOLEAN /\ Printed.value \in Values
         /\ Printed.line # "controller" => Printed # Controller("probe")
<1>1. PICK lines \in Seq(Lines) : lines = fromProbe
  BY DEF LiveInv, ManagerTypes
<1>2. PICK l \in Lines : l = Printed
  BY <1>1, TailFacts DEF Printed
<1>3. l.line = "opened" => l.role \in {"controller", "observer"}
  BY DEF Lines
<1>4. l.line = "provider" => l.up \in BOOLEAN
  BY DEF Lines
<1>5. l.line = "controller" => l.who \in Who /\ l = [line |-> "controller", who |-> l.who]
  BY DEF Lines
<1>6. l.line = "completed" => l.id \in Nat
  BY DEF Lines
<1>7. l.line = "answer" => l.id \in Nat /\ l.ok \in BOOLEAN /\ l.value \in Values
  BY DEF Lines
<1>8. QED
  BY <1>2, <1>3, <1>4, <1>5, <1>6, <1>7 DEF Controller

(* bridge.connection and client.connection.                                *)
LEMMA ConnectionLines ==
  ASSUME LiveInv, fromProbe # <<>>
  PROVE  /\ ReadLine("opened") => LineRead(Opened)
         /\ ReadLine("disconnected") => LineRead(Disconnected)
<1>0. rt \in Runtimes
  BY DEF LiveInv, ManagerTypes
<1>1. ASSUME NEW s \in Runtimes, SameServices(rt, s), s.out = rt.out, s.login = rt.login,
             s.controller = rt.controller, ~rt.stopping, Printed.line # "controller"
      PROVE  LineRead(ForgetAccount(s))
  <2>1. AccountStep(s, ForgetAccount(s)) /\ LoginInv(ForgetAccount(s))
    BY ForgetFacts, OverFacts
  <2>2. Holds(rt) => Holds(s)
    BY <1>1 DEF Holds, Released
  <2>3. Printed # Controller("probe")
    BY <1>1, PrintedFacts
  <2>4. QED
    BY <1>1, <2>1, <2>2, <2>3, LineStep
<1>2. ASSUME ReadLine("opened") PROVE LineRead(Opened)
  <2>1. PICK o \in BOOLEAN : o = (Printed.role = "observer")
    OBVIOUS
  <2>2. PICK s \in Runtimes : s = [rt EXCEPT !.observer = o]
    BY <1>0 DEF Runtimes
  <2>3. SameServices(rt, s) /\ s.out = rt.out /\ s.login = rt.login /\ s.controller = rt.controller
    BY <1>0, <2>2 DEF Runtimes, SameServices
  <2>4. Opened = ForgetAccount(s)
    BY <2>1, <2>2 DEF Opened
  <2>5. QED
    BY <1>1, <1>2, <2>3, <2>4 DEF ReadLine
<1>3. ASSUME ReadLine("disconnected") PROVE LineRead(Disconnected)
  <2>1. PICK s \in Runtimes : s = [rt EXCEPT !.ready = FALSE]
    BY <1>0 DEF Runtimes
  <2>2. SameServices(rt, s) /\ s.out = rt.out /\ s.login = rt.login /\ s.controller = rt.controller
    BY <1>0, <2>1 DEF Runtimes, SameServices
  <2>3. Disconnected = ForgetAccount(s)
    BY <2>1 DEF Disconnected
  <2>4. QED
    BY <1>1, <1>3, <2>2, <2>3 DEF ReadLine
<1>4. QED
  BY <1>2, <1>3

(* bridge.provider.                                                        *)
LEMMA ProviderLine ==
  ASSUME LiveInv, fromProbe # <<>>, ReadLine("provider")
  PROVE  LineRead(ProviderChanged)
<1>0. rt \in Runtimes /\ LoginInv(rt)
  BY DEF LiveInv, ManagerTypes, Healthy, ClosedInv
<1>1. PICK up \in BOOLEAN : up = Printed.up
  BY PrintedFacts DEF ReadLine
<1>2. PICK s \in Runtimes : s = [rt EXCEPT !.ready = up]
  BY <1>0 DEF Runtimes
<1>3. /\ SameServices(rt, s) /\ s.out = rt.out /\ s.login = rt.login /\ s.controller = rt.controller
      /\ s.requests = rt.requests /\ s.ready = up
  BY <1>0, <1>2 DEF Runtimes, SameServices
<1>4. (Holds(rt) => Holds(s)) /\ Printed # Controller("probe") /\ ~rt.stopping
  BY <1>3, PrintedFacts DEF Holds, Released, ReadLine
<1>5. ASSUME NEW h, AccountStep(s, h), LoginInv(h) PROVE LineRead(h)
  BY <1>3, <1>4, <1>5, LineStep
<1>6. LoginRequests(s) = LoginRequests(rt)
  BY <1>3 DEF LoginRequests
<1>7. ASSUME up PROVE LoginInv(s)
  BY <1>0, <1>3, <1>6, <1>7 DEF LoginInv
<1>8. CASE ~up
  <2>1. ProviderChanged = ForgetAccount(s)
    BY <1>1, <1>2, <1>8 DEF ProviderChanged
  <2>2. QED
    BY <1>5, <2>1, ForgetFacts, OverFacts
<1>9. CASE up /\ ~rt.ready
  <2>1. ProviderChanged = RefreshAccount(s)
    BY <1>1, <1>2, <1>9 DEF ProviderChanged
  <2>2. QED
    BY <1>5, <1>7, <1>9, <2>1, RefreshFacts
<1>10. CASE up /\ rt.ready
  <2>1. ProviderChanged = s
    BY <1>1, <1>2, <1>10 DEF ProviderChanged
  <2>2. AccountStep(s, s)
    BY DEF AccountStep
  <2>3. QED
    BY <1>5, <1>7, <1>10, <2>1, <2>2
<1>11. QED
  BY <1>8, <1>9, <1>10

(* The sign-in of a runtime.                                               *)
LEMMA LoginFacts ==
  ASSUME NEW s \in Runtimes
  PROVE  s.login.kind \in SignIns /\ s.login.phase \in Phases
<1>1. s.login \in Logins
  BY DEF Runtimes
<1>2. QED
  BY <1>1 DEF Logins

(* bridge.controller.                                                      *)
LEMMA ControllerLine ==
  ASSUME LiveInv, fromProbe # <<>>, ReadLine("controller")
  PROVE  LineRead(ControllerChanged)
<1>0. rt \in Runtimes /\ LoginInv(rt) /\ rt.probe # "none"
  BY DEF LiveInv, ManagerTypes, Healthy, ClosedInv, ControlInv
<1>1. PICK who \in Who : who = Printed.who /\ Printed = Controller(who)
  BY PrintedFacts DEF ReadLine
<1>2. PICK o \in BOOLEAN : o = (who # "probe")
  OBVIOUS
<1>3. PICK s \in Runtimes : s = [rt EXCEPT !.controller = who, !.observer = o]
  BY <1>0 DEF Runtimes
<1>4. /\ SameServices(rt, s) /\ s.out = rt.out /\ s.login = rt.login /\ s.controller = who
      /\ s.requests = rt.requests /\ s.ready = rt.ready
  BY <1>0, <1>3 DEF Runtimes, SameServices
<1>5. ~rt.stopping /\ Printed.line = "controller" /\ (Printed = Controller("probe") => who = "probe")
  BY <1>1 DEF ReadLine, Controller
<1>6. ASSUME NEW h, AccountStep(s, h), LoginInv(h), who = "probe" => Holds(h) PROVE LineRead(h)
  BY <1>4, <1>5, <1>6, LineStep
<1>7. LoginRequests(s) = LoginRequests(rt)
  BY <1>4 DEF LoginRequests
<1>8. LoginInv(s)
  BY <1>0, <1>4, <1>7 DEF LoginInv
<1>9. CASE who = "probe" /\ rt.login.phase = "Claiming"
  <2>1. PICK phase \in Phases : phase = IF rt.login.kind = "signout" THEN "SigningOut" ELSE "Starting"
    BY DEF Phases
  <2>2. PICK method \in Methods : method = IF rt.login.kind = "signout" THEN "account/logout" ELSE "account/login/start"
    BY DEF Methods
  <2>3. PICK l \in Logins : l = [rt.login EXCEPT !.phase = phase]
    BY <1>0 DEF Runtimes, Logins
  <2>4. l.phase = phase /\ phase \notin {"none", "Claiming"} /\ l # NoLogin
    BY <1>0, <2>1, <2>3 DEF Runtimes, Logins, NoLogin
  <2>5. PICK t \in Runtimes : t = [s EXCEPT !.login = l]
    BY DEF Runtimes
  <2>6. /\ t.states = s.states /\ t.current = s.current /\ t.operations = s.operations
        /\ t.starting = s.starting /\ t.stopping = s.stopping /\ t.deletion = s.deletion
        /\ t.probe = s.probe /\ t.ready = s.ready /\ t.out = s.out
        /\ t.login = l /\ t.requests = s.requests /\ t.controller = who
    BY <1>4, <2>5 DEF Runtimes
  <2>7. AccountStep(s, t)
    BY <1>9, <2>4, <2>6, AccountSilent
  <2>8. rt.login.kind \in SignIns /\ rt.login # NoLogin
    <3>1. NoLogin.phase = "none"
      BY DEF NoLogin
    <3>2. QED
      BY <1>0, <1>9, <3>1, LoginFacts
  <2>9. PICK extra \in Nat \cup SignIns : extra = rt.login.kind
    BY <2>8
  <2>10. PICK h \in Runtimes : h = AccountRequest(t, method, extra)
    BY RequestFacts DEF AccountStep
  <2>11. /\ AccountStep(t, h) /\ h.login = l /\ h.controller = who
    <3>1. AccountStep(t, h) /\ h.login = t.login /\ h.controller = t.controller
      BY <2>10, RequestFacts
    <3>2. QED
      BY <2>6, <3>1
  <2>12. AccountStep(s, h)
    BY <2>7, <2>11, AccountSteps
  <2>13. h.ready
    BY <1>0, <1>4, <2>6, <2>8, <2>11 DEF AccountStep, LoginInv
  <2>14. LoginInv(h)
    BY <2>4, <2>11, <2>13 DEF LoginInv
  <2>15. Holds(h)
    BY <1>9, <2>4, <2>11 DEF Holds
  <2>16. ControllerChanged = h
    <3>1. t = [s EXCEPT !.login.phase = phase]
      BY <1>4, <2>3, <2>5
    <3>2. QED
      BY <1>1, <1>2, <1>3, <1>9, <2>1, <2>2, <2>9, <2>10, <3>1 DEF ControllerChanged
  <2>17. QED
    BY <1>6, <2>12, <2>14, <2>15, <2>16
<1>10. CASE who = "probe" /\ rt.login = NoLogin
  <2>1. PICK h \in Runtimes : h = Write(s, Release)
    BY PlainLines, WriteFacts DEF AccountStep
  <2>2. /\ AccountStep(s, h) /\ h.login = s.login /\ h.requests = s.requests
        /\ s.probe # "none" => Released(h)
    BY <2>1, PlainLines, WriteFacts
  <2>3. LoginRequests(h) = LoginRequests(s)
    BY <2>2 DEF LoginRequests
  <2>4. LoginInv(h)
    BY <1>8, <2>2, <2>3 DEF LoginInv, AccountStep
  <2>5. Holds(h)
    BY <1>0, <1>4, <2>2 DEF Holds, SameServices
  <2>6. ControllerChanged = h
    <3>1. rt.login.phase # "Claiming"
      BY <1>10 DEF NoLogin
    <3>2. QED
      BY <1>1, <1>2, <1>3, <1>10, <2>1, <3>1 DEF ControllerChanged
  <2>7. QED
    BY <1>6, <2>2, <2>4, <2>5, <2>6
<1>11. CASE who = "other" /\ rt.login # NoLogin
  <2>1. PICK h : h = FinishAuthentication(s)
    OBVIOUS
  <2>2. AccountStep(s, h) /\ LoginInv(h)
    BY <1>8, <2>1, FinishFacts, OverFacts DEF LoginInv
  <2>3. ControllerChanged = h
    BY <1>1, <1>2, <1>3, <1>11, <2>1 DEF ControllerChanged
  <2>4. QED
    BY <1>6, <1>11, <2>2, <2>3
<1>12. CASE /\ ~(who = "probe" /\ rt.login.phase = "Claiming")
            /\ ~(who = "probe" /\ rt.login = NoLogin)
            /\ ~(who = "other" /\ rt.login # NoLogin)
  <2>1. AccountStep(s, s)
    BY DEF AccountStep
  <2>2. who = "probe" => Holds(s)
    BY <1>4, <1>12 DEF Holds
  <2>3. ControllerChanged = s
    BY <1>1, <1>2, <1>3, <1>12 DEF ControllerChanged
  <2>4. QED
    BY <1>6, <1>8, <2>1, <2>2, <2>3
<1>13. QED
  BY <1>9, <1>10, <1>11, <1>12

(* A step of the sign-in on the runtime as it is.                          *)
LEMMA AccountLine ==
  ASSUME LiveInv, fromProbe # <<>>, ~rt.stopping, Printed.line # "controller",
         NEW h, AccountStep(rt, h), LoginInv(h)
  PROVE  LineRead(h)
<1>1. rt \in Runtimes /\ SameServices(rt, rt)
  BY DEF LiveInv, ManagerTypes, SameServices
<1>2. Printed # Controller("probe")
  BY PrintedFacts
<1>3. QED
  BY <1>1, <1>2, LineStep

(* The end of a sign-in, or of a request of it, and the look after it.     *)
LEMMA EndFacts ==
  ASSUME NEW s \in Runtimes, s.requests # {} => s.ready
  PROVE  /\ AccountStep(s, FinishAuthentication(s)) /\ LoginInv(FinishAuthentication(s))
         /\ AccountStep(s, RefreshAccount(FinishAuthentication(s)))
         /\ LoginInv(RefreshAccount(FinishAuthentication(s)))
<1>1. PICK f \in Runtimes : f = FinishAuthentication(s)
  BY FinishFacts DEF AccountStep
<1>2. AccountStep(s, f) /\ LoginInv(f)
  BY <1>1, FinishFacts, OverFacts
<1>3. AccountStep(f, RefreshAccount(f)) /\ LoginInv(RefreshAccount(f))
  BY <1>2, RefreshFacts
<1>4. QED
  BY <1>1, <1>2, <1>3, AccountSteps

(* account/login/start was answered.                                       *)
LEMMA LoginStartedFacts ==
  ASSUME NEW s \in Runtimes, LoginInv(s), s.login.phase # "none", Printed.id \in Nat
  PROVE  AccountStep(s, LoginStarted(s)) /\ LoginInv(LoginStarted(s))
<1>1. PICK id \in Nat : id = Printed.id
  OBVIOUS
<1>2. PICK l \in Logins : l = [s.login EXCEPT !.id = id]
  BY DEF Runtimes, Logins
<1>3. PICK w \in Logins : w = [l EXCEPT !.phase = "Waiting"]
  BY DEF Logins, Phases
<1>4. l.phase = s.login.phase /\ w.phase = "Waiting" /\ s.login # NoLogin
  BY <1>2, <1>3 DEF Runtimes, Logins, NoLogin
<1>5. l # NoLogin /\ w # NoLogin
  BY <1>4 DEF NoLogin
<1>6. ASSUME NEW login \in Logins, login.phase # "none", login # NoLogin,
             login.phase = "Claiming" => s.login.phase = "Claiming",
             NEW t, t = [s EXCEPT !.login = login]
      PROVE  t \in Runtimes /\ t.login = login /\ AccountStep(s, t) /\ LoginInv(t)
  <2>1. t \in Runtimes
    BY <1>6 DEF Runtimes
  <2>2. /\ t.states = s.states /\ t.current = s.current /\ t.operations = s.operations
        /\ t.starting = s.starting /\ t.stopping = s.stopping /\ t.deletion = s.deletion
        /\ t.probe = s.probe /\ t.ready = s.ready /\ t.out = s.out
        /\ t.login = login /\ t.requests = s.requests /\ t.controller = s.controller
    BY <1>6 DEF Runtimes
  <2>3. AccountStep(s, t)
    BY <1>6, <2>1, <2>2, AccountSilent
  <2>4. LoginRequests(t) = LoginRequests(s)
    BY <2>2 DEF LoginRequests
  <2>5. LoginInv(t)
    BY <1>4, <1>6, <2>2, <2>4 DEF LoginInv
  <2>6. QED
    BY <2>1, <2>2, <2>3, <2>5
<1>7. PICK known : known = [s EXCEPT !.login = l]
  OBVIOUS
<1>8. PICK waiting : waiting = [s EXCEPT !.login = w]
  OBVIOUS
<1>9. known \in Runtimes /\ known.login = l /\ AccountStep(s, known) /\ LoginInv(known)
  BY <1>4, <1>5, <1>6, <1>7
<1>10. AccountStep(s, waiting) /\ LoginInv(waiting)
  BY <1>4, <1>5, <1>6, <1>8
<1>11. AccountStep(s, CancelLogin(known)) /\ LoginInv(CancelLogin(known))
  BY <1>4, <1>9, CancelFacts, AccountSteps
<1>12. /\ AccountStep(s, RefreshAccount(FinishAuthentication(known)))
       /\ LoginInv(RefreshAccount(FinishAuthentication(known)))
  BY <1>9, EndFacts, AccountSteps DEF LoginInv
<1>13. /\ AccountStep(s, RefreshAccount(FinishAuthentication(s)))
       /\ LoginInv(RefreshAccount(FinishAuthentication(s)))
       /\ AccountStep(s, FinishAuthentication(s)) /\ LoginInv(FinishAuthentication(s))
  BY EndFacts DEF LoginInv
<1>14. LoginStarted(s) \in {CancelLogin(known), RefreshAccount(FinishAuthentication(known)), waiting,
                            RefreshAccount(FinishAuthentication(s)), FinishAuthentication(s)}
  <2>1. known = [s EXCEPT !.login.id = Printed.id]
    BY <1>1, <1>2, <1>7
  <2>2. waiting = [known EXCEPT !.login.phase = "Waiting"]
    BY <1>3, <1>7, <1>8, <1>9 DEF Runtimes
  <2>3. QED
    BY <2>1, <2>2 DEF LoginStarted
<1>15. QED
  BY <1>10, <1>11, <1>12, <1>13, <1>14

(* accountMessage: an answer.                                              *)
LEMMA AnswerLine ==
  ASSUME LiveInv, fromProbe # <<>>, ReadLine("answer")
  PROVE  LineRead(Answered)
<1>0. rt \in Runtimes /\ LoginInv(rt)
  BY DEF LiveInv, ManagerTypes, Healthy, ClosedInv
<1>1. Printed.id \in Nat /\ Printed.value \in Values /\ ~rt.stopping /\ Printed.line # "controller"
  BY PrintedFacts DEF ReadLine
<1>2. ASSUME NEW h, AccountStep(rt, h), LoginInv(h) PROVE LineRead(h)
  BY <1>1, <1>2, AccountLine
<1>3. PICK found : found = {r \in rt.requests : r.id = Printed.id}
  OBVIOUS
<1>4. PICK method : method = (CHOOSE r \in found : TRUE).method
  OBVIOUS
<1>5. PICK s \in Runtimes : s = [rt EXCEPT !.requests = @ \ found]
  BY <1>0 DEF Runtimes
<1>6. /\ s.states = rt.states /\ s.current = rt.current /\ s.operations = rt.operations
      /\ s.starting = rt.starting /\ s.stopping = rt.stopping /\ s.deletion = rt.deletion
      /\ s.probe = rt.probe /\ s.ready = rt.ready /\ s.out = rt.out
      /\ s.login = rt.login /\ s.requests = rt.requests \ found /\ s.controller = rt.controller
  BY <1>0, <1>5 DEF Runtimes
<1>7. AccountStep(rt, s)
  BY <1>6, AccountSilent
<1>8. LoginInv(s)
  BY <1>0, <1>6 DEF LoginInv, LoginRequests
<1>9. CASE found = {}
  <2>1. Answered = rt
    BY <1>3, <1>9 DEF Answered
  <2>2. AccountStep(rt, rt)
    BY <1>0 DEF AccountStep
  <2>3. QED
    BY <1>0, <1>2, <2>1, <2>2
<1>10. CASE found # {} /\ method = Read
  <2>1. PICK a \in Values \cup {"Unknown"} : a = IF Printed.ok THEN Printed.value ELSE "Unknown"
    BY <1>1
  <2>2. PICK t \in Runtimes : t = [s EXCEPT !.account = a]
    BY DEF Runtimes
  <2>3. /\ t.states = s.states /\ t.current = s.current /\ t.operations = s.operations
        /\ t.starting = s.starting /\ t.stopping = s.stopping /\ t.deletion = s.deletion
        /\ t.probe = s.probe /\ t.ready = s.ready /\ t.out = s.out
        /\ t.login = s.login /\ t.requests = s.requests /\ t.controller = s.controller
    BY <2>2 DEF Runtimes
  <2>4. AccountStep(rt, t)
    BY <1>7, <2>3, AccountSilent, AccountSteps
  <2>5. LoginInv(t)
    BY <1>8, <2>3 DEF LoginInv, LoginRequests
  <2>6. Answered = t
    BY <1>3, <1>4, <1>5, <1>10, <2>1, <2>2 DEF Answered
  <2>7. QED
    BY <1>2, <2>4, <2>5, <2>6
<1>11. CASE found # {} /\ method # Read /\ Printed.ok /\ method = "account/login/start"
  <2>1. Answered = LoginStarted(s)
    BY <1>3, <1>4, <1>5, <1>11 DEF Answered
  <2>2. LoginRequests(rt) # {}
    BY <1>3, <1>4, <1>11 DEF LoginRequests
  <2>3. s.login.phase # "none"
    BY <1>0, <1>6, <2>2 DEF LoginInv
  <2>4. AccountStep(s, LoginStarted(s)) /\ LoginInv(LoginStarted(s))
    BY <1>1, <1>8, <2>3, LoginStartedFacts
  <2>5. QED
    BY <1>2, <1>7, <2>1, <2>4, AccountSteps
<1>12. CASE found # {} /\ method # Read /\ ~(Printed.ok /\ method = "account/login/start")
  <2>1. Answered = RefreshAccount(FinishAuthentication(s))
    BY <1>3, <1>4, <1>5, <1>12 DEF Answered
  <2>2. /\ AccountStep(s, RefreshAccount(FinishAuthentication(s)))
        /\ LoginInv(RefreshAccount(FinishAuthentication(s)))
    BY <1>8, EndFacts DEF LoginInv
  <2>3. QED
    BY <1>2, <1>7, <2>1, <2>2, AccountSteps
<1>13. QED
  BY <1>9, <1>10, <1>11, <1>12

(* A refused claim, and what the app-server tells without being asked.     *)
LEMMA NoticeLines ==
  ASSUME LiveInv, fromProbe # <<>>
  PROVE  /\ ReadLine("refused") => LineRead(Refused)
         /\ ReadLine("updated") => LineRead(Updated)
         /\ ReadLine("completed") => LineRead(Completed)
         /\ ReadLine("rejected") => LineRead(Rejected)
<1>0. rt \in Runtimes /\ LoginInv(rt) /\ AccountStep(rt, rt)
  BY DEF LiveInv, ManagerTypes, Healthy, ClosedInv, AccountStep
<1>1. ASSUME NEW h, AccountStep(rt, h), LoginInv(h), ~rt.stopping, Printed.line # "controller" PROVE LineRead(h)
  BY <1>1, AccountLine
<1>2. ASSUME NEW s \in Runtimes, s.states = rt.states, s.current = rt.current, s.operations = rt.operations,
             s.starting = rt.starting, s.stopping = rt.stopping, s.deletion = rt.deletion,
             s.probe = rt.probe, s.ready = rt.ready, s.out = rt.out,
             s.login = rt.login, s.requests \in SUBSET rt.requests, s.controller = rt.controller
      PROVE  AccountStep(rt, s) /\ LoginInv(s)
  <2>1. AccountStep(rt, s)
    BY <1>2, AccountSilent
  <2>2. LoginInv(s)
    BY <1>0, <1>2 DEF LoginInv, LoginRequests
  <2>3. QED
    BY <2>1, <2>2
<1>3. /\ AccountStep(rt, FinishAuthentication(rt)) /\ LoginInv(FinishAuthentication(rt))
      /\ AccountStep(rt, RefreshAccount(FinishAuthentication(rt)))
      /\ LoginInv(RefreshAccount(FinishAuthentication(rt)))
  BY <1>0, EndFacts DEF LoginInv
<1>4. ASSUME ReadLine("refused") PROVE LineRead(Refused)
  BY <1>0, <1>1, <1>3, <1>4 DEF Refused, ReadLine
<1>5. ASSUME ReadLine("updated") PROVE LineRead(Updated)
  <2>1. LoginRequests(rt) \in SUBSET rt.requests
    BY DEF LoginRequests
  <2>2. PICK s \in Runtimes : s = [rt EXCEPT !.requests = LoginRequests(rt)]
    BY <1>0, <2>1 DEF Runtimes
  <2>3. /\ s.states = rt.states /\ s.current = rt.current /\ s.operations = rt.operations
        /\ s.starting = rt.starting /\ s.stopping = rt.stopping /\ s.deletion = rt.deletion
        /\ s.probe = rt.probe /\ s.ready = rt.ready /\ s.out = rt.out
        /\ s.login = rt.login /\ s.requests = LoginRequests(rt) /\ s.controller = rt.controller
    BY <1>0, <2>2 DEF Runtimes
  <2>4. AccountStep(rt, s) /\ LoginInv(s)
    BY <1>2, <2>1, <2>3
  <2>5. AccountStep(s, RefreshAccount(s)) /\ LoginInv(RefreshAccount(s))
    BY <2>4, RefreshFacts
  <2>6. Updated = RefreshAccount(s)
    BY <2>2 DEF Updated
  <2>7. QED
    BY <1>1, <1>5, <2>4, <2>5, <2>6, AccountSteps DEF ReadLine
<1>6. ASSUME ReadLine("completed") PROVE LineRead(Completed)
  <2>1. PICK l \in Logins : l = [rt.login EXCEPT !.completed = Printed.id]
    BY <1>0, <1>6, PrintedFacts DEF Runtimes, Logins, ReadLine
  <2>2. PICK s \in Runtimes : s = [rt EXCEPT !.login = l]
    BY <1>0 DEF Runtimes
  <2>3. /\ s.states = rt.states /\ s.current = rt.current /\ s.operations = rt.operations
        /\ s.starting = rt.starting /\ s.stopping = rt.stopping /\ s.deletion = rt.deletion
        /\ s.probe = rt.probe /\ s.ready = rt.ready /\ s.out = rt.out
        /\ s.login = l /\ s.requests = rt.requests /\ s.controller = rt.controller
    BY <1>0, <2>2 DEF Runtimes
  <2>4. l.phase = rt.login.phase
    BY <1>0, <2>1 DEF Runtimes, Logins
  <2>5. CASE rt.login # NoLogin /\ rt.login.id = 0
    <3>1. rt.login.phase # "none"
      BY <1>0, <2>5 DEF LoginInv
    <3>2. l # NoLogin
      BY <2>4, <3>1 DEF NoLogin
    <3>3. AccountStep(rt, s)
      BY <2>3, <3>2, AccountSilent
    <3>4. LoginInv(s)
      BY <1>0, <2>3, <2>4, <2>5, <3>1 DEF LoginInv, LoginRequests
    <3>5. Completed = s
      BY <2>1, <2>2, <2>5 DEF Completed
    <3>6. QED
      BY <1>1, <1>6, <3>3, <3>4, <3>5 DEF ReadLine
  <2>6. CASE ~(rt.login # NoLogin /\ rt.login.id = 0)
    BY <1>0, <1>1, <1>3, <1>6, <2>6 DEF Completed, ReadLine
  <2>7. QED
    BY <2>5, <2>6
<1>7. ASSUME ReadLine("rejected") PROVE LineRead(Rejected)
  <2>1. PICK s \in Runtimes : s = [rt EXCEPT !.account = "Rejected", !.requests = {}]
    BY <1>0 DEF Runtimes
  <2>2. /\ s.states = rt.states /\ s.current = rt.current /\ s.operations = rt.operations
        /\ s.starting = rt.starting /\ s.stopping = rt.stopping /\ s.deletion = rt.deletion
        /\ s.probe = rt.probe /\ s.ready = rt.ready /\ s.out = rt.out
        /\ s.login = rt.login /\ s.requests = {} /\ s.controller = rt.controller
    BY <1>0, <2>1 DEF Runtimes
  <2>3. AccountStep(rt, s) /\ LoginInv(s)
    BY <1>2, <2>2
  <2>4. QED
    BY <1>1, <1>7, <2>1, <2>3 DEF Rejected, ReadLine
<1>8. QED
  BY <1>4, <1>5, <1>6, <1>7

(* readProbe.                                                              *)
LEMMA ReadProbeStep ==
  ASSUME LiveInv, ReadProbe
  PROVE  LiveInv'
<1>0. rt \in Runtimes /\ Healthy(rt, services, bridge, fromProbe)
  BY DEF LiveInv, Healthy
<1>1. /\ fromProbe # <<>> /\ fromProbe' = Tail(fromProbe)
      /\ services' = services /\ listening' = listening /\ bridge' = bridge
  BY DEF ReadProbe
<1>2. PICK lines \in Seq(Lines) : lines = Tail(fromProbe)
  <2>1. PICK all \in Seq(Lines) : all = fromProbe
    BY DEF LiveInv, ManagerTypes
  <2>2. QED
    BY <1>1, <2>1, TailFacts
<1>3. ASSUME Healthy(rt', services, bridge, lines) PROVE LiveInv'
  <2>1. rt' \in Runtimes
    BY <1>3 DEF Healthy
  <2>2. ManagerTypes'
    BY <1>1, <1>2, <2>1 DEF LiveInv, ManagerTypes
  <2>3. Healthy(rt', services', bridge', fromProbe')
    BY <1>1, <1>2, <1>3
  <2>4. QED
    BY <2>2, <2>3 DEF LiveInv
<1>4. ASSUME NEW h, LineRead(h), ~rt.stopping, rt' = UpdateReadiness(h) PROVE LiveInv'
  <2>1. Healthy(h, services, bridge, lines)
    BY <1>1, <1>2, <1>4, LineHealthy
  <2>2. h \in Runtimes /\ ~h.stopping
    BY <1>4 DEF LineRead, SameServices
  <2>3. Healthy(UpdateReadiness(h), services, bridge, lines)
    BY <2>1, <2>2, ReadinessOpens, HealthyOpening
  <2>4. QED
    BY <1>3, <1>4, <2>3
<1>5. CASE ReadLine("opened") /\ rt' = UpdateReadiness(Opened)
  BY <1>1, <1>4, <1>5, ConnectionLines DEF ReadLine
<1>6. CASE ReadLine("disconnected") /\ rt' = UpdateReadiness(Disconnected)
  BY <1>1, <1>4, <1>6, ConnectionLines DEF ReadLine
<1>7. CASE ReadLine("provider") /\ rt' = UpdateReadiness(ProviderChanged)
  BY <1>1, <1>4, <1>7, ProviderLine DEF ReadLine
<1>8. CASE ReadLine("controller") /\ rt' = UpdateReadiness(ControllerChanged)
  BY <1>1, <1>4, <1>8, ControllerLine DEF ReadLine
<1>9. CASE ReadLine("refused") /\ rt' = UpdateReadiness(Refused)
  BY <1>1, <1>4, <1>9, NoticeLines DEF ReadLine
<1>10. CASE ReadLine("answer") /\ rt' = UpdateReadiness(Answered)
  BY <1>1, <1>4, <1>10, AnswerLine DEF ReadLine
<1>11. CASE ReadLine("updated") /\ rt' = UpdateReadiness(Updated)
  BY <1>1, <1>4, <1>11, NoticeLines DEF ReadLine
<1>12. CASE ReadLine("completed") /\ rt' = UpdateReadiness(Completed)
  BY <1>1, <1>4, <1>12, NoticeLines DEF ReadLine
<1>13. CASE ReadLine("rejected") /\ rt' = UpdateReadiness(Rejected)
  BY <1>1, <1>4, <1>13, NoticeLines DEF ReadLine
<1>14. CASE rt.stopping /\ UNCHANGED rt
  <2>1. ClosedInv(rt) /\ ServiceInv(rt, services) /\ ControlInv(rt, bridge, fromProbe)
    BY <1>0 DEF Healthy
  <2>2. ControlInv(rt, bridge, lines)
    BY <1>1, <1>14, <2>1 DEF ControlInv, ClosedInv, ProbeInv
  <2>3. QED
    BY <1>0, <1>3, <1>14, <2>1, <2>2 DEF Healthy
<1>15. QED
  BY <1>5, <1>6, <1>7, <1>8, <1>9, <1>10, <1>11, <1>12, <1>13, <1>14 DEF ReadProbe

----------------------------------------------------------------------------
(* The bridge after its client is gone.                                    *)
LEMMA BridgeLeftFacts ==
  ASSUME bridge \in Bridges
  PROVE  BridgeLeft \in Bridges /\ ~BridgeLeft.open /\ BridgeLeft.controller # "probe"
<1>1. PICK who \in Who : who = IF bridge.controller = "probe" THEN "nobody" ELSE bridge.controller
  BY DEF Bridges, Who
<1>2. PICK b \in Bridges : b = [bridge EXCEPT !.open = FALSE, !.controller = who]
  BY DEF Bridges
<1>3. ~b.open /\ b.controller = who /\ who # "probe"
  BY <1>1, <1>2 DEF Bridges
<1>4. BridgeLeft = b
  BY <1>1, <1>2 DEF BridgeLeft
<1>5. QED
  BY <1>3, <1>4

(* The probe ends.                                                         *)
LEMMA ProbeExitsStep ==
  ASSUME LiveInv, ProbeExits
  PROVE  LiveInv'
<1>0. rt \in Runtimes /\ Healthy(rt, services, bridge, fromProbe) /\ bridge \in Bridges
  BY DEF LiveInv, Healthy, ManagerTypes
<1>1. /\ fromProbe = <<>> /\ fromProbe' = <<>> /\ bridge' = BridgeLeft
      /\ services' = services /\ listening' = listening
  BY DEF ProbeExits
<1>2. BridgeLeft \in Bridges /\ ~BridgeLeft.open /\ BridgeLeft.controller # "probe"
  BY <1>0, BridgeLeftFacts
<1>3. PICK s : /\ s = [rt EXCEPT !.probe = "none", !.out = <<>>]
               /\ rt' = IF rt.stopping THEN s
                        ELSE ForgetAccount([s EXCEPT !.readiness = FALSE, !.ready = FALSE, !.starting = FALSE])
  BY DEF ProbeExits
<1>4. <<>> \in Seq(OutLines)
  OBVIOUS
<1>5. s \in Runtimes
  BY <1>0, <1>3, <1>4 DEF Runtimes
<1>6. /\ s.states = rt.states /\ s.current = rt.current /\ s.operations = rt.operations
      /\ s.starting = rt.starting /\ s.stopping = rt.stopping /\ s.deletion = rt.deletion
      /\ s.probe = "none" /\ s.ready = rt.ready
      /\ s.login = rt.login /\ s.requests = rt.requests
  BY <1>0, <1>3 DEF Runtimes
<1>7. ProbeInv(rt) /\ LoginInv(rt) /\ ServiceInv(rt, services)
  BY <1>0 DEF Healthy, ClosedInv
<1>8. ASSUME NEW t \in Runtimes, t.states = rt.states, t.current = rt.current, t.operations = rt.operations,
             t.stopping = rt.stopping, t.deletion = rt.deletion, ClosedInv(t), rt' = t
      PROVE  LiveInv'
  <2>1. ServiceInv(t, services)
    BY <1>7, <1>8 DEF ServiceInv, Queue
  <2>2. ControlInv(t, BridgeLeft, <<>>)
    BY <1>2 DEF ControlInv
  <2>3. Healthy(t, services, BridgeLeft, <<>>)
    BY <1>8, <2>1, <2>2 DEF Healthy
  <2>4. Healthy(rt', services', bridge', fromProbe')
    BY <1>1, <1>8, <2>3
  <2>5. ManagerTypes'
    BY <1>1, <1>2, <1>8 DEF LiveInv, ManagerTypes
  <2>6. QED
    BY <2>4, <2>5 DEF LiveInv
<1>9. CASE rt.stopping
  <2>1. LoginInv(s)
    BY <1>6, <1>7 DEF LoginInv, LoginRequests
  <2>2. ClosedInv(s)
    BY <1>6, <1>7, <1>9, <2>1 DEF ClosedInv, ProbeInv
  <2>3. QED
    BY <1>3, <1>5, <1>6, <1>8, <1>9, <2>2
<1>10. CASE ~rt.stopping
  <2>1. PICK u \in Runtimes : u = [s EXCEPT !.readiness = FALSE, !.ready = FALSE, !.starting = FALSE]
    BY <1>5 DEF Runtimes
  <2>2. /\ u.states = rt.states /\ u.current = rt.current /\ u.operations = rt.operations
        /\ ~u.starting /\ u.stopping = rt.stopping /\ u.deletion = rt.deletion /\ ~u.ready
    BY <1>5, <1>6, <2>1 DEF Runtimes
  <2>3. PICK t \in Runtimes : t = ForgetAccount(u)
    BY ForgetFacts DEF AccountStep
  <2>4. AccountStep(u, t) /\ LoginInv(t)
    BY <2>3, ForgetFacts, OverFacts
  <2>5. ProbeInv(u)
    BY <1>7, <1>10, <2>2 DEF ProbeInv
  <2>6. ClosedInv(t)
    BY <2>4, <2>5, AccountProbe DEF ClosedInv
  <2>7. rt' = t
    BY <1>3, <1>10, <2>1, <2>3
  <2>8. QED
    BY <1>8, <2>2, <2>4, <2>6, <2>7 DEF AccountStep
<1>11. QED
  BY <1>9, <1>10

(* What the probe prints comes after what it printed before.               *)
LEMMA SayFacts ==
  ASSUME NEW lines \in Seq(Lines), NEW r \in Seq(Lines)
  PROVE  /\ lines \o r \in Seq(Lines)
         /\ Told(r) => Told(lines \o r)
         /\ NoWord(r) /\ Told(lines) => Told(lines \o r)
         /\ NoWord(r) /\ NoWord(lines) => NoWord(lines \o r)
<1>1. PICK all \in Seq(Lines) : all = lines \o r
  BY ConcatFacts
<1>2. /\ Len(lines) \in Nat /\ Len(r) \in Nat
      /\ DOMAIN lines = 1 .. Len(lines) /\ DOMAIN r = 1 .. Len(r)
      /\ DOMAIN all = 1 .. Len(lines) + Len(r)
      /\ \A i \in 1 .. Len(lines) : all[i] = lines[i]
      /\ \A i \in 1 .. Len(r) : all[Len(lines) + i] = r[i]
      /\ \A i \in DOMAIN all :
            \/ i \in DOMAIN lines /\ all[i] = lines[i]
            \/ i - Len(lines) \in DOMAIN r /\ all[i] = r[i - Len(lines)]
  BY <1>1, ConcatFacts
<1>3. ASSUME Told(r) PROVE Told(all)
  <2>1. PICK i \in DOMAIN r :
          r[i] = Controller("probe") /\ \A j \in DOMAIN r : j > i => r[j].line # "controller"
    BY <1>3 DEF Told
  <2>2. Len(lines) + i \in DOMAIN all /\ all[Len(lines) + i] = Controller("probe")
    BY <1>2, <2>1
  <2>3. ASSUME NEW j \in DOMAIN all, j > Len(lines) + i PROVE all[j].line # "controller"
    <3>1. j - Len(lines) \in DOMAIN r /\ j - Len(lines) > i
      BY <1>2, <2>1, <2>3
    <3>2. all[Len(lines) + (j - Len(lines))] = r[j - Len(lines)] /\ Len(lines) + (j - Len(lines)) = j
      BY <1>2, <3>1
    <3>3. QED
      BY <2>1, <3>1, <3>2
  <2>4. QED
    BY <2>2, <2>3 DEF Told
<1>4. ASSUME NoWord(r), Told(lines) PROVE Told(all)
  <2>1. PICK i \in DOMAIN lines :
          lines[i] = Controller("probe") /\ \A j \in DOMAIN lines : j > i => lines[j].line # "controller"
    BY <1>4 DEF Told
  <2>2. i \in DOMAIN all /\ all[i] = Controller("probe")
    BY <1>2, <2>1
  <2>3. \A j \in DOMAIN all : j > i => all[j].line # "controller"
    BY <1>2, <1>4, <2>1 DEF NoWord
  <2>4. QED
    BY <2>2, <2>3 DEF Told
<1>5. ASSUME NoWord(r), NoWord(lines) PROVE NoWord(all)
  BY <1>2, <1>5 DEF NoWord
<1>6. QED
  BY <1>1, <1>3, <1>4, <1>5

(* A step outside the manager, at the probe and the bridge.                *)
LEMMA SayStep ==
  ASSUME LiveInv, NEW o \in Seq(OutLines), NEW r \in Seq(Lines), NEW b \in Bridges,
         NEW t, t = [rt EXCEPT !.out = o], rt' = t, services' = services, listening' = listening,
         Say(r), bridge' = b, rt.probe # "none",
         b.controller = "probe" => b.open,
         b.controller = "probe" /\ rt.probe = "running" =>
           Released(t) \/ Told(fromProbe \o r) \/ (Holds(t) /\ NoWord(fromProbe \o r))
  PROVE  LiveInv'
<1>0. rt \in Runtimes /\ Healthy(rt, services, bridge, fromProbe)
  BY DEF LiveInv, Healthy
<1>1. PICK lines \in Seq(Lines) : lines = fromProbe
  BY DEF LiveInv, ManagerTypes
<1>2. PICK all \in Seq(Lines) : all = lines \o r
  BY SayFacts
<1>3. t \in Runtimes
  BY <1>0 DEF Runtimes
<1>4. /\ t.states = rt.states /\ t.current = rt.current /\ t.operations = rt.operations
      /\ t.starting = rt.starting /\ t.stopping = rt.stopping /\ t.deletion = rt.deletion
      /\ t.probe = rt.probe /\ t.ready = rt.ready /\ t.login = rt.login /\ t.requests = rt.requests
  BY <1>0 DEF Runtimes
<1>5. ServiceInv(t, services)
  BY <1>0, <1>4 DEF Healthy, ServiceInv, Queue
<1>6. ClosedInv(t)
  BY <1>0, <1>4 DEF Healthy, ClosedInv, ProbeInv, LoginInv, LoginRequests
<1>7. ControlInv(t, b, all)
  BY <1>1, <1>2, <1>4 DEF ControlInv
<1>8. Healthy(t, services, b, all)
  BY <1>3, <1>5, <1>6, <1>7 DEF Healthy
<1>9. fromProbe' = all
  BY <1>1, <1>2 DEF Say
<1>10. Healthy(rt', services', bridge', fromProbe')
  BY <1>8, <1>9
<1>11. ManagerTypes'
  BY <1>2, <1>3, <1>9 DEF LiveInv, ManagerTypes
<1>12. QED
  BY <1>10, <1>11 DEF LiveInv

(* A step after which the probe does not hold control.                     *)
LEMMA NobodyStep ==
  ASSUME LiveInv, NEW o \in Seq(OutLines), NEW r \in Seq(Lines), NEW b \in Bridges,
         rt' = [rt EXCEPT !.out = o], services' = services, listening' = listening,
         Say(r), bridge' = b, rt.probe # "none", b.controller # "probe"
  PROVE  LiveInv'
<1>1. PICK t : t = [rt EXCEPT !.out = o]
  OBVIOUS
<1>2. QED
  BY <1>1, SayStep

(* A step that tells nothing of control, and takes no release away.        *)
LEMMA WordlessStep ==
  ASSUME LiveInv, NEW o \in Seq(OutLines), NEW r \in Seq(Lines), NEW b \in Bridges,
         rt' = [rt EXCEPT !.out = o], services' = services, listening' = listening,
         Say(r), bridge' = b, rt.probe # "none",
         b.controller = bridge.controller, b.open = bridge.open, NoWord(r),
         Released(rt) => \E i \in DOMAIN o : o[i] = Release
  PROVE  LiveInv'
<1>0. rt \in Runtimes /\ ControlInv(rt, bridge, fromProbe)
  BY DEF LiveInv, Healthy
<1>1. PICK t : t = [rt EXCEPT !.out = o]
  OBVIOUS
<1>2. t.out = o /\ t.controller = rt.controller /\ t.login = rt.login
  BY <1>0, <1>1 DEF Runtimes
<1>3. (Released(rt) => Released(t)) /\ (Holds(rt) => Holds(t))
  BY <1>2 DEF Released, Holds
<1>4. fromProbe \in Seq(Lines)
  BY DEF LiveInv, ManagerTypes
<1>5. b.controller = "probe" => b.open
  BY <1>0 DEF ControlInv
<1>6. b.controller = "probe" /\ rt.probe = "running" =>
        Released(t) \/ Told(fromProbe \o r) \/ (Holds(t) /\ NoWord(fromProbe \o r))
  BY <1>0, <1>3, <1>4, SayFacts DEF ControlInv
<1>7. QED
  BY <1>1, <1>5, <1>6, SayStep

(* Short sequences of lines.                                               *)
LEMMA LineSequences ==
  /\ <<>> \in Seq(Lines) /\ NoWord(<<>>)
  /\ \A l \in Lines : <<l>> \in Seq(Lines) /\ (l.line # "controller" => NoWord(<<l>>))
  /\ \A k, l \in Lines :
        /\ <<k, l>> \in Seq(Lines)
        /\ k.line # "controller" /\ l.line # "controller" => NoWord(<<k, l>>)
<1>1. <<>> \in Seq(Lines) /\ NoWord(<<>>)
  BY DEF NoWord
<1>2. ASSUME NEW l \in Lines
      PROVE  <<l>> \in Seq(Lines) /\ (l.line # "controller" => NoWord(<<l>>))
  <2>1. <<l>> \in Seq(Lines) /\ DOMAIN <<l>> = {1} /\ <<l>>[1] = l
    BY SingleFacts
  <2>2. QED
    BY <2>1 DEF NoWord
<1>3. ASSUME NEW k \in Lines, NEW l \in Lines
      PROVE  /\ <<k, l>> \in Seq(Lines)
             /\ k.line # "controller" /\ l.line # "controller" => NoWord(<<k, l>>)
  <2>1. <<k, l>> \in Seq(Lines)
    OBVIOUS
  <2>2. DOMAIN <<k, l>> = {1, 2} /\ <<k, l>>[1] = k /\ <<k, l>>[2] = l
    OBVIOUS
  <2>3. QED
    BY <2>1, <2>2 DEF NoWord
<1>4. QED
  BY <1>1, <1>2, <1>3

(* The lines the probe prints.                                             *)
LEMMA LineFacts ==
  /\ \A kind \in {"disconnected", "refused", "updated", "rejected"} :
        [line |-> kind] \in Lines /\ [line |-> kind].line # "controller"
  /\ \A who \in Who : Controller(who) \in Lines
  /\ \A up \in BOOLEAN : Provider(up) \in Lines /\ Provider(up).line # "controller"
  /\ \A id \in Nat : Completion(id) \in Lines /\ Completion(id).line # "controller"
  /\ \A id \in Nat, ok \in BOOLEAN, value \in Values :
        Answer(id, ok, value) \in Lines /\ Answer(id, ok, value).line # "controller"
<1>1. \A kind \in {"disconnected", "refused", "updated", "rejected"} :
         [line |-> kind] \in Lines /\ [line |-> kind].line # "controller"
  BY DEF Lines
<1>2. \A who \in Who : Controller(who) \in Lines
  BY DEF Lines, Controller
<1>3. \A up \in BOOLEAN : Provider(up) \in Lines /\ Provider(up).line # "controller"
  BY DEF Lines, Provider
<1>4. \A id \in Nat : Completion(id) \in Lines /\ Completion(id).line # "controller"
  BY DEF Lines, Completion
<1>5. \A id \in Nat, ok \in BOOLEAN, value \in Values :
         Answer(id, ok, value) \in Lines /\ Answer(id, ok, value).line # "controller"
  BY DEF Lines, Answer
<1>6. QED
  BY <1>1, <1>2, <1>3, <1>4, <1>5

(* The app-server answers, and says nothing of control.                    *)
LEMMA ReplyFacts ==
  ASSUME LiveInv, NEW m \in OutLines, m.line = "raw", Reply(m)
  PROVE  \E r \in Seq(Lines), b \in Bridges :
            /\ Say(r) /\ bridge' = b /\ NoWord(r)
            /\ b.controller = bridge.controller /\ b.open = bridge.open
<1>1. m.id \in Nat
  BY DEF OutLines
<1>2. bridge \in Bridges /\ bridge.flow \in Nat /\ bridge.signedIn \in BOOLEAN
  BY DEF LiveInv, ManagerTypes, Bridges
<1>3. ASSUME NEW r, NEW flow \in Nat, NEW signed \in BOOLEAN, r \in Seq(Lines), NoWord(r),
             Say(r), bridge' = [bridge EXCEPT !.flow = flow, !.signedIn = signed]
      PROVE  \E q \in Seq(Lines), b \in Bridges :
                /\ Say(q) /\ bridge' = b /\ NoWord(q)
                /\ b.controller = bridge.controller /\ b.open = bridge.open
  <2>1. PICK b \in Bridges : b = [bridge EXCEPT !.flow = flow, !.signedIn = signed]
    BY <1>2 DEF Bridges
  <2>2. b.controller = bridge.controller /\ b.open = bridge.open
    BY <1>2, <2>1 DEF Bridges
  <2>3. QED
    BY <1>3, <2>1, <2>2
<1>4. ASSUME NEW value \in Values, NEW ok \in BOOLEAN, NEW flow \in Nat, NEW signed \in BOOLEAN,
             Say(<<Answer(m.id, ok, value)>>),
             bridge' = [bridge EXCEPT !.flow = flow, !.signedIn = signed]
      PROVE  \E r \in Seq(Lines), b \in Bridges :
                /\ Say(r) /\ bridge' = b /\ NoWord(r)
                /\ b.controller = bridge.controller /\ b.open = bridge.open
  <2>1. PICK l \in Lines : l = Answer(m.id, ok, value) /\ l.line # "controller"
    BY <1>1, LineFacts
  <2>2. PICK r \in Seq(Lines) : r = <<l>> /\ NoWord(r)
    BY <2>1, LineSequences
  <2>3. QED
    BY <1>3, <1>4, <2>1, <2>2
<1>5. ASSUME NEW k \in Lines, NEW l \in Lines, k.line # "controller", l.line # "controller",
             NEW flow \in Nat, NEW signed \in BOOLEAN,
             Say(<<k, l>>), bridge' = [bridge EXCEPT !.flow = flow, !.signedIn = signed]
      PROVE  \E r \in Seq(Lines), b \in Bridges :
                /\ Say(r) /\ bridge' = b /\ NoWord(r)
                /\ b.controller = bridge.controller /\ b.open = bridge.open
  <2>1. PICK r \in Seq(Lines) : r = <<k, l>> /\ NoWord(r)
    BY <1>5, LineSequences
  <2>2. QED
    BY <1>3, <1>5, <2>1
<1>6. CASE /\ m.method = Read
           /\ Say(<<Answer(m.id, TRUE, IF bridge.signedIn THEN "SignedIn" ELSE "SignedOut")>>)
           /\ bridge' = [bridge EXCEPT !.flow = bridge.flow, !.signedIn = bridge.signedIn]
  <2>1. PICK value \in Values : value = IF bridge.signedIn THEN "SignedIn" ELSE "SignedOut"
    BY DEF Values
  <2>2. QED
    BY <1>2, <1>4, <1>6, <2>1
<1>7. CASE /\ Say(<<Answer(m.id, FALSE, "")>>)
           /\ bridge' = [bridge EXCEPT !.flow = bridge.flow, !.signedIn = bridge.signedIn]
  BY <1>2, <1>4, <1>7 DEF Values
<1>8. CASE /\ Say(<<Answer(m.id, TRUE, "")>>)
           /\ bridge' = [bridge EXCEPT !.flow = bridge.flow, !.signedIn = FALSE]
  BY <1>2, <1>4, <1>8 DEF Values
<1>9. CASE /\ Say(<<Answer(m.id, TRUE, "")>>)
           /\ bridge' = [bridge EXCEPT !.flow = IF bridge.flow = m.extra THEN 0 ELSE bridge.flow,
                                       !.signedIn = bridge.signedIn]
  <2>1. PICK flow \in Nat : flow = IF bridge.flow = m.extra THEN 0 ELSE bridge.flow
    BY <1>2
  <2>2. QED
    BY <1>2, <1>4, <1>9, <2>1 DEF Values
<1>10. CASE /\ Say(<<Answer(m.id, TRUE, "stored"), [line |-> "updated"]>>)
            /\ bridge' = [bridge EXCEPT !.flow = 0, !.signedIn = TRUE]
  <2>1. PICK k \in Lines, l \in Lines : /\ k = Answer(m.id, TRUE, "stored") /\ k.line # "controller"
                                        /\ l = [line |-> "updated"] /\ l.line # "controller"
    BY <1>1, LineFacts DEF Values
  <2>2. QED
    BY <1>5, <1>10, <2>1
<1>11. CASE /\ Say(<<Answer(m.id, TRUE, "flow")>>)
            /\ bridge' = [bridge EXCEPT !.flow = m.id, !.signedIn = bridge.signedIn]
  BY <1>1, <1>2, <1>4, <1>11 DEF Values
<1>12. CASE /\ Say(<<Answer(m.id, TRUE, "unusable")>>)
            /\ bridge' = [bridge EXCEPT !.flow = 0, !.signedIn = bridge.signedIn]
  BY <1>2, <1>4, <1>12 DEF Values
<1>13. CASE /\ Say(<<Completion(m.id), Answer(m.id, TRUE, "flow")>>)
            /\ bridge' = [bridge EXCEPT !.flow = 0, !.signedIn = TRUE]
  <2>1. PICK k \in Lines, l \in Lines : /\ k = Completion(m.id) /\ k.line # "controller"
                                        /\ l = Answer(m.id, TRUE, "flow") /\ l.line # "controller"
    BY <1>1, LineFacts DEF Values
  <2>2. QED
    BY <1>5, <1>13, <2>1
<1>14. QED
  BY <1>6, <1>7, <1>8, <1>9, <1>10, <1>11, <1>12, <1>13 DEF Reply

(* The probe takes a line.                                                 *)
LEMMA ProbeTakesStep ==
  ASSUME LiveInv, ProbeTakes
  PROVE  LiveInv'
<1>0. rt \in Runtimes /\ ControlInv(rt, bridge, fromProbe) /\ bridge \in Bridges /\ fromProbe \in Seq(Lines)
  BY DEF LiveInv, Healthy, ManagerTypes
<1>1. PICK out \in Seq(OutLines) : out = rt.out
  BY <1>0 DEF Runtimes
<1>2. out # <<>> /\ rt.probe # "none" /\ services' = services /\ listening' = listening
  BY <1>1 DEF ProbeTakes, KeepServices
<1>3. PICK m \in OutLines, o \in Seq(OutLines) : m = Head(out) /\ o = Tail(out)
  BY <1>2, TailFacts
<1>4. rt' = [rt EXCEPT !.out = o]
  BY <1>1, <1>3 DEF ProbeTakes
<1>5. ASSUME m # Release, Released(rt) PROVE \E i \in DOMAIN o : o[i] = Release
  <2>1. PICK i \in DOMAIN out : out[i] = Release
    BY <1>1, <1>5 DEF Released
  <2>2. i # 1 => i - 1 \in DOMAIN o /\ o[i - 1] = out[i]
    BY <1>2, <1>3, TailFacts
  <2>3. i # 1
    BY <1>2, <1>3, <1>5, <2>1, TailFacts
  <2>4. QED
    BY <2>1, <2>2, <2>3
<1>6. ASSUME NEW r \in Seq(Lines), NEW b \in Bridges, Say(r), bridge' = b, NoWord(r), m # Release,
             b.controller = bridge.controller, b.open = bridge.open
      PROVE  LiveInv'
  BY <1>2, <1>4, <1>5, <1>6, WordlessStep
<1>7. Say(<<>>) <=> fromProbe' = fromProbe
  <2>1. fromProbe \o <<>> = fromProbe
    BY <1>0
  <2>2. QED
    BY <2>1 DEF Say
<1>8. CASE m.line # "release" /\ UNCHANGED <<fromProbe, bridge>>
  <2>1. PICK r \in Seq(Lines), b \in Bridges : r = <<>> /\ NoWord(r) /\ b = bridge
    BY <1>0, LineSequences
  <2>2. Say(r) /\ bridge' = b
    BY <1>7, <1>8, <2>1
  <2>3. m # Release
    BY <1>8 DEF Release
  <2>4. QED
    BY <1>6, <2>1, <2>2, <2>3
<1>9. CASE ~bridge.open /\ Say(<<[line |-> "refused"]>>) /\ bridge' = bridge
  <2>1. PICK l \in Lines : l = [line |-> "refused"]
    BY LineFacts
  <2>2. PICK r \in Seq(Lines) : r = <<l>>
    BY LineSequences
  <2>3. bridge.controller # "probe"
    BY <1>0, <1>9 DEF ControlInv
  <2>4. QED
    BY <1>0, <1>2, <1>4, <1>9, <2>1, <2>2, <2>3, NobodyStep
<1>10. CASE /\ m.line = "acquire" /\ bridge.open
            /\ bridge' = [bridge EXCEPT !.controller = IF @ = "nobody" THEN "probe" ELSE @]
            /\ Say(<<IF bridge.controller = "other" THEN [line |-> "refused"] ELSE Controller("probe")>>)
  <2>1. PICK who \in Who : who = IF bridge.controller = "nobody" THEN "probe" ELSE bridge.controller
    BY <1>0 DEF Bridges, Who
  <2>2. PICK b \in Bridges : b = [bridge EXCEPT !.controller = who]
    BY <1>0 DEF Bridges
  <2>3. b.controller = who /\ b.open
    BY <1>0, <1>10, <2>2 DEF Bridges
  <2>4. bridge' = b
    BY <1>10, <2>1, <2>2
  <2>5. CASE bridge.controller = "other"
    <3>1. PICK l \in Lines : l = [line |-> "refused"]
      BY LineFacts
    <3>2. PICK r \in Seq(Lines) : r = <<l>>
      BY LineSequences
    <3>3. QED
      BY <1>2, <1>4, <1>10, <2>1, <2>3, <2>4, <2>5, <3>1, <3>2, NobodyStep
  <2>6. CASE bridge.controller # "other"
    <3>1. PICK l \in Lines : l = Controller("probe")
      BY LineFacts DEF Who
    <3>2. PICK r \in Seq(Lines) : r = <<l>> /\ DOMAIN r = {1} /\ r[1] = l
      BY SingleFacts
    <3>3. Told(r)
      BY <3>1, <3>2 DEF Told
    <3>4. Told(fromProbe \o r)
      BY <1>0, <3>3, SayFacts
    <3>5. Say(r)
      BY <1>10, <2>6, <3>1, <3>2
    <3>6. PICK t : t = [rt EXCEPT !.out = o]
      OBVIOUS
    <3>7. QED
      BY <1>2, <1>4, <2>3, <2>4, <3>4, <3>5, <3>6, SayStep
  <2>7. QED
    BY <2>5, <2>6
<1>11. CASE /\ m.line = "release" /\ bridge.open
            /\ bridge' = [bridge EXCEPT !.controller = IF bridge.controller = "probe" THEN "nobody" ELSE @]
            /\ Say(IF bridge.controller = "probe" THEN <<Controller("nobody")>> ELSE <<>>)
  <2>1. PICK who \in Who : who = IF bridge.controller = "probe" THEN "nobody" ELSE bridge.controller
    BY <1>0 DEF Bridges, Who
  <2>2. PICK b \in Bridges : b = [bridge EXCEPT !.controller = who]
    BY <1>0 DEF Bridges
  <2>3. b.controller = who /\ who # "probe"
    BY <1>0, <2>1, <2>2 DEF Bridges
  <2>4. PICK l \in Lines : l = Controller("nobody")
    BY LineFacts DEF Who
  <2>5. PICK r \in Seq(Lines) : r = IF bridge.controller = "probe" THEN <<l>> ELSE <<>>
    BY LineSequences
  <2>6. Say(r) /\ bridge' = b
    BY <1>11, <2>1, <2>2, <2>4, <2>5
  <2>7. QED
    BY <1>2, <1>4, <2>3, <2>6, NobodyStep
<1>12. CASE m.line = "raw" /\ Reply(m)
  <2>1. PICK r \in Seq(Lines), b \in Bridges :
           /\ Say(r) /\ bridge' = b /\ NoWord(r)
           /\ b.controller = bridge.controller /\ b.open = bridge.open
    BY <1>12, ReplyFacts
  <2>2. m # Release
    BY <1>12 DEF Release
  <2>3. QED
    BY <1>6, <2>1, <2>2
<1>13. QED
  BY <1>1, <1>3, <1>8, <1>9, <1>10, <1>11, <1>12 DEF ProbeTakes

(* The probe connects.                                                     *)
LEMMA ConnectsStep ==
  ASSUME LiveInv, Connects
  PROVE  LiveInv'
<1>0. rt \in Runtimes /\ ControlInv(rt, bridge, fromProbe) /\ bridge \in Bridges /\ fromProbe \in Seq(Lines)
  BY DEF LiveInv, Healthy, ManagerTypes
<1>1. /\ rt.probe = "running" /\ ~bridge.open /\ rt' = rt
      /\ services' = services /\ listening' = listening
  BY DEF Connects, KeepServices
<1>2. PICK who \in Who :
        /\ bridge' = [bridge EXCEPT !.open = TRUE, !.controller = who]
        /\ Say(<<[line |-> "opened", role |-> IF who = "probe" THEN "controller" ELSE "observer"],
                 Controller(who), Provider(bridge.provider)>>)
  BY <1>0 DEF Connects, Who, Bridges
<1>3. PICK b \in Bridges : b = [bridge EXCEPT !.open = TRUE, !.controller = who]
  BY <1>0 DEF Bridges
<1>4. b.open /\ b.controller = who
  BY <1>0, <1>3 DEF Bridges
<1>5. PICK role \in {"controller", "observer"} : role = IF who = "probe" THEN "controller" ELSE "observer"
  OBVIOUS
<1>6. [line |-> "opened", role |-> role] \in Lines
  BY DEF Lines
<1>7. PICK j \in Lines, k \in Lines, l \in Lines :
        /\ j = [line |-> "opened", role |-> role]
        /\ k = Controller(who)
        /\ l = Provider(bridge.provider) /\ l.line # "controller"
  BY <1>0, <1>6, LineFacts DEF Bridges
<1>8. PICK r \in Seq(Lines) : r = <<j, k, l>>
  <2>1. <<j, k, l>> \in Seq(Lines)
    OBVIOUS
  <2>2. QED
    BY <2>1
<1>9. DOMAIN r = {1, 2, 3} /\ r[2] = k /\ r[3] = l
  BY <1>8
<1>10. who = "probe" => Told(r)
  BY <1>7, <1>9 DEF Told
<1>11. Say(r)
  BY <1>2, <1>5, <1>7, <1>8
<1>12. PICK o \in Seq(OutLines) : o = rt.out
  BY <1>0 DEF Runtimes
<1>13. PICK t : t = [rt EXCEPT !.out = o]
  OBVIOUS
<1>14. rt' = t
  BY <1>0, <1>1, <1>12, <1>13 DEF Runtimes
<1>15. who = "probe" => Told(fromProbe \o r)
  BY <1>0, <1>10, SayFacts
<1>16. QED
  BY <1>1, <1>2, <1>3, <1>4, <1>11, <1>13, <1>14, <1>15, SayStep

(* Something happens behind the probe.                                     *)
LEMMA BridgeChangesStep ==
  ASSUME LiveInv, BridgeChanges
  PROVE  LiveInv'
<1>0. rt \in Runtimes /\ ControlInv(rt, bridge, fromProbe) /\ bridge \in Bridges /\ fromProbe \in Seq(Lines)
  BY DEF LiveInv, Healthy, ManagerTypes
<1>1. bridge.open /\ rt.probe # "none" /\ services' = services /\ listening' = listening
  BY <1>0 DEF BridgeChanges, KeepServices, ControlInv
<1>2. PICK o \in Seq(OutLines) : o = rt.out
  BY <1>0 DEF Runtimes
<1>3. rt = [rt EXCEPT !.out = o]
  BY <1>0, <1>2 DEF Runtimes
<1>4. Released(rt) => \E i \in DOMAIN o : o[i] = Release
  BY <1>2 DEF Released
<1>5. ASSUME NEW r \in Seq(Lines), NEW b \in Bridges, rt' = rt, Say(r), bridge' = b, NoWord(r),
             b.controller = bridge.controller, b.open = bridge.open
      PROVE  LiveInv'
  <2>1. rt' = [rt EXCEPT !.out = o]
    BY <1>3, <1>5
  <2>2. QED
    BY <1>1, <1>4, <1>5, <2>1, WordlessStep
<1>6. ASSUME NEW r \in Seq(Lines), NEW b \in Bridges, rt' = rt, Say(r), bridge' = b, b.controller # "probe"
      PROVE  LiveInv'
  <2>1. rt' = [rt EXCEPT !.out = o]
    BY <1>3, <1>6
  <2>2. QED
    BY <1>1, <1>6, <2>1, NobodyStep
<1>7. CASE bridge' = BridgeLeft /\ Say(<<[line |-> "disconnected"]>>) /\ rt' = [rt EXCEPT !.out = <<>>]
  <2>1. PICK l \in Lines : l = [line |-> "disconnected"]
    BY LineFacts
  <2>2. PICK r \in Seq(Lines) : r = <<l>>
    BY LineSequences
  <2>3. PICK b \in Bridges : b = BridgeLeft /\ b.controller # "probe"
    BY <1>0, BridgeLeftFacts
  <2>4. PICK none \in Seq(OutLines) : none = <<>>
    <3>1. <<>> \in Seq(OutLines)
      OBVIOUS
    <3>2. QED
      BY <3>1
  <2>5. rt' = [rt EXCEPT !.out = none] /\ Say(r) /\ bridge' = b
    BY <1>7, <2>1, <2>2, <2>3, <2>4
  <2>6. QED
    BY <1>1, <2>3, <2>5, NobodyStep
<1>8. CASE /\ rt' = rt /\ bridge' = [bridge EXCEPT !.provider = ~@, !.flow = 0]
           /\ Say(<<Provider(~bridge.provider)>>)
  <2>1. PICK up \in BOOLEAN : up = ~bridge.provider
    OBVIOUS
  <2>2. PICK l \in Lines : l = Provider(up) /\ l.line # "controller"
    BY LineFacts
  <2>3. PICK r \in Seq(Lines) : r = <<l>> /\ NoWord(r)
    BY <2>2, LineSequences
  <2>4. PICK b \in Bridges : b = [bridge EXCEPT !.provider = up, !.flow = 0]
    BY <1>0 DEF Bridges
  <2>5. b.controller = bridge.controller /\ b.open = bridge.open
    BY <1>0, <2>4 DEF Bridges
  <2>6. Say(r) /\ bridge' = b
    BY <1>8, <2>1, <2>2, <2>3, <2>4
  <2>7. QED
    BY <1>5, <1>8, <2>3, <2>5, <2>6
<1>9. ASSUME NEW who \in {"nobody", "other"}, rt' = rt, bridge' = [bridge EXCEPT !.controller = who],
             Say(<<Controller(who)>>)
      PROVE  LiveInv'
  <2>1. PICK l \in Lines : l = Controller(who)
    BY LineFacts DEF Who
  <2>2. PICK r \in Seq(Lines) : r = <<l>>
    BY LineSequences
  <2>3. PICK b \in Bridges : b = [bridge EXCEPT !.controller = who]
    BY <1>0 DEF Bridges, Who
  <2>4. b.controller # "probe"
    BY <1>0, <2>3 DEF Bridges
  <2>5. QED
    BY <1>6, <1>9, <2>1, <2>2, <2>3, <2>4
<1>10. CASE /\ rt' = rt /\ bridge' = [bridge EXCEPT !.flow = 0, !.signedIn = TRUE]
            /\ Say(<<Completion(bridge.flow), [line |-> "updated"]>>)
  <2>1. PICK flow \in Nat : flow = bridge.flow
    BY <1>0 DEF Bridges
  <2>2. PICK k \in Lines, l \in Lines : /\ k = Completion(flow) /\ k.line # "controller"
                                        /\ l = [line |-> "updated"] /\ l.line # "controller"
    BY LineFacts
  <2>3. PICK r \in Seq(Lines) : r = <<k, l>> /\ NoWord(r)
    BY <2>2, LineSequences
  <2>4. PICK b \in Bridges : b = [bridge EXCEPT !.flow = 0, !.signedIn = TRUE]
    BY <1>0 DEF Bridges
  <2>5. b.controller = bridge.controller /\ b.open = bridge.open
    BY <1>0, <2>4 DEF Bridges
  <2>6. Say(r) /\ bridge' = b
    BY <1>10, <2>1, <2>2, <2>3, <2>4
  <2>7. QED
    BY <1>5, <1>10, <2>3, <2>5, <2>6
<1>11. CASE rt' = rt /\ Say(<<[line |-> "rejected"]>>) /\ bridge' = bridge
  <2>1. PICK l \in Lines : l = [line |-> "rejected"] /\ l.line # "controller"
    BY LineFacts
  <2>2. PICK r \in Seq(Lines) : r = <<l>> /\ NoWord(r)
    BY <2>1, LineSequences
  <2>3. QED
    BY <1>0, <1>5, <1>11, <2>1, <2>2
<1>12. QED
  BY <1>7, <1>8, <1>9, <1>10, <1>11 DEF BridgeChanges

(* Units stop by themselves, and the UI begins to answer.                  *)
LEMMA ServicesChangeStep ==
  ASSUME LiveInv, ServicesChange
  PROVE  LiveInv'
<1>0. /\ rt \in Runtimes /\ Healthy(rt, services, bridge, fromProbe)
      /\ services \in [Owned -> BOOLEAN] /\ listening \in BOOLEAN
  BY DEF LiveInv, Healthy, ManagerTypes
<1>1. rt' = rt /\ Quiet
  BY DEF ServicesChange
<1>2. CASE \E c \in Owned : /\ services' = [services EXCEPT ![c] = FALSE]
                            /\ listening' = (listening /\ services'[UI])
  <2>1. PICK now \in [Owned -> BOOLEAN] : now = services'
    BY <1>0, <1>2
  <2>2. \A c \in Owned : now[c] => services[c]
    BY <1>0, <1>2, <2>1
  <2>3. Healthy(rt, now, bridge, fromProbe)
    BY <1>0, <2>2, HealthyNow
  <2>4. listening' \in BOOLEAN
    BY <1>2, <2>1 DEF Owned
  <2>5. QED
    BY <1>1, <2>1, <2>3, <2>4, ServicesStep
<1>3. CASE listening' = TRUE /\ services' = services
  <2>1. Healthy(rt', services', bridge, fromProbe)
    BY <1>0, <1>1, <1>3
  <2>2. QED
    BY <1>0, <1>1, <1>3, <2>1, ServicesStep
<1>4. QED
  BY <1>2, <1>3 DEF ServicesChange

(* Every step of the runtime.                                              *)
LEMMA RuntimeSteps ==
  ASSUME LiveInv, NEW valid, RuntimeNext(valid)
  PROVE  LiveInv'
<1>1. ASSUME UserNext PROVE LiveInv'
  BY <1>1, OpenSteps, OtherUserSteps DEF UserNext
<1>2. ASSUME RefreshTimer PROVE LiveInv'
  BY <1>2, RefreshStep DEF RefreshTimer
<1>3. ASSUME DeadlinesPass PROVE LiveInv'
  <2>1. Refresh(rt.requests, TRUE)
    BY <1>3 DEF DeadlinesPass
  <2>2. QED
    BY <2>1, RefreshStep
<1>4. QED
  BY <1>1, <1>2, <1>3, HelperSteps, TimeoutStep, ReadProbeStep, ProbeExitsStep, ProbeTakesStep, ConnectsStep,
     BridgeChangesStep, ServicesChangeStep DEF RuntimeNext

----------------------------------------------------------------------------
(* A profile that was just registered, or edited.                          *)
LEMMA FreshHealthy ==
  ASSUME NEW f \in Seq({"deleted", "failed"}), NEW running, NEW b \in Bridges, ~b.open, b.controller # "probe"
  PROVE  Healthy([Fresh EXCEPT !.finished = f], running, b, <<>>)
<1>1. PICK states \in [Components -> States] :
        states = [c \in Components |-> IF c \in External THEN "External" ELSE "Unknown"]
  <2>1. [c \in Components |-> IF c \in External THEN "External" ELSE "Unknown"] \in [Components -> States]
    BY DEF States
  <2>2. QED
    BY <2>1
<1>2. \A c \in Owned : states[c] = "Unknown"
  BY <1>1, ProfileAssumption DEF Owned, Components
<1>3. <<>> \in Seq(Commands) /\ <<>> \in Seq(OutLines)
  OBVIOUS
<1>4. NoLogin \in Logins
  BY DEF NoLogin, Logins, Phases, SignIns
<1>5. PICK t : t = [Fresh EXCEPT !.finished = f]
  OBVIOUS
<1>6. /\ t.states = states /\ t.current = NoOperation /\ t.operations = <<>>
      /\ t.starting = FALSE /\ t.stopping = FALSE /\ t.deletion = FALSE
      /\ t.probe = "none" /\ t.out = <<>> /\ t.ready = FALSE
      /\ t.login = NoLogin /\ t.requests = {}
  BY <1>1, <1>5 DEF Fresh
<1>7. t \in Runtimes
  BY <1>1, <1>3, <1>4, <1>5 DEF Fresh, Runtimes, Who
<1>8. Queue(t) = <<>>
  BY <1>6 DEF Queue
<1>9. QueueInv(<<>>, states, FALSE, FALSE, running)
  <2>1. \A i \in DOMAIN <<>> : <<>>[i] \in Silent
    OBVIOUS
  <2>2. \A c \in Owned : states[c] # "External" /\ (states[c] = "Inactive" => ~running[c])
    BY <1>2
  <2>3. QED
    BY <2>1, <2>2, SilentOnly
<1>10. ServiceInv(t, running)
  BY <1>6, <1>8, <1>9 DEF ServiceInv
<1>11. ClosedInv(t)
  BY <1>6 DEF ClosedInv, ProbeInv, LoginInv, LoginRequests
<1>12. ControlInv(t, b, <<>>)
  BY DEF ControlInv
<1>13. QED
  BY <1>5, <1>7, <1>10, <1>11, <1>12 DEF Healthy

(* Initially.                                                              *)
LEMMA InitLive ==
  ASSUME ControllerInit
  PROVE  LiveInv /\ registered
<1>1. PICK b \in Bridges : b = [open |-> FALSE, controller |-> "nobody", provider |-> TRUE, flow |-> 0, signedIn |-> FALSE]
  BY DEF Bridges, Who
<1>2. ~b.open /\ b.controller # "probe" /\ bridge = b
  BY <1>1 DEF ControllerInit, Init
<1>3. PICK f \in Seq({"deleted", "failed"}) : f = <<>>
  <2>1. <<>> \in Seq({"deleted", "failed"})
    OBVIOUS
  <2>2. QED
    BY <2>1
<1>4. Fresh = [Fresh EXCEPT !.finished = f]
  BY <1>3 DEF Fresh
<1>5. rt = Fresh /\ services = [c \in Owned |-> FALSE] /\ listening = FALSE /\ fromProbe = <<>> /\ registered
  BY DEF ControllerInit, Init
<1>6. Healthy(rt, services, bridge, fromProbe)
  BY <1>2, <1>4, <1>5, FreshHealthy
<1>7. rt \in Runtimes
  BY <1>6 DEF Healthy
<1>8. fromProbe \in Seq(Lines)
  BY <1>5
<1>9. ManagerTypes
  BY <1>2, <1>5, <1>7, <1>8 DEF ManagerTypes
<1>10. QED
  BY <1>5, <1>6, <1>9 DEF LiveInv

(* deleteData begins with the first target.                                *)
LEMMA DeleteDataStep ==
  ASSUME LiveInv, DeleteData
  PROVE  LiveInv'
<1>1. Keep /\ rt' = Enqueue(rt, <<Command("inspect", 1, "delete")>>)
  BY DEF DeleteData, Inspect
<1>2. Command("inspect", 1, "delete") \in Silent
  BY DEF Command, Silent, Targets
<1>3. PICK r \in Seq(Silent) : r = <<Command("inspect", 1, "delete")>>
  BY <1>2, SingleFacts
<1>4. Healthy(rt, services, bridge, fromProbe)
  BY DEF LiveInv
<1>5. QED
  BY <1>1, <1>3, <1>4, SilentKeeps, KeepStep

(* replace with the profile changed.                                       *)
LEMMA EditStep ==
  ASSUME LiveInv, Edit
  PROVE  LiveInv'
<1>1. /\ rt' = [Fresh EXCEPT !.finished = rt.finished] /\ bridge' = BridgeLeft /\ fromProbe' = <<>>
      /\ services' = services /\ listening' = listening
  BY DEF Edit
<1>2. rt.finished \in Seq({"deleted", "failed"}) /\ bridge \in Bridges
  BY DEF LiveInv, ManagerTypes, Runtimes
<1>3. BridgeLeft \in Bridges /\ ~BridgeLeft.open /\ BridgeLeft.controller # "probe"
  BY <1>2, BridgeLeftFacts
<1>4. PICK b \in Bridges, f \in Seq({"deleted", "failed"}) : b = BridgeLeft /\ f = rt.finished
  BY <1>2, <1>3
<1>5. Healthy([Fresh EXCEPT !.finished = f], services, b, <<>>)
  BY <1>3, <1>4, FreshHealthy
<1>6. Healthy(rt', services', bridge', fromProbe')
  BY <1>1, <1>4, <1>5
<1>7. rt' \in Runtimes
  BY <1>6 DEF Healthy
<1>8. <<>> \in Seq(Lines)
  OBVIOUS
<1>9. ManagerTypes'
  BY <1>1, <1>3, <1>7, <1>8 DEF LiveInv, ManagerTypes
<1>10. QED
  BY <1>6, <1>9 DEF LiveInv

(* The removal of a registration: its units are stopped, and nothing of    *)
(* the profile goes on.                                                    *)
LEMMA RemovedStep ==
  ASSUME ManagerInv, registered, Removed, NEW f \in Seq({"deleted", "failed"}),
         rt' = [rt EXCEPT !.finished = f, !.probe = "none", !.out = <<>>]
  PROVE  ManagerInv'
<1>1. LiveInv /\ rt \in Runtimes /\ bridge \in Bridges /\ ServiceInv(rt, services)
  BY DEF ManagerInv, LiveInv, ManagerTypes, Healthy
<1>2. ~Busy(rt) /\ ~HasOwnedProcesses(rt) /\ registered' = FALSE /\ bridge' = BridgeLeft /\ services' = services
  BY DEF Removed, MayReplace
<1>3. <<>> \in Seq(OutLines)
  OBVIOUS
<1>4. rt' \in Runtimes
  BY <1>1, <1>3 DEF Runtimes
<1>5. /\ rt'.states = rt.states /\ rt'.current = rt.current /\ rt'.ready = rt.ready
      /\ rt'.login = rt.login /\ rt'.requests = rt.requests /\ rt.current = NoOperation
  BY <1>1, <1>2 DEF Runtimes, Busy
<1>6. ASSUME NEW c \in Owned PROVE ~services[c]
  <2>1. Queue(rt) = <<>>
    BY <1>2 DEF Busy, Queue
  <2>2. StatesTrue(<<>>, rt.states, services)
    BY <1>1, <2>1 DEF ServiceInv, QueueInv
  <2>3. rt.states[c] # "External" /\ (rt.states[c] = "Inactive" => ~services[c])
    BY <2>2 DEF StatesTrue
  <2>4. rt.states[c] \in {"Inactive", "External"}
    BY <1>2 DEF HasOwnedProcesses, Components
  <2>5. QED
    BY <2>3, <2>4
<1>7. ControlAccounted'
  <2>1. BridgeLeft.controller # "probe"
    BY <1>1, BridgeLeftFacts
  <2>2. LoginRequests(rt) # {} => rt.ready /\ rt.login.phase \notin {"none", "Claiming"}
    BY DEF ManagerInv, ControlAccounted
  <2>3. QED
    BY <1>2, <1>5, <2>1, <2>2 DEF ControlAccounted, LoginRequests
<1>8. DeletionAlone'
  BY <1>5 DEF DeletionAlone, NoOperation
<1>9. KnownStopped' /\ NothingOrphaned'
  BY <1>2, <1>6 DEF KnownStopped, NothingOrphaned
<1>10. QED
  BY <1>2, <1>4, <1>7, <1>8, <1>9 DEF ManagerInv

(* What is said of a registered profile gives the properties.              *)
LEMMA LiveStep ==
  ASSUME LiveInv', registered'
  PROVE  ManagerInv'
<1>1. Healthy(rt', services', bridge', fromProbe')
  BY DEF LiveInv
<1>2. rt' \in Runtimes
  BY <1>1 DEF Healthy
<1>3. /\ LoginRequests(rt') # {} => rt'.ready /\ rt'.login.phase \notin {"none", "Claiming"}
      /\ bridge'.controller = "probe" /\ rt'.probe = "running" /\ rt'.login = NoLogin =>
           \/ \E i \in DOMAIN rt'.out : rt'.out[i] = Release
           \/ \E i \in DOMAIN fromProbe' : fromProbe'[i] = Controller("probe")
  BY <1>1, HealthyGives
<1>4. /\ rt'.current.kind = "delete" =>
           /\ rt'.deletion /\ rt'.stopping /\ ~rt'.starting /\ rt'.login = NoLogin
           /\ ~HasOwnedProcesses(rt')
           /\ \A c \in Owned : ~services'[c]
           /\ \A i \in DOMAIN rt'.operations : rt'.operations[i].kind \notin {"check", "start"}
      /\ ~Busy(rt') => \A c \in Owned : rt'.states[c] = "Inactive" => ~services'[c]
  BY <1>1, HealthyGives
<1>5. ControlAccounted'
  BY <1>3 DEF ControlAccounted
<1>6. DeletionAlone' /\ KnownStopped'
  BY <1>4 DEF DeletionAlone, KnownStopped
<1>7. NothingOrphaned'
  BY DEF NothingOrphaned
<1>8. QED
  BY <1>2, <1>5, <1>6, <1>7 DEF ManagerInv

(* deletionFinished.                                                       *)
LEMMA DeletionFinishedStep ==
  ASSUME ManagerInv, DeletionFinished
  PROVE  ManagerInv'
<1>1. rt \in Runtimes /\ (registered => LiveInv)
  BY DEF ManagerInv
<1>2. PICK finished \in Seq({"deleted", "failed"}) : finished = rt.finished
  BY <1>1 DEF Runtimes
<1>3. PICK f \in Seq({"deleted", "failed"}) : f = Tail(finished)
  BY <1>2, TailFacts DEF DeletionFinished
<1>4. CASE registered /\ Removed /\ rt' = [rt EXCEPT !.finished = f, !.probe = "none", !.out = <<>>]
  BY <1>4, RemovedStep
<1>5. CASE rt' = [rt EXCEPT !.finished = f] /\ registered' = registered /\ Keep
  <2>1. CASE registered
    <3>1. Healthy(rt, services, bridge, fromProbe)
      BY <1>1, <2>1 DEF LiveInv
    <3>2. LiveInv'
      BY <1>1, <1>5, <2>1, <3>1, OutcomeKeeps, KeepStep
    <3>3. QED
      BY <1>5, <2>1, <3>2, LiveStep
  <2>2. CASE ~registered
    <3>1. rt' \in Runtimes
      BY <1>1, <1>5 DEF Runtimes
    <3>2. /\ rt'.states = rt.states /\ rt'.current = rt.current /\ rt'.operations = rt.operations
          /\ rt'.starting = rt.starting /\ rt'.stopping = rt.stopping /\ rt'.deletion = rt.deletion
          /\ rt'.probe = rt.probe /\ rt'.out = rt.out /\ rt'.ready = rt.ready
          /\ rt'.login = rt.login /\ rt'.requests = rt.requests
      BY <1>1, <1>5 DEF Runtimes
    <3>3. services' = services /\ bridge' = bridge /\ fromProbe' = fromProbe
      BY <1>5 DEF Keep
    <3>4. ControlAccounted'
      BY <3>2, <3>3 DEF ManagerInv, ControlAccounted, LoginRequests
    <3>5. DeletionAlone'
      BY <3>2, <3>3 DEF ManagerInv, DeletionAlone, HasOwnedProcesses
    <3>6. KnownStopped'
      BY <3>2, <3>3 DEF ManagerInv, KnownStopped, Busy
    <3>7. NothingOrphaned'
      BY <1>5, <2>2, <3>3 DEF ManagerInv, NothingOrphaned
    <3>8. QED
      BY <1>5, <2>2, <3>1, <3>4, <3>5, <3>6, <3>7 DEF ManagerInv
  <2>3. QED
    BY <2>1, <2>2
<1>6. QED
  BY <1>2, <1>3, <1>4, <1>5 DEF DeletionFinished

----------------------------------------------------------------------------
(* The inductive invariant: the types, and of a registered profile that    *)
(* its queue, its states, its sign-in and what it knows of control fit the *)
(* services and the bridge, in every state.                                *)
THEOREM ManagerInvariant == ControllerSpec => []ManagerInv
<1>1. ControllerInit => ManagerInv
  <2>1. SUFFICES ASSUME ControllerInit PROVE ManagerInv
    OBVIOUS
  <2>2. LiveInv /\ registered
    BY <2>1, InitLive
  <2>3. Healthy(rt, services, bridge, fromProbe) /\ rt \in Runtimes
    BY <2>2 DEF LiveInv, Healthy
  <2>4. ControlAccounted
    BY <2>3, HealthyGives DEF ControlAccounted
  <2>5. DeletionAlone
    BY <2>3, HealthyGives DEF DeletionAlone
  <2>6. KnownStopped
    BY <2>3, HealthyGives DEF KnownStopped
  <2>7. QED
    BY <2>2, <2>3, <2>4, <2>5, <2>6 DEF ManagerInv, NothingOrphaned
<1>2. ManagerInv /\ [ControllerNext]_allVars => ManagerInv'
  <2>1. SUFFICES ASSUME ManagerInv, [ControllerNext]_allVars PROVE ManagerInv'
    OBVIOUS
  <2>2. ASSUME registered, RuntimeNext(expected = revision), UNCHANGED registryVars PROVE ManagerInv'
    <3>1. LiveInv'
      BY <2>1, <2>2, RuntimeSteps DEF ManagerInv
    <3>2. QED
      BY <2>2, <3>1, LiveStep DEF registryVars
  <2>3. ASSUME DeleteData PROVE ManagerInv'
    BY <2>1, <2>3, DeleteDataStep, LiveStep DEF ManagerInv, DeleteData
  <2>4. ASSUME Remove PROVE ManagerInv'
    <3>1. registered /\ Removed /\ rt' = [rt EXCEPT !.probe = "none", !.out = <<>>]
      BY <2>4 DEF Remove
    <3>2. PICK f \in Seq({"deleted", "failed"}) : f = rt.finished
      BY <2>1 DEF ManagerInv, Runtimes
    <3>3. rt' = [rt EXCEPT !.finished = f, !.probe = "none", !.out = <<>>]
      BY <2>1, <3>1, <3>2 DEF ManagerInv, Runtimes
    <3>4. QED
      BY <2>1, <3>1, <3>3, RemovedStep
  <2>5. ASSUME DeletionFinished PROVE ManagerInv'
    BY <2>1, <2>5, DeletionFinishedStep
  <2>6. ASSUME Edit PROVE ManagerInv'
    BY <2>1, <2>6, EditStep, LiveStep DEF ManagerInv, Edit
  <2>7. ASSUME EditOther PROVE ManagerInv'
    <3>1. rt' = rt /\ registered' = registered /\ Keep /\ registered
      BY <2>7 DEF EditOther
    <3>2. LiveInv /\ Healthy(rt, services, bridge, fromProbe)
      BY <2>1, <3>1 DEF ManagerInv, LiveInv
    <3>3. LiveInv'
      BY <3>1, <3>2, KeepStep
    <3>4. QED
      BY <3>1, <3>3, LiveStep
  <2>8. ASSUME UNCHANGED allVars PROVE ManagerInv'
    BY <2>1, <2>8 DEF allVars, vars, registryVars, ManagerInv, LiveInv, ManagerTypes, ControlAccounted,
       DeletionAlone, KnownStopped, NothingOrphaned
  <2>9. QED
    BY <2>1, <2>2, <2>3, <2>4, <2>5, <2>6, <2>7, <2>8 DEF ControllerNext
<1>3. QED
  BY <1>1, <1>2, PTL DEF ControllerSpec

(* A sign-in that ends takes its requests along, and control that the      *)
(* probe holds without one is on its way back, whatever the order of the   *)
(* lines, exits, timers and requests (finishAuthentication, cancelLogin,   *)
(* forgetAccount).                                                         *)
THEOREM ControlIsAccounted == ControllerSpec => []ControlAccounted
<1>1. ManagerInv => ControlAccounted
  BY DEF ManagerInv
<1>2. QED
  BY <1>1, ManagerInvariant, PTL

(* Data is deleted with every owned unit stopped, the runtime closed and   *)
(* no launch queued (deleteData, stopComponent, deleteTarget).             *)
THEOREM DeletionIsAlone == ControllerSpec => []DeletionAlone
<1>1. ManagerInv => DeletionAlone
  BY DEF ManagerInv
<1>2. QED
  BY <1>1, ManagerInvariant, PTL

(* With nothing going on, a unit shown as stopped does not run, whatever   *)
(* answer of a helper was lost (launch, stopComponent, refresh).           *)
THEOREM StoppedIsKnown == ControllerSpec => []KnownStopped
<1>1. ManagerInv => KnownStopped
  BY DEF ManagerInv
<1>2. QED
  BY <1>1, ManagerInvariant, PTL

(* A registration is removed, by hand or after a deletion, only with every *)
(* owned unit of its profile stopped (replace, remove, reconcile).         *)
THEOREM NoUnitOrphaned == ControllerSpec => []NothingOrphaned
<1>1. ManagerInv => NothingOrphaned
  BY DEF ManagerInv
<1>2. QED
  BY <1>1, ManagerInvariant, PTL
=============================================================================
