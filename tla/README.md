# Verification of the witgap server

witgap is a multiplayer text-mode world.  A browser or Flash client draws windows of
characters; everything else happens in a cluster of C++/Qt server processes called
*peers*.  The modules in this directory model the server (src/src/cpp/server), TLC
checks them on small worlds, and TLAPS proves the main safety properties for worlds of
any size.

## The system and its parts

A peer runs a **main thread** (PeerManager, ConnectionManager, SceneManager, every
connection), a **database thread** (the repositories) and a few **scene threads**, each
the home of some zone instances, their scenes and the sessions in them.  Threads talk by
queued calls (`QMetaObject::invokeMethod`, `Callback`), which are first-in first-out
for a pair of threads.  Peers talk over a TCP connection per *direction*: peer A sends
to B over A's `Peer` object, which B sees as a `PeerConnection`; only responses to
requests flow the other way.

| part | sources | state | operations | what is hard |
|---|---|---|---|---|
| Instances and their places | scene/Zone, scene/SceneManager | population limit, open count, reservations and timers, sessions inside | reserve, cancel, expire, add, remove, resize | three threads, timers that race arrivals, a belief that lags |
| Directory of sessions | peer/PeerManager, peer/PeerConnection, peer/Peer | `_sessions`, `_sessionsByName`, `_localSessions`, what each connection brought | added, updated, removed, connection set up and lost | every peer hears of a session from several connections, in no common order |
| Directory of instances | peer/PeerManager | `_instances`, `_zoneInstances` (ordered map), `_reservedInstanceIds` | added, updated, removed, id reserved by the lead peer | an ordered map whose keys change in place |
| Remote calls | peer/PeerManager, peer/PeerProtocol, peer/Peer, util/Callback | pending requests of a peer, pending batches | invoke on one, all, others, lead, session; respond; link lost | an answer that never comes; a lead that changes |
| Sessions and logins | net/Session, net/ConnectionManager | user, connection, instance, scene, windows | token validated, reconnect, transfer, log on and off, close | two connections of one user; close runs twice |
| Client protocol | net/Connection, www/js/client.js, as/ClientApp.as | throttle, compound, crypto, open flag | read, write, activate, close | partial messages, nested compounds |
| Scenes and actors | scene/Scene, scene/SceneView, actor/ | spatial hash, collision flags, views | add, move, remove, edit, scroll | blocks and views must agree with actors |
| Zones and scenes being resolved | scene/SceneManager, scene/Zone, db/SceneRepository | penders by id | resolve, loaded, continue | several askers, one load |
| Windows and input | ui/, net/Session | windows, layers, focus, hover, modal order, what is to be painted | add, remove, focus, press, release, sync | a window that goes while it is in use; a cell nobody notes |
| Script language | script/ | frames, stack, continuations | lex, parse, expand, run | tail calls, captured continuations |
| Property synchronisation | peer/PeerManager, db/PropertyRepository | runtime settings on each peer and in the database | set, transmit, persist | two peers set at once |
| HTTP and WebSocket | http/ | parser state, frame state | header, content, frame | data in pieces |
| Accounts | db/UserRepository, net/LogonDialog | users, tokens, resets, invites | validate, create, log on | a retry after a change |
| Chat commands | chat/ | command table, history | parse, run | prefixes and aliases |

What makes each part correct: an instance never promises a place it does not have, and its
books balance; every peer's maps say what its connections brought and nothing more, and agree
when nothing is under way; an id is given out once; a call is handled once and answered once;
the registry finds exactly the sessions that are there, and every connection gets one; what a
scene shows is what is in it, to exactly those who look at it; the client shows what the windows
would paint anew, exactly one component has the focus, and no edit is beyond undoing; a script is
answered with what it means, however it is cut; a setting is the same everywhere when all is quiet.

## Modules

Each component has a module with its state and one action per handler; `MC...` modules and
`.cfg` files give small worlds to TLC; `...Proofs` modules hold the theorems.  An operator
marked *Mutant* in a module is a plausible bug of the definition after it; no specification
uses it, it only shows that a property can fail.

### InstancePlaces (scene/Zone.cpp, peer/PeerManager.cpp, scene/SceneManager.cpp, net/Session.cpp)

`open`, `maxPop` and `held` are an Instance's `_info.open`, `_record.maxPopulation` and the keys
of `_placeReservationTimers`; `at` is a session's `_instance`; `view` is the open count in the
PeerManager's `_instances`.  `calls`, `posts` and `inbox` are the queued calls between the main
thread, an instance and a session.  A *move* is one call of `Session::moveToZone`.

| action | code |
|---|---|
| Login, Close, SessionRemoved, Delete | Session::Session, close, PeerManager::sessionRemoved, deleteLater |
| Ask, AskFromAway, Choose | Session::moveToZone, PeerManager::reserveInstancePlace |
| Created, CreateFails | Zone::createInstance, continueCreatingInstance, PeerManager::instanceMaybeCreated |
| RefusedElsewhere, GoneElsewhere | the answer of another peer, or the default for want of one (PeerManager::request); a transfer, a cancellation there or a lost answer |
| Reserve, Cancel, Expire, Resize | Instance::reservePlace, cancelPlaceReservation, placeReservationExpired, updated |
| InstanceUpdated, PlaceMaybeReserved, ReplyToAway | PeerManager::instanceUpdated, placeMaybeReserved |
| Go, Enter | Session::continueMovingToZone, Instance::removeSession, addSession |

The instances are those of this peer.  A move may at any time go *elsewhere*: to an instance of
another peer, or to have one created there.  What comes back then is up to that peer: its refusal
and the announcement of its count come over different sockets, in no common order, and where there
is no Peer object the refusal comes at once and the same instance may be asked again at once.  So
LooksElsewhere is stated of the instances of this peer only, and MoveSettles only of moves that
another peer, or a creation that fails, does not send back for ever.  A failed creation (a zone that
is not in the database, no id) answers 0 and has the whole request reissued; an id 0 the lead's
default leaves behind an instance that no zone's entry leads to, which is not among those modelled.
An answer may be lost with a link, that of the lead about an id included.  Creation of an instance
here for another peer is left out, and a user has one session here at a time: two are in
`PeerDirectory` and `SessionRegistry`.

`timers` counts the timers that run for a user's reservations: `reservePlace` replaces the entry of
an earlier reservation and leaves its timer, which repeats, so that `Expire` may fire for a later
reservation than its own, again and again.

The history variables `lost` and `extra` count what the code does to its own books: a place that
is never given back (a second reservation replaces the first, a session closes inside, a second
move overtakes the first), and a session that enters without a reservation.

`ZonePlaces` is what those who move may rely on, with no word of threads, queues, timers or of
`open` and `view`: a move is granted a place only in the zone it is to, and only while there is one
by the users kept for and those inside; a new instance is granted to the one it is made for; a
grant is good for one entry, by the session that asked and not by the user's next one; and nobody
is in an instance without a grant.  `Implements` maps a move to *granted* from the moment its
instance puts the answer in the queue (`Granted`), so that the decision of `Instance::reservePlace`,
taken by the count `open` alone, must be right by the holders and occupants as they then are.

### PeerLinks, PeerDirectory, InstanceIds (peer/, scene/Zone.cpp, net/Session.cpp)

`PeerLinks` has the two half-links of every pair of peers: the sender's Peer object dials
(`link`), the reader has a PeerConnection once the header is read (`conn`), messages are in
`chan`, a cut leaves an *eof* behind.  Both directories extend it.

`PeerDirectory` has `_sessions` and `_sessionsByName` of every peer, what each connection brought,
and Session objects as far as the directory drives them.

| action | code |
|---|---|
| Start | Session::Session with ConnectionManager::tokenValidated or transferSession, over whatever the map has |
| Change, Announce, Arrive | the three queued calls of Session::userChanged: sessionChanged, sessionRemoved, sessionAdded |
| Close, CloseOlder, Announce | the two queued calls of Session::close, of the session in the map or of one that it has lost |
| Connect, ReadHello | Peer::connectToPeer with the listing after the header |
| ReadAdded, ReadRemoved, Forget | sessionAdded, sessionRemoved, PeerConnection::~PeerConnection |
| Cut, Crash | a link breaks, a peer restarts |

`older` are the ids of which a peer has a session that another has taken the place of: its end,
which is by id alone, takes away the one in the map, object and listing both.  `leaving` and
`changing` are what is still to be said of those that closed or changed.  Four things are simpler than
in the code: a second end of an id waits until the first has been announced; the session that
changes its user is one the map has and has not had another in place of; a change starts when the
last of its user has been announced; and the end of a session for which the map has nothing follows
a null pointer, which is a Crash.  `SessionRegistry` has those cases.

`InstanceIds` has who takes whom for the lead (`stored`, `lead`: the records in the database and
`updatePeers`), the requests for an id as they are passed on over the peers (`route`: the
connections the answer must come back over), the ids given and held, and the instances announced.
`peers` are the names of which a peer has a Peer object: when the lead says goodbye (`Crash`), those
who read it lose theirs and go on taking it for the lead until they read the records again.  A request
for an id is then answered at once with the default (`AskNobody`), as may be one that is passed on
(`PassOnToNobody`), and Zone::continueCreatingInstance makes an instance of the id 0, announced
and listed as any other.  Several peers may do so; `AnyId` is `Id` with that 0.  The properties
say of each id what holds of it: an instance somebody believes in is there, and its connection has
brought it, for 0 too; that everyone knows of it, that nobody else has one of its id, and that the end
of a connection finds it, only for ids that a lead gave out.

### SessionRegistry (net/ConnectionManager.cpp, net/Session.cpp)

The connections of one peer, its sessions in whichever thread, their queues, the
ConnectionManager's `_sessions`, the PeerManager's directory as far as it lists a user here or
elsewhere, and the repository's answers.  `MainStep` runs the next call of the main thread,
`Run(s)` the next call of a session, `Answer` the next answer of the database; `Establish`,
`Tell`, `FinishSetting`, `TimeOut`, `Disconnect` and `WindowClosed` are the handlers that start
elsewhere.  `owes` is what a handler has yet to say to the main thread in separate calls.  That a
call names its session is history: the managers are told of users only.  A session stays connected
to the signals of every connection it has had, so that `RunClose` may run for the window of an
earlier one; the connection it then has is `late`, as is one that a late `clearConnection` takes
from its session.

### RemoteCalls (peer/PeerManager.cpp, peer/Peer.cpp, peer/PeerProtocol.cpp, util/Callback.cpp)

Calls to one peer, to all, to the others, to the lead and to the host of a session, with or
without an answer: `_pendingRequests` of every Peer object and of the manager (`pending`,
`batch`), request ids, what is on the sockets each way, and the methods that have yet to answer
(`work`).

`PeerCalls` is what that promises to callers: a call is run by those it is for, once each, and a
call to one peer by one; only a request is answered, once, with all who have run it, and nobody
runs it after that.  It knows of no links, ids or Peer objects; `Implements` maps `handled` to the
set of those who have run a call.

### SceneSpace (scene/Scene.cpp, scene/SceneView.cpp, scene/Legend.cpp, actor/, net/Session.cpp)

A scene as one row of places: the record, the stack of actors at each place, the three hashes of
blocks (characters, labels, flags) with their counts of filled places, the lists of views, the
bounds and legend of every session.  `Enter` and `Leave` are `sceneMaybeResolved` and `leaveScene`
with every slot of `didEnterScene` and `willLeaveScene`; `Walk`, `Type`, `Rubout`, `Delete` are
`Pawn::keyPressEvent`; `Toggle` is `setCursor`; `Resize` is `SceneView::invalidate`.  Everything
is derived step by step through the code's own helpers (`Put`, `SetInBlocks`, `Added`, `Taken`,
`Faced`, `Rebound`, `Updated`), and the properties compare the outcome with what a painter would
derive anew.  Places outside the row stay blank in it; in the code the plane has no edge.

### ScriptData, ScriptMacros, ScriptCompiler, ScriptGlobals, ScriptMachine, ScriptSemantics, ScriptAnswers, Script (script/, scm/rnrs/base.scm)

The evaluator of a session, from the text of a script to what it prints.  `ScriptData` has the
objects, their printing, the lexer and the parser; `ScriptMacros` scopes, patterns and templates of
`syntax-rules`; `ScriptCompiler` turns a datum into bytecode (jumps counted in instructions);
`ScriptGlobals` has the native procedures that return something.  `ScriptMachine` runs it:
`frames`, `stack` and `regs` are the invocations, `_stack` and `_registers`, and every instruction
of `Evaluator::execute` is an action.

| action | code |
|---|---|
| ConstantStep ... CallStep | the cases of the switch in Evaluator::execute; CallStep has lambdas, native procedures, `apply`, `call/cc` and escapes |
| Evaluate | Evaluator::evaluate with its cancel and compileForEvaluation |
| SliceEnds, ContinueExecuting | the end of execute's cycles, the timer, continueExecuting |
| SleepEnds, LineTyped | wakeUp by the timer and by maybeReadLine, or a line nobody waits for |

`ScriptSemantics` is independent of all that: it evaluates the expressions where they stand, with a
store, knowing `let`, `do`, `cond` and the rest as forms and not as macros.  `ScriptAnswers` is the
abstract specification, a dozen lines: of the scripts asked for, each is given up for the next one
or answered with its meaning, once.  `Script` puts them together (`Answers`, an INSTANCE with
`Expected` for the meaning); the property `Implements` is that refinement.  The machine takes the
compiler as a constant, `Compiled`, so that it depends on no text; the run gives it
`CompileForEvaluation`.

### Screen... and Desktop (ui/, net/Session.cpp, net/Connection.cpp, chat/, LogonDialog.cpp, SettingsDialog.cpp, MainWindow.cpp, www/js/)

One session's windows, from a key to the page that shows what became of it.  The session is a record
`desk`; each module adds operators that take it and return it changed, named for the functions they
stand for, and `Desktop` has the variables and the actions.

| module | code |
|---|---|
| ScreenGeometry | rectangles, borders, DrawContext; a picture is a function of cells |
| ScreenTree | Component and Window: the tree, invalidation, dirty regions, what posts a sync |
| ScreenText | Document, TextField: cursor, scrolling, matching parentheses, commands to undo |
| ScreenWidgets | Label, Button, CheckBox, ScrollingList |
| ScreenLayouts | BoxLayout, TableLayout: preferred sizes and places |
| ScreenWindows | layers, modality, active window, focus and its transfer, Window::sync and its messages |
| ScreenDialogs, ScreenForms | the session's dialogs, menus, ResourceChooserDialog; LogonDialog, SettingsDialog |
| ScreenChat | ChatWindow, ChatEntryWindow, the commands |
| ScreenClient | client.js: windows, their contents, the region to be redrawn |
| Desktop | Session's dispatch of events, connections, slots, Init and Next |

`desk.posted` is the queue of the session's thread (syncs and deletions), `desk.calls` the Qt slots a
signal has still to run: `Slot` runs one, and until the last has run nothing else happens, as in a
direct connection.  `wire` is what is sent and not read, sealed or not; `page` is the client.

| action | code |
|---|---|
| Strike, LetGo, Press, Release | Connection::maybeReadMessage, Session::dispatchKeyPressed and the others, the handlers of every widget up the tree |
| Slot | the slots connected in the dialogs' constructors |
| Fade, Flash | the timers of TextField::showMatch and StatusLabel |
| Answer | what the database says to a dialog (or to one that is gone) |
| Heard, Asked, PolicyChanged | ChatWindow::display, ChatEntryWindowDevice, LogonDialog::updateForce |
| Handle | Window::sync, or the end of a deleteLater |
| Read | socket.onmessage |
| Lose, Reconnect | Session::clearConnection, maybeSetConnection, setConnection |

## Runs

| run | property | what it shows |
|---|---|---|
| places_safety | Ledger, ViewFollows, NoOverbooking, TimersKept, Implements, LooksElsewhere | with three moves between two instances, reserved, cancelled, expired, overtaken in any order, or sent elsewhere, the count is right but for the places `lost` and `extra` name, every reservation has a timer and only lost places have one without, and who asked in one zone is granted a free place of that zone, once; whom an instance of this peer refuses is not sent to it again |
| places_liveness | MoveSettles | a request is not reissued for ever by this peer's own instances, the limit changing meanwhile |
| open_is_free | (violated) OpenIsFree | the count is not what PeerManager.h says it is |
| directory_safety | Attached, NoGhost, OneSession, Known, Hosted | three peers, two users, a session started over another or changed to another user, a break or restart at any time |
| local_is_hosted | (violated) LocalIsHosted | a returning user is taken out of all maps by the end of the session before |
| instance_ids | OneGrant, NoLeak, InstancesKnown, Attached | three peers, two that ask, a lead that may be cut off or restart, and that nobody may have a Peer object for |
| unique_id | (violated) UniqueId | a lead that comes up late gives out an id that is in use |
| sessions | Registered, Listed, Survives, Served, NoStrays | any three outside events with connections that end at any time |
| remote_calls | AtMostOnce, Truthful, InFlight, Served, Implements | two calls of any kind and one upset among three peers |
| scene | Drawn, Viewed, LegendRight | two sessions that come, walk, edit, scroll, resize, enter twice and leave |
| script | Chained, Tidy, Implements, Ends | some fifty scripts alone and before two others: compiled, cut in slices, asleep, waiting, cancelled, each is answered with what it means |
| desktop | Painted, InTurn, Unwound, Sealed | eight sessions, any three events and a lost connection in each: the client shows what there is, one component has the focus, every edit can be undone, secrets are sealed |

directory_safety (and with it PeerLinks), sessions and scene also check their module's `TypeOK`;
those of InstancePlaces, InstanceIds and RemoteCalls are only proved, for runs have better questions
to ask.

**Bounds.**  Each is a constant of its module and appears in a guard.

* `MaxMoves` = 3: two moves of one session overlap and a third, of another, meets what they left;
  `Pop` = {1} makes every second user too many; the live run has `Pop` = {0, 1} for a limit that
  drops under what is taken.  `Roaming` users have requests made by another peer.
  In the first, `VIEW Matters` identifies states that differ in what no action looks at any more: the
  user, goal and instance of moves that are over; and nobody logs in when there is no move left that
  he could make (`StartsToMove`).
* `MaxStarts` = 2, `MaxBreaks` = 1, three peers, two users: the shortest chain in which two hear of
  a third in different orders, with a link cut in between.  Changes of user count as starts, so that
  a session started over another, a session that becomes another user, and one that becomes a user who
  is there all occur.
* `MaxId` = 2, `MaxAsks` = 2: both requests in one id's life.  `Asker` are the two that do not lead.
  Any peer may restart (`Frail`) and any link break (`Loose`), once, when everyone has got through to
  everyone (`BreaksWhenUp`); a peer that restarts earlier is much like one that comes up late, as
  `Late` has it in unique_id, where that one leads.
* `MaxEvents` = 3, a guest and an account: a session, another connection or a log-on of the same
  user, and a transfer across them.  The five-minute timer fires only when all is quiet
  (`TimeOut`), which it outlasts by minutes; `abroad` starts empty or with the guest.
* `MaxCalls` = 2, `MaxUpsets` = 1, `MaxId` = 2: two calls share connections, ids and batches, and
  something is lost under one of them.  At the start all peers agree on lead and host (`where`),
  or know none; an upset changes that.
* `Row` = 4, `BlockSize` = `ViewSize` = 2, `Widths` = {2, 3}, two pawns and the column: views meet
  one, two or three blocks, overlap their old bounds or not, blocks fill and empty, and stacks are
  up to three high.

* `Slice` = 7 instructions, so that every script is cut at different places; `MaxScripts` = 2: any
  script, then one of the `Probes` (one that computes, one that waits), which meets whatever the
  first has left when it is cancelled or over; `MaxLines` = 2 lines, early or late.  `IntBits` = 16
  for the numbers to overflow in.  `Laws` are scripts that compare what the library returns with
  what it should and must come out as true; the other scripts are compared with `ScriptSemantics`.
* `Steps` = 3 events of any kind and `Losses` = 1, after the keys of the `Openings` have brought
  the session where something can go wrong: a chain of three (write over a match, undo, hear a
  line) is as long as the code's hazards need.  `Backlog` = 0 has the server wait until the page has
  read: the server never asks the page, so that no other order leads it anywhere else; a connection
  that goes still takes away what is unread.  Words are initials, forms narrower, fields three
  letters wide, so that each scrolls, is cut and overlaps; the constants name the code's numbers.

`CHECK_DEADLOCK FALSE` is set in every run: at the bounds nothing more is asked for, and a server
nobody talks to may rest.  Symmetry is used only in runs without liveness, over sets whose members
differ in nothing but name.

**Fairness.**  `InstancePlaces!FairSpec` and `ScriptMachine!Spec` have some.  The first: weak
fairness of every event loop, per thread (the main thread's choice and answers, each instance's
queue, each session's queue), of `Delete` and `SessionRemoved`, which are queued, of a timer
that has been started, and of what is asked of another peer or of the lead, which is answered or
whose answer is lost.  A Qt event loop takes its next event as long as its thread runs, and no
handler here blocks.  Logging in, asking, closing and new limits have none.  The second: a slice
that has begun goes on (`GoesOn`, the weak fairness of the machine's steps, of which one is always
enabled while it runs), and the timer of a slice and of a sleep fires.  Nobody has to type a line or
to ask for a script.

**History variables.**  The code does not keep some of its promises in every interleaving.  The
properties say so by name instead of leaving the interleaving out: `hasty` (a user who came to a
peer that still had a session of his, or between the two calls of `close`), `undone` (a user whose
session, come by a change of user, was closed by an older one before it was announced, and so stays
listed), `upset` (two sessions of a user in one map, and who takes over the entry of
one), `late` (a connection for a session on its way out, or one its session loses to the end of an
earlier one), `lost` (a call that lost something with its link), `again` (a session
that entered a scene twice) and `beneath` (a cursor under another actor while its place is edited).
For everybody else the property holds without exception.

## What is proved

`tlapm` checks these for every value of the constants, under the assumptions named in the modules
(finite sets of users and ids, names that are not `None`, bounds that are numbers).

* **InstancePlaces**: `TypeCorrect`, `LedgerHolds`, `NeverOverbooked`, `ViewIsFollowing`,
  `FullFirstHolds`, `RefusedLooksElsewhere`, `TravelsHolds`, `TimersHold`, `PlacesImplement`. The
  inductive invariant is `TypeOK /\ Untouched /\ Owned`: queued messages speak only of moves that
  have an owner and of instances that exist, and an instance that does not exist has empty books;
  without it `Enter` could enter nowhere, and `Created` start with books that do not balance. Ledger
  then goes action by action on cardinalities (a user joins or leaves `held` or the occupants of at
  most two instances). NoOverbooking needs the count to be non-negative while no limit has changed.
  ViewFollows is inductive on the queue of announcements. An instance refuses when its own count
  says so, and by ViewFollows the last announcement ahead of the refusal then says the same
  (`FullFirst`): that is why a request refused by an instance of this peer looks elsewhere, which is
  the safety behind MoveSettles; of other peers' instances neither is claimed. TimersKept is
  inductive: whatever ends a reservation deletes the timer in the hash, and a timer that loses its
  place there loses the place with it. That ZonePlaces is implemented rests on Ledger, by which
  `open[i] > 0` is a free place however far the books are out by `lost` and `extra`, and on
  `Travels`: a move is in one queue at one place (`Once`), so that an answer that is read was the
  only one; a move under way has come to an instance that exists, of the zone asked for (`Headed`);
  and a move made for another peer is no orphan and has no session here (`Parted`), so that a
  session that is deleted takes no such move with it. Then a request refused or an answer passed on
  is invisible, and each other step is one step of ZonePlaces. Assumed is that `None` is the name of
  no instance and of no user.
* **PeerLinks**: each action keeps the channels framed (header first, close last, nothing unnamed in
  between); lemmas that both directories cite.
* **PeerDirectory**: `TypeCorrect`, `StaysAttached`, `HostedHolds`. Attached is inductive with
  TypeOK, because only a framed channel has its connection's name in `conn` when an entry is read.
  Hosted needs `Overtaken`: an object that is there although its end is unannounced is a user who
  was hasty; and `Owed`: a change yet to be announced is of an object that is there, unless an older
  session of the user, who is then hasty, has closed it (`undone`). `NoGhostHolds`,
  `OneSessionHolds` and `KnownHolds` speak of states where all is quiet; each has an invariant that
  says of a pair of peers, and of what is in the channel between them, how it gets there. `Shadows`:
  who believes in a session is right, or its removal or the end of the connection is on its way, and
  what is on its way is right or revoked behind it. `Contest`: of two peers that have both a session
  of a user, one has yet to read of the other. `Traced` and `Informed`: only a peer that has had a
  session speaks of it, and the last it says is what it has. The attempt at OneSession showed that
  it holds only of users who were not hasty: TLC had not met the case at two starts, and finds it at
  three. A user leaves p, starts again before p has said so, and starts elsewhere; what p says then
  takes his new session off p's list, so that a peer that p connects to later never hears of it, and
  both sessions stay. (peer/PeerManager.cpp:402.)
* **InstanceIds**: `TypeCorrect`, `NoLeakHolds`, `OneGrantHolds`, `InstancesKnownHolds`,
  `CleanIsUniqueHolds`, `AttachedHolds`. OneGrant needs `Traced` (whatever speaks of an id at a peer
  was given to that peer) and `Accounted` (the giver still has the id reserved or known), each kept
  by the other; a cut link is where they could part, and `parted` takes those ids out.
  InstancesKnown goes by pairs of peers: `Knowing` says that whoever is believed to have an instance,
  of whatever id, has it, or the connection that said so is about to end with all it brought, and that
  an instance that is there is in the other's books or announced on the way to it; OneGrant makes
  its place the only one. So two peers never have an instance of one clean id, which is what is left
  of UniqueId (of the id 0 that peers make up for want of a lead nothing of the kind holds); and the
  end of a connection, which removes what it brought by id alone and follows a null pointer if an
  entry is gone (peer/PeerManager.cpp:459), finds every clean one (`Remembered`).
* **RemoteCalls**: `InvHolds`, `TypeHolds`, `CallsAtMostOnce`, `AnswersTruthful`.  The invariant
  says where everything is: a call to one peer is in one channel at one place, or at work, or
  answered, and never two of these; the id of an answer, together with how often the link has been
  cut, belongs to one call (`Numbered`, `Linked`), so that a late answer is not taken for another's;
  a call has one callback at its caller (`Sole`); and a batch has the answers of just those who ran
  the call and still waits for the others (`Batched`).  AtMostOnce counts the first, Truthful reads
  the last.  InFlight and Served have a module of their own, RemoteCallsFlowProofs: `FlowHolds`,
  `RequestsInFlight`, `AllServed`.  That there is at most one answer is `Single`: what is known by
  the same peers, the same number of cuts and the same id is one thing, whether it is a message, a
  callback or an answer.  That there is at least one follows a call from place to place: the request
  of an entry is in the channel, at work at the other peer, handed on by it, or its answer is on the
  way back (`Underway`); whoever was asked for someone else finds the entry of that one still
  waiting (`Rooted`); `Expected`, `Arriving`, `Moving` and `Waited` say the same of callers, of
  answers, of calls passed on and of batches.  A step is one of three kinds: a call goes on
  (`Onward`), a callback is invoked (`Homeward`), or a link is cut or something learnt
  (`Ebbing`).  `CallsImplement` has each step run a call, answer one, make one, or be invisible to
  PeerCalls; it needs that a call by name is never on its way to another peer and that only requests
  have callbacks (`Meant`).
* **SceneSpace**: `InvHolds`, `TypeHolds`, `DrawnHolds`, `ViewedHolds`, `LegendsRight`.  The
  invariant is the world a painter would derive anew: each grid counts what fills its blocks (lemmas
  on block numbers, which are quotients, and on counts that go up or down by one), an actor is on
  the list of its place only, a view is on the lists of the blocks it meets at the size it is or
  was.  A legend is only ever told of differences, so LegendRight needs that what it was told of
  before is exactly what was in sight, for every way in which bounds, labels and its own pawn change
  together.  Assumed is that views have a greatest width.
* **SessionRegistry**: `InvHolds`, `TypeHolds`, `RegisteredHolds`, `ListedHolds`, `SurvivesHolds`,
  `ServedHolds`, `NoStraysHolds`.  The calls of a session are handled in the order it makes them, so
  what waits says for which user the map has it now: that of its first change of user still to be
  handled (`Was`).  `Kept` has entry and session agree on that user, or the user is in `upset`;
  `Told` has the calls that will put the directory right; `Queued` has each connection wait in one
  queue at one place until it is bound, and counts objects and rows against events, so that there
  always is a fresh one; `Tied` and `Attended` follow a connection and its session until one tells
  the other.  Mixed-up users are where the code's own overlaps live (two sessions of one user, a
  second `close`), and the invariant follows them from user to user.  The attempt showed twice that
  the model said less than its comments: a window that closes on an earlier connection ends the
  session of the next one (net/Session.cpp:735), which TLC had not met at three events and finds at
  four; and a user who takes over a mixed-up entry is mixed up too.  `late` and `upset` name both.

Theorems about an invariant of the runs are proved from it by one lemma each (`InvServed`, ...); a
proof module has one lemma for each action, over values that stand for the variables before and
after, and lemmas about the operators of the model by themselves.

**Only model-checked**: liveness (fairness is out of the provers' reach); the script machine and the
desktop, whose operators are recursive over data (syntax trees, component trees) and so out of the
provers' reach, the refinement of ScriptAnswers included: that is Chained, Tidy, Implements and Ends
of `script`, and all of `desktop`.  Chained and Tidy could not be had by weakening the machine to
any compiled code either: they lean on what the compiler emits (an operand stack that comes out
even, but for what a conditional leaves on it), which is induction over the syntax tree.

## Findings

1. `OpenIsFree`: the session for which an instance was created gets no reservation, so the count
   is one too high while it is inside (scene/Zone.cpp:48, 131; PeerManager.h:584).
2. `LocalIsHosted`: the end of a session is two queued calls; a session of the same user that
   starts between them is taken out of the maps by the second (net/Session.cpp:710).
3. `UniqueId`: a peer leads itself until it has read the others' records, and knows their
   instances only when they have dialled it (peer/PeerManager.cpp:222).

What no run is made for is under `hazards` in PROJECT.json, with its line: among others, that a
session may enter a scene without leaving the last (net/Session.cpp:844), that the legend
disconnects in the wrong direction (scene/Legend.cpp:67), that the sort key of the zone map
changes in place, so that an entry may not be found any more (peer/PeerManager.cpp:443), that a
request refused by a peer known by an incoming connection only is issued again inside its own
answer, without end (peer/PeerManager.cpp:315), and that a batch to no one is never answered
(peer/PeerManager.cpp:486).

Met in the script language, and kept as it is by the model: a conditional leaves its condition
counted as an operand, so that `(+ 1 (if #t 2 3))` fails (script/Evaluator.cpp:1180; Script.h:218
has the register as the current operand count); it takes all but `#t` for false, where Script.h:124
says "if it's false"; `let-syntax` and `letrec-syntax` pass `allowDef` and `tailCall` in each
other's place (Evaluator.cpp:514, 517); an ellipsis never matches an empty list.  Left out of the
scripts, because the code has no defined outcome: an unknown `#` (the lexer does not advance), an
abbreviation at the end of the text (a null pointer), `mod` by zero, `invoke-method` with more than
ten arguments, nested ellipses of different lengths.

Met in the desktop: a disabled button can be clicked (ui/Button.cpp:70), so that a blocked log-on
is asked for twice and settings are applied with an empty avatar (SettingsDialog.cpp:87); a ban or a
closed server leaves the log-on form blocked for good; after a script has read a line the entry stays
in its mode; lines heard before the chat window has bounds are dropped; windows of equal layer lie in
the order in which the client was last told of them, not in the session's.

## Not modelled

HTTP, mail, administration, the Flash client: input and output that tests reach better.  Of the
windows: text areas, scroll panes, tabs, combo boxes, radio buttons, the object editor, word wrap
and ellipses, the scene shown in the main window (`SceneSpace` has its views), pawn keys.  Of the
protocol: bytes, the throttle, pings, compounds written by two threads at once.  Of the chat: what a
command does to others.  A release of a key matters for modifiers and menus only, and is left out
for others; an e-mail address is a text with one @ inside, a date is whole once each part has a digit.
Of scripts: objects changed in place (so that equal ones need not be told apart), transcendental
functions, hashes, the procedures that reach into the server, the collection of objects, the text of
errors.  Databases are their answers.  Regions and the order of
the zone map are left out of InstancePlaces.  Names are left out of the registry and directory: each
map by name has the keys of the map by id.  Actors that look like a blank are left out of
SceneSpace (the code puts them at the end of the stack), as are `Scene::flush`, `updated` and
`deleted`: nothing calls the first two and the third is empty.

## Plan

Done: places; the session directory; instance ids; the registry of sessions; remote calls; scenes;
windows, text, forms, chat and the client; the script language; the promises to those who move, call
and run scripts, each refined.  The order followed what the cluster's correctness rests on, then
what a user sees.  Left, in order:

1. **Abstract specification** of PeerDirectory, which has none: a peer learns a listing id by id and
   an entry gives way to whoever speaks last, so that what it believes is nobody's state at any
   moment; what can be promised of it is what NoGhost, OneSession and Known say when all is quiet.
   A table of who is online, with the moves between peers as its steps, is still to be found.
2. **Property synchronisation** (peer/PeerManager.cpp:853, db/PropertyRepository.cpp): a property set
   at two peers at once is transmitted both ways, each keeps what it heard last and the database what
   was stored last; and the changed blocks of a scene record (db/SceneRepository.cpp).
3. **Text areas and scroll panes**, in ScreenText and ScreenWidgets; compounds written by the
   session's thread while the main thread reads (net/Connection.cpp:327).
