-------------------------- MODULE SessionRegistry --------------------------
(* The sessions of one peer and the maps that find them                    *)
(* (net/ConnectionManager.cpp, net/Session.cpp, with what they ask of      *)
(* peer/PeerManager.cpp and db/UserRepository.cpp).                        *)
(*                                                                         *)
(* A client's connection is handled in the main thread.  It names a user   *)
(* by cookie and is handed to that user's session, sent to another peer,   *)
(* or given a session of its own once the database has vouched for it.  A  *)
(* session starts in the main thread and moves to the thread of the        *)
(* instance it enters: from then on calls to it, and its calls to the      *)
(* ConnectionManager and the PeerManager, wait in queues.  It closes when  *)
(* its window is closed, when it is told to reconnect elsewhere, or when   *)
(* it has been without a connection for five minutes; it changes its user  *)
(* on logging on or off.                                                   *)
(*                                                                         *)
(* Names are left out: each map by name has the keys of the map by id.     *)
EXTENDS Integers, Sequences

CONSTANTS
    Guests, Accounts,  \* users on record at the start: 1 .. Guests have no password
    MaxEvents          \* bound: connections made, sessions that start on other peers
                       \* or are transferred from them, and users logging on or off

ASSUME BoundsAssumption == {Guests, Accounts, MaxEvents} \subseteq Nat

Conn == 1 .. MaxEvents
Sess == 1 .. MaxEvents
User == 1 .. (Guests + Accounts + MaxEvents)
None == 0   \* no entry; no user, session or connection
Null == -1  \* an entry that holds a null pointer

VARIABLES
    phase,      \* of a connection: away, open, leaving (told to reconnect),
                \* bye (its window is closed), closed
    bound,      \* the session that has connected a connection's signals
    session,    \* the Session objects
    inbox,      \* the calls waiting for a session, first first
    owes,       \* what a session has yet to say to the main thread to
                \* finish what it is doing
    main,       \* the calls waiting for the managers
    asked,      \* the requests waiting for the repository
    record,     \* the users in the database
    sessions,   \* ConnectionManager::_sessions
    directory,  \* PeerManager::_sessions: none, here, elsewhere
    abroad,     \* users with a session on another peer
    events,     \* how many so far
    crashed,    \* the peer has used a null or a freed session
    closed,     \* history: sessions that have run Session::close
    upset,      \* history: users for whom entries have been lost or mixed up
    late        \* history: connections that came for a session on its way out, or
                \* that a session has lost to the end of an earlier one

connections == <<phase, bound>>
vars == <<connections, session, inbox, owes, main, asked, record, sessions, directory,
          abroad, events, crashed, closed, upset, late>>

Unborn == [state |-> "unborn", home |-> "main", user |-> None, conn |-> None,
           timer |-> FALSE, setting |-> None]

Init ==
    /\ phase = [c \in Conn |-> "away"]
    /\ bound = [c \in Conn |-> None]
    /\ session = [s \in Sess |-> Unborn]
    /\ inbox = [s \in Sess |-> <<>>]
    /\ owes = [s \in Sess |-> <<>>]
    /\ main = <<>> /\ asked = <<>>
    /\ record = [u \in User |-> CASE u <= Guests -> "guest"
                                  [] u > Guests /\ u <= Guests + Accounts -> "account"
                                  [] OTHER -> "none"]
    /\ sessions = [u \in User |-> None]
    /\ abroad \in {{}, {1}} /\ abroad \subseteq User
    /\ directory = [u \in User |-> IF u \in abroad THEN "elsewhere" ELSE "none"]
    /\ events = 0
    /\ crashed = FALSE /\ closed = {} /\ upset = {} /\ late = {}

Live == {s \in Sess : session[s].state = "live"}
IsOpen(c) == phase[c] \in {"open", "leaving", "bye"}

\* A session whose thread is free for the next call.
Idle(s) == s \in Live /\ owes[s] = <<>> /\ session[s].setting = None

\* Nothing is under way anywhere on the peer.
Quiet == /\ main = <<>> /\ asked = <<>>
         /\ \A s \in Live : Idle(s) /\ inbox[s] = <<>>

(***************************************************************************)
(* The maps, as the managers change them in the main thread.               *)
(***************************************************************************)

\* ConnectionManager::sessionClosed, `box` being the sessions' calls before it.
\* It deletes the session it finds, which need not be the one that has closed.
SessionClosed(u, box) ==
    LET s == sessions[u] IN
    /\ sessions' = [sessions EXCEPT ![u] = None]
    /\ crashed' = (s \notin Live)
    /\ inbox' = IF s \in Live THEN [box EXCEPT ![s] = Append(@, [call |-> "delete"])] ELSE box

(* Mutant: the entry stays under the old id as well.                       *)
SessionChangedInPart(s, old, new) ==
    /\ sessions' = [sessions EXCEPT ![new] = sessions[old]]
    /\ upset' = upset

\* ConnectionManager::sessionChanged, for s: the entry goes to the new id.
\* Who changes an id that has been mixed up brings that along.
SessionChanged(s, old, new) ==
    /\ sessions' = [sessions EXCEPT ![old] = None,
                                    ![new] = IF sessions[old] = None THEN Null ELSE sessions[old]]
    /\ upset' = upset \cup (IF sessions[old] # s \/ old \in upset THEN {old, new} ELSE {})
                      \cup (IF old # new /\ sessions[new] # None THEN {new} ELSE {})

\* PeerManager::sessionRemoved for a session of this peer.
SessionRemoved(u) ==
    directory' = [directory EXCEPT ![u] = IF @ = "here" THEN "none" ELSE @]

\* PeerManager::sessionAdded for a session of this peer.
SessionAdded(u) == directory' = [directory EXCEPT ![u] = "here"]

(***************************************************************************)
(* What a session does: in the main thread at once, in the thread of its   *)
(* instance by telling the main thread in one call after another.          *)
(***************************************************************************)

InMain(s) == session[s].home = "main"

\* The first of several calls to the main thread; the thread may be
\* overtaken before it makes the others.  (That a call names the session is
\* history: the managers are told of users only.)
TellMain(s, calls) ==
    /\ main' = Append(main, Head(calls))
    /\ owes' = [owes EXCEPT ![s] = Tail(calls)]

\* Session::close, `box` being the sessions' calls before it.
Close(s, box) ==
    LET u == session[s].user IN
    /\ closed' = closed \cup {s}
    /\ upset' = IF s \in closed THEN upset \cup {u} ELSE upset
    /\ IF InMain(s)
       THEN SessionClosed(u, box) /\ SessionRemoved(u) /\ UNCHANGED <<main, owes>>
       ELSE /\ TellMain(s, <<[call |-> "closed", session |-> s, user |-> u],
                             [call |-> "removed", session |-> s, user |-> u]>>)
            /\ inbox' = box
            /\ UNCHANGED <<sessions, directory, crashed>>

(* Mutant: every peer goes on listing the user the session was.            *)
UserChangedUnlisted(s, new, box) ==
    LET old == session[s].user IN
    /\ session' = [session EXCEPT ![s].user = new]
    /\ inbox' = box
    /\ IF InMain(s)
       THEN SessionChanged(s, old, new) /\ SessionAdded(new) /\ UNCHANGED <<main, owes>>
       ELSE /\ TellMain(s, <<[call |-> "changed", session |-> s, user |-> old, new |-> new],
                             [call |-> "added", session |-> s, user |-> new]>>)
            /\ UNCHANGED <<sessions, directory, upset>>

\* Session::loggedOn, loggedOff and userChanged.
UserChanged(s, new, box) ==
    LET old == session[s].user IN
    /\ session' = [session EXCEPT ![s].user = new]
    /\ inbox' = box
    /\ IF InMain(s)
       THEN /\ SessionChanged(s, old, new)
            /\ directory' = [u \in User |-> IF u = new THEN "here"
                                            ELSE IF u = old /\ directory[u] = "here" THEN "none"
                                            ELSE directory[u]]
            /\ UNCHANGED <<main, owes>>
       ELSE /\ TellMain(s, <<[call |-> "changed", session |-> s, user |-> old, new |-> new],
                             [call |-> "removed", session |-> s, user |-> old],
                             [call |-> "added", session |-> s, user |-> new]>>)
            /\ UNCHANGED <<sessions, directory, upset>>

(* Mutant: a session that loses its connection does not start its timer.   *)
UnconnectedForGood(o) == [o EXCEPT !.conn = None]

\* Session::clearConnection, on the Session object o.
Unconnected(o) == [o EXCEPT !.conn = None, !.timer = TRUE]

\* Session::setConnection, on the Session object o, once c is seen to be open.
Connected(o, c) == [o EXCEPT !.conn = c, !.timer = FALSE]

(***************************************************************************)
(* The main thread: connections.                                           *)
(***************************************************************************)

\* Session::maybeSetConnection takes the connection that comes for user u.
Takes(s, u, valid) == session[s].conn = None /\ session[s].user = u /\ valid

\* ConnectionManager::connectionMaybeSet after a failure: the database
\* is asked for a new user.
NotSet(c) == asked' = IF IsOpen(c) THEN Append(asked, [ask |-> "create", conn |-> c]) ELSE asked

\* Where PeerManager::sessions says that a cookie's user is.
Listing(u) == IF u = None THEN "none" ELSE directory[u]

\* ConnectionManager::connectionEstablished: a client connects, with a cookie
\* for user u (or none), and with the user's token or an old one.
Establish(c, u, valid) ==
    /\ phase[c] = "away" /\ \A d \in 1 .. c - 1 : phase[d] # "away"
    /\ UNCHANGED <<owes, main, record, sessions, directory, abroad, closed, upset>>
    /\ \/ /\ Listing(u) = "here" /\ sessions[u] \notin Sess
          /\ phase' = [phase EXCEPT ![c] = "open"]
          /\ late' = late \cup {c}
          /\ UNCHANGED <<bound, session, inbox, asked, crashed>>
       \/ /\ Listing(u) = "here" /\ sessions[u] \in Sess \ Live
          /\ crashed' = TRUE
          /\ UNCHANGED <<connections, session, inbox, asked, late>>
       \/ /\ Listing(u) = "here" /\ sessions[u] \in Live
          /\ phase' = [phase EXCEPT ![c] = "open"]
          /\ LET s == sessions[u] IN
             \/ /\ InMain(s) /\ Takes(s, u, valid)
                /\ session' = [session EXCEPT ![s] = Connected(@, c)]
                /\ bound' = [bound EXCEPT ![c] = s]
                /\ late' = IF s \in closed THEN late \cup {c} ELSE late
                /\ UNCHANGED <<inbox, asked>>
             \/ /\ InMain(s) /\ ~Takes(s, u, valid)
                /\ asked' = Append(asked, [ask |-> "create", conn |-> c])
                /\ UNCHANGED <<bound, session, inbox, late>>
             \/ /\ ~InMain(s)
                /\ inbox' = [inbox EXCEPT ![s] =
                        Append(@, [call |-> "set", conn |-> c, user |-> u, valid |-> valid])]
                /\ UNCHANGED <<bound, session, asked, late>>
          /\ UNCHANGED crashed
       \/ /\ Listing(u) = "elsewhere"
          /\ phase' = [phase EXCEPT ![c] = "leaving"]
          /\ UNCHANGED <<bound, session, inbox, asked, late, crashed>>
       \/ /\ Listing(u) = "none"
          /\ phase' = [phase EXCEPT ![c] = "open"]
          /\ asked' = Append(asked, [ask |-> "validate", conn |-> c,
                                     user |-> IF valid THEN u ELSE None])
          /\ UNCHANGED <<bound, session, inbox, late, crashed>>

\* Connection::close: the socket is gone, and the session is told.
Disconnect(c) ==
    LET s == bound[c] IN
    /\ IsOpen(c)
    /\ phase' = [phase EXCEPT ![c] = "closed"]
    /\ IF s \in Live /\ InMain(s)
       THEN session' = [session EXCEPT ![s] = Unconnected(@)] /\ UNCHANGED inbox
       ELSE /\ inbox' = IF s \in Live THEN [inbox EXCEPT ![s] = Append(@, [call |-> "clear"])]
                        ELSE inbox
            /\ UNCHANGED session
    /\ UNCHANGED <<bound, owes, main, asked, record, sessions, directory, abroad, events,
                   crashed, closed, upset, late>>

\* The client says that its window is closed.  A socket is closed first; a
\* WebSocket when its end is read.
WindowClosed(c, socket) ==
    LET s == bound[c]
        calls == IF socket THEN <<[call |-> "clear"], [call |-> "shutdown"]>>
                 ELSE <<[call |-> "shutdown"]>>
    IN
    /\ phase[c] \in {"open", "leaving"} /\ s # None
    /\ phase' = [phase EXCEPT ![c] = IF socket THEN "closed" ELSE "bye"]
    /\ IF s \in Live /\ InMain(s)
       THEN /\ session' = IF socket THEN [session EXCEPT ![s] = Unconnected(@)] ELSE session
            /\ Close(s, inbox)
       ELSE /\ inbox' = IF s \in Live THEN [inbox EXCEPT ![s] = @ \o calls] ELSE inbox
            /\ UNCHANGED <<session, owes, main, sessions, directory, crashed, closed, upset>>
    /\ UNCHANGED <<bound, asked, record, abroad, events, late>>

(***************************************************************************)
(* The main thread: sessions.                                              *)
(***************************************************************************)

\* The session created next.
Fresh == CHOOSE s \in Sess : /\ session[s].state = "unborn"
                             /\ \A t \in 1 .. s - 1 : session[t].state # "unborn"

\* Session::Session for user u with connection c (or none), and its entries.
Create(u, c) ==
    /\ session' = [session EXCEPT ![Fresh] =
            [Unborn EXCEPT !.state = "live", !.user = u, !.conn = c, !.timer = (c = None)]]
    /\ sessions' = [sessions EXCEPT ![u] = Fresh]
    /\ SessionAdded(u)
    /\ upset' = IF sessions[u] # None THEN upset \cup {u} ELSE upset

(* Mutant: a connection that was not taken is left as it is.               *)
HandleLeavingUnset(m) ==
    /\ m.call = "unset"
    /\ main' = Tail(main)
    /\ UNCHANGED <<connections, session, inbox, owes, asked, record, sessions, directory,
                   abroad, events, crashed, closed, upset, late>>

HandleUnset(m) ==
    /\ m.call = "unset"
    /\ main' = Tail(main)
    /\ NotSet(m.conn)
    /\ UNCHANGED <<connections, session, inbox, owes, record, sessions, directory,
                   abroad, events, crashed, closed, upset, late>>

\* ConnectionManager::tokenValidated.
HandleToken(m) ==
    /\ m.call = "token"
    /\ main' = Tail(main)
    /\ IF IsOpen(m.conn)
       THEN Create(m.user, m.conn) /\ bound' = [bound EXCEPT ![m.conn] = Fresh]
       ELSE UNCHANGED <<bound, session, sessions, directory, upset>>
    /\ UNCHANGED <<phase, inbox, owes, asked, record, abroad, events, crashed, closed, late>>

HandleClosed(m) ==
    /\ m.call = "closed"
    /\ main' = Tail(main)
    /\ SessionClosed(m.user, inbox)
    /\ UNCHANGED <<connections, session, owes, asked, record, directory, abroad, events,
                   closed, upset, late>>

HandleChanged(m) ==
    /\ m.call = "changed"
    /\ main' = Tail(main)
    /\ SessionChanged(m.session, m.user, m.new)
    /\ UNCHANGED <<connections, session, inbox, owes, asked, record, directory, abroad, events,
                   crashed, closed, late>>

\* The call of a session that has closed or is another user now; somebody
\* else may have brought the entry by then.
HandleRemoved(m) ==
    /\ m.call = "removed"
    /\ main' = Tail(main)
    /\ SessionRemoved(m.user)
    /\ upset' = IF sessions[m.user] # None THEN upset \cup {m.user} ELSE upset
    /\ UNCHANGED <<connections, session, inbox, owes, asked, record, sessions, abroad, events,
                   crashed, closed, late>>

HandleAdded(m) ==
    /\ m.call = "added"
    /\ main' = Tail(main)
    /\ SessionAdded(m.user)
    /\ UNCHANGED <<connections, session, inbox, owes, asked, record, sessions, abroad, events,
                   crashed, closed, upset, late>>

MainStep ==
    /\ main # <<>>
    /\ LET m == Head(main) IN
       \/ HandleUnset(m) \/ HandleToken(m) \/ HandleClosed(m)
       \/ HandleChanged(m) \/ HandleRemoved(m) \/ HandleAdded(m)

\* ConnectionManager::broadcast calls every session in the map.
Broadcast ==
    /\ \E u \in User : sessions[u] # None /\ sessions[u] \notin Live
    /\ crashed' = TRUE
    /\ UNCHANGED <<connections, session, inbox, owes, main, asked, record, sessions, directory,
                   abroad, events, closed, upset, late>>

\* Connection::reconnect, if there is a connection.
ToldToLeave(c) == IF c # None /\ phase[c] = "open" THEN [phase EXCEPT ![c] = "leaving"] ELSE phase

\* PeerManager::sessionAdded for a session of user u on another peer, after a
\* transfer or because the user logs on there: the one here is to reconnect.
AddedElsewhere(u) ==
    LET s == sessions[u] IN
    /\ record[u] # "none" /\ u \notin abroad
    /\ abroad' = abroad \cup {u}
    /\ IF s \in Live /\ InMain(s)
       THEN /\ phase' = ToldToLeave(session[s].conn)
            /\ closed' = closed \cup {s}
            /\ upset' = IF s \in closed THEN upset \cup {u} ELSE upset
            /\ SessionClosed(u, inbox)
            /\ directory' = [directory EXCEPT ![u] = "elsewhere"]
       ELSE /\ inbox' = IF s \in Live THEN [inbox EXCEPT ![s] = Append(@, [call |-> "reconnect"])]
                        ELSE inbox
            /\ crashed' = (s \in Sess \ Live)
            /\ directory' = [directory EXCEPT ![u] = "elsewhere"]
            /\ UNCHANGED <<phase, closed, upset, sessions>>
    /\ UNCHANGED <<bound, session, owes, main, asked, record, late>>

\* PeerManager::sessionRemoved for a session on another peer.
RemovedElsewhere(u) ==
    /\ u \in abroad
    /\ abroad' = abroad \ {u}
    /\ directory' = [directory EXCEPT ![u] = IF @ = "elsewhere" THEN "none" ELSE @]
    /\ UNCHANGED <<connections, session, inbox, owes, main, asked, record, sessions, events,
                   crashed, closed, upset, late>>

\* ConnectionManager::transferSession.
TransferSession(u) ==
    /\ u \in abroad
    /\ Create(u, None)
    /\ UNCHANGED <<connections, inbox, owes, main, asked, record, abroad,
                   crashed, closed, late>>

(***************************************************************************)
(* The thread of a session.                                                *)
(***************************************************************************)

\* The calls left when s takes its first.
Rest(s) == [inbox EXCEPT ![s] = Tail(@)]

\* Session::maybeSetConnection in the thread of an instance: the signals of
\* the connection are connected, and only then is it seen to be open or not.
RunSet(s, m) ==
    /\ m.call = "set"
    /\ inbox' = Rest(s)
    /\ IF Takes(s, m.user, m.valid)
       THEN /\ session' = [session EXCEPT ![s].setting = m.conn]
            /\ bound' = IF IsOpen(m.conn) THEN [bound EXCEPT ![m.conn] = s] ELSE bound
            /\ late' = IF s \in closed THEN late \cup {m.conn} ELSE late
            /\ UNCHANGED main
       ELSE /\ main' = Append(main, [call |-> "unset", conn |-> m.conn])
            /\ UNCHANGED <<bound, session, late>>
    /\ UNCHANGED <<phase, owes, sessions, directory, crashed, closed, upset>>

RunClear(s, m) ==
    /\ m.call = "clear"
    /\ inbox' = Rest(s)
    /\ session' = [session EXCEPT ![s] = Unconnected(@)]
    /\ late' = IF session[s].conn # None /\ IsOpen(session[s].conn)
               THEN late \cup {session[s].conn} ELSE late
    /\ UNCHANGED <<connections, owes, main, sessions, directory, crashed, closed, upset>>

\* Session::shutdown, and Session::reconnect.  The slot is still connected to
\* every connection the session has had: the window that is closed may be that
\* of an earlier one.
RunClose(s, m) ==
    /\ m.call \in {"shutdown", "reconnect"}
    /\ phase' = IF m.call = "reconnect" THEN ToldToLeave(session[s].conn) ELSE phase
    /\ Close(s, Rest(s))
    /\ late' = IF session[s].conn # None /\ phase'[session[s].conn] = "open"
               THEN late \cup {session[s].conn} ELSE late
    /\ UNCHANGED <<bound, session>>

RunUser(s, m) ==
    /\ m.call = "user"
    /\ UserChanged(s, m.user, Rest(s))
    /\ UNCHANGED <<connections, crashed, closed, late>>

\* Session::~Session: what is still waiting is dropped.
RunDelete(s, m) ==
    /\ m.call = "delete"
    /\ session' = [session EXCEPT ![s].state = "gone", ![s].conn = None, ![s].timer = FALSE]
    /\ inbox' = [inbox EXCEPT ![s] = <<>>]
    /\ late' = late \cup {c \in Conn : \E i \in DOMAIN inbox[s] :
                            inbox[s][i].call = "set" /\ inbox[s][i].conn = c}
    /\ UNCHANGED <<connections, owes, main, sessions, directory, crashed, closed, upset>>

Run(s) ==
    /\ Idle(s) /\ inbox[s] # <<>>
    /\ LET m == Head(inbox[s]) IN
       RunSet(s, m) \/ RunClear(s, m) \/ RunClose(s, m) \/ RunUser(s, m) \/ RunDelete(s, m)
    /\ UNCHANGED <<asked, record, abroad, events>>

\* The rest of Session::setConnection.
FinishSetting(s) ==
    LET c == session[s].setting IN
    /\ c # None
    /\ session' = [session EXCEPT ![s] =
            IF IsOpen(c) THEN [Connected(@, c) EXCEPT !.setting = None]
            ELSE [@ EXCEPT !.setting = None]]
    /\ UNCHANGED <<connections, inbox, owes, main, asked, record, sessions, directory, abroad,
                   events, crashed, closed, upset, late>>

\* The next call of several to the main thread.
Tell(s) ==
    /\ owes[s] # <<>>
    /\ TellMain(s, owes[s])
    /\ UNCHANGED <<connections, session, inbox, asked, record, sessions, directory, abroad,
                   events, crashed, closed, upset, late>>

\* The close timer.  Five minutes are longer than any call waits, and the
\* timer goes on while the session lasts.
TimeOut(s) ==
    /\ session[s].timer /\ Quiet
    /\ Close(s, inbox)
    /\ UNCHANGED <<connections, session, asked, record, abroad, events, late>>

\* Session::continueMovingToZone takes the session to the thread of an instance.
Enter(s) ==
    /\ s \in Live /\ InMain(s)
    /\ session' = [session EXCEPT ![s].home = "scene"]
    /\ UNCHANGED <<connections, inbox, owes, main, asked, record, sessions, directory, abroad,
                   events, crashed, closed, upset, late>>

\* The user asks to log on to account u (LogonDialog::logon) or off (Session::logoff).
Log(s) ==
    /\ Idle(s) /\ session[s].conn # None
    /\ asked' = Append(asked, [ask |-> "log", session |-> s, user |-> session[s].user])
    /\ UNCHANGED <<connections, session, inbox, owes, main, record, sessions, directory, abroad,
                   crashed, closed, upset, late>>

(***************************************************************************)
(* The database thread (db/UserRepository.cpp).                            *)
(***************************************************************************)

\* A row of its own for a new user, which is a guest.
NewUser == CHOOSE u \in User : /\ record[u] = "none"
                               /\ \A v \in 1 .. u - 1 : record[v] # "none"

(* Mutant: whoever names no user is taken at his word.                     *)
VouchedUnnamed(r) ==
    r.ask = "validate" /\ (r.user # None => record[r.user] # "deleted")

\* The token of a request is that of a user on record.
Vouched(r) == r.ask = "validate" /\ r.user # None /\ record[r.user] # "deleted"

\* UserRepository::createUser and validateSessionToken for a connection.
AnswerConnection(r) ==
    /\ r.ask \in {"create", "validate"}
    /\ \/ /\ Vouched(r)
          /\ main' = Append(main, [call |-> "token", conn |-> r.conn, user |-> r.user])
          /\ UNCHANGED record
       \/ /\ ~Vouched(r)
          /\ main' = Append(main, [call |-> "token", conn |-> r.conn, user |-> NewUser])
          /\ record' = [record EXCEPT ![NewUser] = "guest"]
    /\ UNCHANGED inbox

\* UserRepository::validateLogon and logon for an account, updateUser for a
\* guest who becomes one, createUser for a user who logs off.
AnswerSession(r) ==
    /\ r.ask = "log"
    /\ \E u \in User :
        /\ \/ /\ record[u] = "account" /\ u # r.user
              /\ record' = IF record[r.user] = "guest" THEN [record EXCEPT ![r.user] = "deleted"]
                           ELSE record
           \/ /\ u = r.user
              /\ record' = [record EXCEPT ![u] = IF @ = "guest" THEN "account" ELSE @]
           \/ /\ u = NewUser
              /\ record' = [record EXCEPT ![u] = "guest"]
        /\ inbox' = IF r.session \in Live
                    THEN [inbox EXCEPT ![r.session] = Append(@, [call |-> "user", user |-> u])]
                    ELSE inbox
    /\ UNCHANGED main

Answer ==
    /\ asked # <<>>
    /\ asked' = Tail(asked)
    /\ AnswerConnection(Head(asked)) \/ AnswerSession(Head(asked))
    /\ UNCHANGED <<connections, session, owes, sessions, directory, abroad, events,
                   crashed, closed, upset, late>>

\* The users that a cookie may name.
OnRecord == {u \in User : record[u] # "none"}

\* What clients and other peers do: MaxEvents times in all, and no more, to
\* bound the runs, when entries have been mixed up.
Outside ==
    /\ upset = {} /\ events < MaxEvents
    /\ events' = events + 1
    /\ \/ \E c \in Conn, u \in OnRecord \cup {None}, valid \in BOOLEAN : Establish(c, u, valid)
       \/ \E s \in Sess : Log(s)
       \/ \E u \in User : AddedElsewhere(u) \/ TransferSession(u)

Next ==
    /\ ~crashed
    /\ \/ Outside
       \/ \E c \in Conn : Disconnect(c)
       \/ upset = {} /\ \E c \in Conn, socket \in BOOLEAN : WindowClosed(c, socket)
       \/ \E s \in Sess : Run(s) \/ FinishSetting(s) \/ Tell(s) \/ TimeOut(s) \/ Enter(s)
       \/ \E u \in User : RemovedElsewhere(u)
       \/ MainStep \/ Answer \/ Broadcast

Spec == Init /\ [][Next]_vars

(***************************************************************************)
(* Properties.                                                             *)
(***************************************************************************)

SessCall ==
    [call : {"clear", "shutdown", "reconnect", "delete"}]
        \cup [call : {"set"}, conn : Conn, user : User, valid : BOOLEAN]
        \cup [call : {"user"}, user : User]
MainCall ==
    [call : {"unset"}, conn : Conn]
        \cup [call : {"token"}, conn : Conn, user : User]
        \cup [call : {"closed", "removed", "added"}, session : Sess, user : User]
        \cup [call : {"changed"}, session : Sess, user : User, new : User]
Ask ==
    [ask : {"create"}, conn : Conn]
        \cup [ask : {"validate"}, conn : Conn, user : User \cup {None}]
        \cup [ask : {"log"}, session : Sess, user : User]

(* Everything is of its type: a call is only made with the arguments its   *)
(* handler takes, and only one that is addressed to its object.            *)
TypeOK ==
    /\ phase \in [Conn -> {"away", "open", "leaving", "bye", "closed"}]
    /\ bound \in [Conn -> Sess \cup {None}]
    /\ session \in [Sess -> [state : {"unborn", "live", "gone"}, home : {"main", "scene"},
                             user : User \cup {None}, conn : Conn \cup {None},
                             timer : BOOLEAN, setting : Conn \cup {None}]]
    /\ inbox \in [Sess -> Seq(SessCall)]
    /\ owes \in [Sess -> Seq(MainCall)]
    /\ main \in Seq(MainCall)
    /\ asked \in Seq(Ask)
    /\ record \in [User -> {"none", "guest", "account", "deleted"}]
    /\ sessions \in [User -> Sess \cup {None, Null}]
    /\ directory \in [User -> {"none", "here", "elsewhere"}]
    /\ abroad \subseteq User
    /\ events \in 0 .. MaxEvents
    /\ crashed \in BOOLEAN
    /\ closed \subseteq Sess /\ upset \subseteq User /\ late \subseteq Conn

(* A session that has not closed is the one the map finds for its user,    *)
(* and what the map finds is a session of that user: unless two sessions   *)
(* were started for one user, or one that was closing became another's     *)
(* (ConnectionManager.h: "The set of active sessions, mapped by user id"). *)
Registered ==
    main = <<>> =>
        /\ \A s \in Live \ closed :
            session[s].user \in upset \/ sessions[session[s].user] = s
        /\ \A u \in User \ upset :
            sessions[u] # None => sessions[u] \in Live /\ session[sessions[u]].user = u

(* What the peer lists as here in the directory is a session that is here; *)
(* and a session that is here is listed, unless it has been told to        *)
(* reconnect or is closing (the map of the ConnectionManager and that of   *)
(* the PeerManager are changed by separate calls).                         *)
Listed ==
    (main = <<>> /\ \A s \in Sess : owes[s] = <<>>) =>
        \A u \in User \ upset :
            /\ directory[u] = "here" => sessions[u] \in Live
            /\ sessions[u] \in Live /\ directory[u] # "here" =>
                \E i \in DOMAIN inbox[sessions[u]] : inbox[sessions[u]][i].call = "reconnect"

(* Nothing uses a session that is not there, before entries have been      *)
(* mixed up: no call finds a null pointer or an object that is freed.      *)
Survives == crashed => upset # {}

(* When all is quiet, every open connection has its session: it has been   *)
(* taken by a session that has not closed and that has it as its           *)
(* connection.  Lost are only those that came for a session on its way     *)
(* out, those that the end of an earlier connection took from their        *)
(* session, and those of users whose entries have been mixed up.           *)
Served ==
    Quiet => \A c \in Conn \ late :
        phase[c] = "open" =>
            /\ bound[c] # None
            /\ LET s == bound[c] IN
               session[s].user \in upset \/ (s \in Live \ closed /\ session[s].conn = c)

(* When all is quiet no session is left over: one that has closed is gone, *)
(* and one that has lost its connection has its timer running, which will  *)
(* close it; users whose entries have been mixed up may leave one behind.  *)
NoStrays ==
    Quiet => \A s \in Live :
        session[s].user \notin upset =>
            /\ s \notin closed
            /\ session[s].timer \/ (session[s].conn # None /\ IsOpen(session[s].conn))
=============================================================================
