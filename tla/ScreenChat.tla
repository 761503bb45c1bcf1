----------------------------- MODULE ScreenChat -----------------------------
(* The chat window, the entry below it with its history and its modes, and *)
(* the commands typed into it (chat/ChatWindow.cpp, chat/ChatCommands.cpp).*)
(* Names of commands are cut to the letters that tell them apart; a line   *)
(* is short enough not to be broken.  What a command asks of other parts   *)
(* of the server is left to them.                                          *)
EXTENDS ScreenForms

CONSTANT MaxHistory     \* 10 in the code

Chat == <<2, 0>>
Entry == <<3, 0>>
EntryLabel == <<3, 1>>
EntryField == <<3, 2>>

(***************************************************************************)
(* The lines.                                                              *)
(***************************************************************************)
NewChatWindow ==
    [FreshWindow("chat", 1, FALSE, FALSE) EXCEPT
        !.back = Nothing, !.layout = BoxLayout("v", TRUE, FALSE, "center", "end", 0)]

\* ChatWindow::display: the oldest lines go when there are too many.  A number
\* is free again once its line is gone.
RECURSIVE Trim(_)
Trim(u) ==
    LET c == u.comp[Chat] IN
    IF Len(c.children) > Inner(c.bounds, c.margins).h THEN Trim(RemoveOldest(u, Chat)) ELSE u
Display(u, line) ==
    LET free == {n \in 1 .. Len(u.comp[Chat].children) + 1 : <<Chat[1], n>> \notin DOMAIN u.comp}
    IN  Trim(AddChild(u, Chat, Min(free), NewLabel(line, "left")))
Clear(u) == FoldLeft(LAMBDA v, d : RemoveOldest(v, Chat), u, u.comp[Chat].children)

(***************************************************************************)
(* The entry.                                                              *)
(***************************************************************************)
NewEntryParts ==
    Parts(Entry[1], [FreshWindow("entry", 1, FALSE, FALSE) EXCEPT
                        !.layout = BoxLayout("h", TRUE, FALSE, "center", "center", 1),
                        !.visible = FALSE],
          <<In(0, [Caption("S") EXCEPT !.fixed = TRUE]),
            In(0, Entered(Field(<< >>, MaxLength, "any", <<Do("exitHistory")>>), Do("submit")))>>)

\* A command used before is moved to the end.
AddToHistory(u, line) ==
    LET others == SelectSeq(u.history, LAMBDA h : h # line)
        all == Append(others, line)
    IN  [u EXCEPT !.history = IF Len(all) > MaxHistory THEN Tail(all) ELSE all]

SetMode(u, ch, prefix, matching) ==
    [SetText(u, EntryLabel, Plain(<<ch>>, 0)) EXCEPT
        !.prefix = prefix, !.comp[EntryField].matching = matching]
ClearMode(u) == SetMode(u, "S", << >>, FALSE)

\* When it goes, what was typed before the history was gone through comes back.
ShowEntry(u, visible) ==
    IF u.comp[Entry].visible = visible THEN u
    ELSE Then(SetWindowVisible(u, Entry, visible), LAMBDA v :
         IF visible THEN RequestFocus(v, EntryField)
         ELSE Then(IF v.historyIdx = -1 THEN v ELSE SetFieldText(v, EntryField, v.stored),
                   LAMBDA restored : ClearMode([restored EXCEPT !.historyIdx = -1])))

\* Up and Down.  (setText does not say that the text has changed.)
Older(u) ==
    LET begins == u.historyIdx = -1
        to == (IF begins THEN Len(u.history) ELSE u.historyIdx) - 1
        v == IF begins THEN [u EXCEPT !.stored = u.comp[EntryField].text] ELSE u
    IN  IF to < 0 THEN u
        ELSE [SetFieldText(v, EntryField, u.history[to + 1]) EXCEPT !.historyIdx = to]
Newer(u) ==
    LET to == u.historyIdx + 1
        ends == to = Len(u.history)
    IN  IF u.historyIdx = -1 THEN u
        ELSE [SetFieldText(u, EntryField, IF ends THEN u.stored ELSE u.history[to + 1])
                EXCEPT !.historyIdx = IF ends THEN -1 ELSE to]

(***************************************************************************)
(* The commands.                                                           *)
(***************************************************************************)
Command(name, aliases, admin) == [name |-> name, aliases |-> aliases, admin |-> admin]
Commands == {
    Command("help", {<<"h">>, <<"?">>}, FALSE), Command("clear", {<<"c">>}, FALSE),
    Command("bug", {<<"b", "u">>}, FALSE), Command("say", {<<"s", "a">>}, FALSE),
    Command("emote", {<<"e", "m">>, <<"m", "e">>}, FALSE),
    Command("shout", {<<"s", "h">>}, FALSE), Command("tell", {<<"t">>}, FALSE),
    Command("respond", {<<"r", "e", "s">>}, FALSE), Command("mute", {<<"m", "u">>}, FALSE),
    Command("unmute", {<<"u", "n">>}, FALSE), Command("broadcast", {<<"b", "r">>}, TRUE),
    Command("reboot", {<<"r", "e", "b">>}, TRUE), Command("sgo", {<<"s", "g">>}, TRUE),
    Command("zgo", {<<"z">>}, TRUE), Command("pgo", {<<"p">>}, TRUE),
    Command("summon", {<<"s", "u">>}, TRUE), Command("spawn", {<<"s", "p">>}, TRUE),
    Command("eval", {<<"e", "v">>}, TRUE), Command("upload", {<<"u", "p">>}, TRUE),
    Command("input", {<<"i">>}, TRUE)}

\* getCommand: the one called so, or else the only one whose name begins so.
GetCommand(u, word) ==
    LET open == {c \in Commands : c.admin => u.user.admin}
        named == UNION {{[alias |-> a, name |-> c.name] : a \in c.aliases} : c \in open}
        near == {p \in named : IsPrefix(word, p.alias)}
        exact == {p \in near : p.alias = word}
        found == IF exact # {} THEN exact ELSE near
        names == {p.name : p \in found}
        pair == CHOOSE p \in found : TRUE
    IN  IF Cardinality(names) = 1 THEN [u |-> u, name |-> pair.name, alias |-> pair.alias]
        ELSE [u |-> Display(u, <<IF names = {} THEN "unknown" ELSE "ambiguous">>),
              name |-> "none", alias |-> word]

\* The word a text begins with, and what follows the space after it.
FirstWord(text) ==
    LET at == SelectInSeq(text, LAMBDA ch : ch = " ")
    IN  IF at = 0 THEN [word |-> text, rest |-> << >>]
        ELSE [word |-> SubSeq(text, 1, at - 1), rest |-> SubSeq(text, at + 1, Len(text))]

HandleTell(u, slash, args) ==
    LET to == FirstWord(args)
        named == slash \o <<" ">> \o to.word
        plain == AddToHistory(u, Append(slash, " "))
        personal == AddToHistory(u, Append(named, " "))
    IN  IF args = << >> \/ (to.rest # << >> /\ to.word = u.user.name)
        THEN Display(plain, <<IF args = << >> THEN "usage" ELSE "yourself">>)
        ELSE IF to.rest = << >> THEN SetMode(personal, "T", named, FALSE)
        ELSE personal

HandleHelp(other) == IF other.name = "none" THEN other.u ELSE Display(other.u, <<"usage">>)

\* ChatCommand::handle and the handlers: each is remembered; without anything
\* after it, it switches the mode, or says how it is used.
Modes == [eval |-> "E", broadcast |-> "B", input |-> "I", respond |-> "R"]
Replies(u, name, args) ==
    LET bare == args = << >> IN
    CASE name = "help" /\ bare -> <<"commands">>
      [] name = "respond" /\ ~bare /\ u.sender = << >> -> <<"nobody">>
      [] name = "bug" /\ ~bare -> <<"thanks">>
      [] name = "reboot" /\ bare -> <<"canceled">>
      [] name = "reboot" /\ ~bare ->
            <<IF Range(FirstWord(args).word) \subseteq Digits THEN "scheduled" ELSE "usage">>
      [] name \notin DOMAIN Modes \cup {"help", "say", "reboot"} /\ bare -> <<"usage">>
      [] OTHER -> << >>
HandleCommand(u, name, alias, args) ==
    LET slash == <<"/">> \o alias
        used == AddToHistory(u, IF name \in {"clear", "upload"} THEN slash ELSE Append(slash, " "))
        bare == args = << >>
        reply == Replies(u, name, args)
    IN  CASE name = "clear" -> Clear(used)
          [] name = "upload" -> used
          [] name = "tell" -> HandleTell(u, slash, args)
          [] name = "help" /\ ~bare -> HandleHelp(GetCommand(used, args))
          [] name = "say" /\ bare -> ClearMode(used)
          [] name \in DOMAIN Modes /\ bare -> SetMode(used, Modes[name], slash, name = "eval")
          [] OTHER -> IF reply = << >> THEN used ELSE Display(used, reply)

\* What is not a command is said, or is what the mode makes of it.
Submitted(u, text) ==
    LET line == IF Head(text) = "/" THEN text ELSE u.prefix \o <<" ">> \o text
        split == FirstWord(Tail(line))
        handled(found) == IF found.name = "none" THEN found.u
                          ELSE HandleCommand(found.u, found.name, found.alias, split.rest)
    IN  IF (Head(text) # "/" /\ u.prefix = << >>) \/ split.word = << >> THEN u
        ELSE Then(GetCommand(u, split.word), handled)
MaybeSubmit(u) ==
    LET text == Simplified(u.comp[EntryField].text) IN
    Then(SetFieldText(u, EntryField, << >>), LAMBDA v :
         IF text = << >> THEN ShowEntry(v, FALSE)
         ELSE Submitted([v EXCEPT !.historyIdx = -1], text))

\* What is heard: from a scene, from everyone, or from somebody who tells.
Hear(u, line, sender) ==
    Display(IF sender = << >> THEN u ELSE [u EXCEPT !.sender = sender], line)

\* ChatEntryWindowDevice::canReadLine, when a script waits for a line and there
\* is none.
AskForLine(u) == SetMode(ShowEntry(u, TRUE), "I", <<"/", "i">>, FALSE)

=============================================================================
