----------------------------- MODULE ScreenForms -----------------------------
(* The two forms that hide what is typed from listeners: the one to log on *)
(* or to make an account with, and the settings (LogonDialog.cpp,          *)
(* SettingsDialog.cpp; Window.cpp EncryptedWindow).  What is asked of the  *)
(* database waits in u.asked until Desktop answers.                        *)
EXTENDS ScreenDialogs

Secret(field) == [field EXCEPT !.secret = TRUE]
Hinted(field, ch) == [field EXCEPT !.hint = <<ch>>]
AtTheRight(field) == [field EXCEPT !.right = TRUE]

\* flashStatus, and the end of SettingsDialog::apply.
FlashStatus(u, w, status, ch) ==
    Packed(SetStatus(SetShown(u, status, TRUE), status, <<ch>>), w)

(***************************************************************************)
(* LogonDialog.                                                            *)
(***************************************************************************)
Form == [label |-> 1, username |-> 4, password |-> 6, confirm |-> 8, email |-> 12,
         status |-> 13, cancel |-> 16, toggle |-> 17, logon |-> 18,
         forgotName |-> 20, forgotPassword |-> 21, stay |-> 23,
         month |-> 24, day |-> 26, year |-> 28]
ForAccounts == <<7, 8, 9, 10, 11, 12>>     \* all after the fourth child

LogonParts(name, stay) ==
    LET watched(field) == [field EXCEPT !.slots.changed = <<Do("updateLogon")>>]
        secret == watched(Secret(Field(<< >>, MaxLength, "any", << >>)))
        part(ch) == [Hinted(AtTheRight(watched(
                         NewField(PartLength + 1, << >>, PartLength, "digits"))), ch)
                        EXCEPT !.slots.full = <<Do("transfer")>>]
        table == NewContainer(TableLayout(2, {1}))
        button(ch, slot) == NewButton(Word(ch), <<slot>>)
    IN  <<In(0, NewLabel(<< >>, "center")), In(0, table),
          In(2, Caption("u")), In(2, watched(Field(name, MaxLength, "name", << >>))),
          In(2, Caption("p")), In(2, secret),
          In(2, Caption("c")), In(2, secret),
          In(2, Caption("d")), In(2, Row(1)),
          In(2, Caption("e")),
          In(2, Entered(watched(Field(<< >>, MaxLength, "email", << >>)), PressSlot(Form.logon))),
          In(0, NewStatus),
          In(0, NewContainer(VBox(0))), In(14, Row(2)),
          In(15, button("c", Do("delete"))),
          In(15, NewButton([text |-> << >>, mark |-> 0], <<Do("toggleCreate")>>)),
          In(15, button("l", Do("logon"))),
          In(14, Row(2)), In(19, button("n", Do("forgot"))), In(19, button("p", Do("forgot"))),
          In(0, Row(2)), In(22, NewCheckBox(Word("s"), stay)),
          In(10, part("m")), In(10, Caption("/")), In(10, part("d")), In(10, Caption("/")),
          In(10, part("y"))>>

\* A date is whole once each part of it has a digit.
UpdateLogon(u, n) ==
    LET text(number) == u.comp[<<n, number>>].text
        known == /\ ~u.comp[<<n, 0>>].blocked
                 /\ Full("name", text(Form.username))
                 /\ Full("password", text(Form.password))
        complete == /\ Full("password", text(Form.confirm))
                    /\ \A p \in {Form.month, Form.day, Form.year} : text(p) # << >>
                    /\ text(Form.email) = << >> \/ Full("email", text(Form.email))
    IN  SetEnabled(u, <<n, Form.logon>>, known /\ (u.comp[<<n, 0>>].createMode => complete))

\* The form shows what its mode needs, the status goes, the first field has the
\* focus.
Worded(u, n, createMode) ==
    SetLabel(
        SetLabel(SetText(u, <<n, Form.label>>, Plain(<<IF createMode THEN "D" ELSE "E">>, 0)),
                 <<n, Form.toggle>>, Word(IF createMode THEN "h" ELSE "a")),
        <<n, Form.logon>>, Word(IF createMode THEN "c" ELSE "l"))
ShowAll(u, n, numbers, visible(_)) ==
    FoldLeft(LAMBDA v, i : SetShown(v, <<n, i>>, visible(i)), u, numbers)
SetCreateMode(u, n, createMode) ==
    LET v == [u EXCEPT !.comp[<<n, 0>>].createMode = createMode,
                       !.comp[<<n, Form.password>>].slots.entered =
                           IF createMode THEN SelectSeq(@, LAMBDA s : s.does # "press")
                           ELSE Append(@, PressSlot(Form.logon))]
    IN  Packed(UpdateLogon(RequestFocus(
            ShowAll(Worded(v, n, createMode), n,
                    ForAccounts \o <<Form.status, Form.forgotName, Form.forgotPassword>>,
                    LAMBDA i : IF i \in Range(ForAccounts) THEN createMode
                               ELSE i # Form.status /\ ~createMode),
            <<n, Form.username>>), n), <<n, 0>>)

\* Whether one may also go without an account.
MayLeave(u, n, everyone) ==
    ShowAll([u EXCEPT !.comp[<<n, 0>>].escapes = everyone], n, <<Form.cancel, Form.toggle>>,
            LAMBDA i : everyone)
UpdateForce(u, n, everyone) ==
    Then(MayLeave(u, n, everyone), LAMBDA v :
         Packed(IF v.comp[<<n, 0>>].createMode /\ ~everyone
                THEN SetCreateMode(v, n, FALSE) ELSE v, <<n, 0>>))

\* The constructor; only a form for everyone begins with an account to be made.
LogonForm(name, stay) ==
    [Dialog("logon", Column(1), FrameBorder, LogonParts(name, stay))
        EXCEPT !.preferred = <<FormWidth, -1>>, !.secret = TRUE]
LogonDialog(u) ==
    LET username == IF u.connected THEN u.cookies.name ELSE << >>
    IN  LogonForm(IF username = << >> THEN u.user.name ELSE username,
                  u.connected /\ u.cookies.stay)
Constructed(u, n) ==
    Packed(MayLeave(SetCreateMode(u, n, u.everyone /\ ~(u.connected /\ u.cookies.name # << >>)),
                    n, u.everyone), <<n, 0>>)

\* logon: while an answer is awaited the button is disabled.
Block(u, n) ==
    SetEnabled([u EXCEPT !.comp[<<n, 0>>].blocked = TRUE], <<n, Form.logon>>, FALSE)
Flashed(u, n, ch, focus) ==
    RequestFocus(FlashStatus(u, <<n, 0>>, <<n, Form.status>>, ch), <<n, focus>>)
Logon(u, n) ==
    LET create == u.comp[<<n, 0>>].createMode
        differ == u.comp[<<n, Form.password>>].text # u.comp[<<n, Form.confirm>>].text
    IN  Then(IF create /\ differ THEN u ELSE Block(u, n), LAMBDA v :
             IF create /\ (differ \/ u.young)
             THEN Flashed(v, n, IF differ THEN "x" ELSE "y",
                          IF differ THEN Form.password ELSE Form.cancel)
             ELSE Ask(v, IF create THEN "create" ELSE "logon", <<n, 0>>))

Unblock(u, n) == UpdateLogon([u EXCEPT !.comp[<<n, 0>>].blocked = FALSE], n)

\* MainWindow::updateTitle, of a session in no instance.
Title(user) == Plain(IF user.guest THEN Append(user.name, "?") ELSE user.name, 0)
UpdateTitle(u) == SetBorder(u, <<1, 0>>, TitledBorder(Title(u.user)))

SetCookie(u, name, value) == Send(u, <<[say |-> "cookie", name |-> name, value |-> value]>>)

\* Session::userChanged, as far as its windows and its client go.
UserChanged(u, user) ==
    LET v == [u EXCEPT !.user = user]
    IN  UpdateTitle(SetCookie(SetCookie(v, "userId", user.name), "sessionToken", user.name))

LoggedOn(u, user, stay) ==
    UserChanged(SetCookie(SetCookie([u EXCEPT !.user = user], "username", user.name),
                          "stay_logged_in", stay), user)

LoggedOff(u, guest) ==
    Then(UserChanged(u, guest), LAMBDA v :
         IF v.everyone THEN v ELSE Call(v, None, Do("logonDialog")))

\* The answers to the form: userMaybeUpdated, logonMaybeValidated, and those
\* that end in flashStatus.  A ban, or a closed server, leaves the form blocked.
Welcomed(u, n) ==
    DeleteLater(LoggedOn(u, [name |-> u.comp[<<n, Form.username>>].text, guest |-> FALSE,
                             admin |-> FALSE],
                         u.comp[<<n, Form.stay>>].selected), <<n, 0>>)
Refusals == [taken |-> Form.username, noSuchUser |-> Form.username,
             wrongPassword |-> Form.password]
Replied(u, n, result) ==
    CASE result \in DOMAIN Refusals -> Unblock(Flashed(u, n, result, Refusals[result]), n)
      [] result \in {"banned", "mailed"} -> FlashStatus(u, <<n, 0>>, <<n, Form.status>>, result)
      [] result = "welcome" -> Welcomed(u, n)

(***************************************************************************)
(* SettingsDialog.                                                         *)
(***************************************************************************)
Settings == [password |-> 3, confirm |-> 5, email |-> 7, avatar |-> 9,
             status |-> 10, apply |-> 13, ok |-> 14]

SettingsDialog ==
    LET field(limit, exp, text) == Field(text, limit, exp, <<Do("updateApply")>>)
        table == Bordered(NewContainer(TableLayout(2, {})), SideBorder)
    IN  [Dialog("settings", Column(1), FrameBorder,
        <<In(0, table),
          In(1, Caption("p")), In(1, Hinted(Secret(field(MaxLength, "any", << >>)), "k")),
          In(1, Caption("c")), In(1, Secret(field(MaxLength, "any", << >>))),
          In(1, Caption("e")), In(1, field(MaxLength, "email", << >>)),
          In(1, Caption("a")), In(1, field(1, "name", <<"a">>)),
          In(0, Hidden(NewStatus)), In(0, Row(2)),
          In(11, NewButton(Word("c"), <<Do("delete")>>)),
          In(11, NewButton(Word("a"), <<Do("apply")>>)),
          In(11, NewButton(Word("o"), <<Do("apply"), Do("delete")>>))>>) EXCEPT !.secret = TRUE]

UpdateApply(u, n) ==
    LET text(number) == u.comp[<<n, number>>].text
        enable == /\ text(Settings.password) = << >> \/ Full("password", text(Settings.password))
                  /\ text(Settings.confirm) = text(Settings.password)
                  /\ text(Settings.email) = << >> \/ Full("email", text(Settings.email))
                  /\ text(Settings.avatar) # << >>
    IN  SetEnabled(SetEnabled(u, <<n, Settings.apply>>, enable), <<n, Settings.ok>>, enable)

ApplySettings(u, n) == FlashStatus(u, <<n, 0>>, <<n, Settings.status>>, "u")

=============================================================================
