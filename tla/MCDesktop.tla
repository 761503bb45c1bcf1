----------------------------- MODULE MCDesktop -----------------------------
(* Ways to come to a session, each with the keys and clicks that matter    *)
(* there.                                                                  *)
EXTENDS Desktop

MCLetters == {"a", "b", "c", "e", "g", "h", "i", "l", "m", "n", "o", "p", "q", "r", "s", "t",
              "u", "v", "z", "y"}
MCDigits == {"1", "2"}

Guest == [name |-> <<"g">>, guest |-> TRUE, admin |-> FALSE]
Member == [name |-> <<"m">>, guest |-> FALSE, admin |-> FALSE]
Admin == [name |-> <<"m">>, guest |-> FALSE, admin |-> TRUE]
NoCookies == [name |-> << >>, stay |-> FALSE]

Opening0 ==
    [name |-> "none", size |-> <<14, 9>>, sizes |-> {<<14, 9>>}, user |-> Guest, guest |-> Guest,
     cookies |-> NoCookies, everyone |-> TRUE, young |-> FALSE, history |-> << >>,
     typed |-> << >>, keys |-> {}, clicks |-> {}, lines |-> {}, scripts |-> FALSE,
     policies |-> FALSE]

\* Someone writes to the script they evaluate.
Writing ==
    [Opening0 EXCEPT !.name = "writing", !.user = Admin,
        !.typed = <<"Return", "/", "e", "v", "Return", "(", "a", "(", "b">>,
        !.keys = {")", "a", " ", "Left", "Backspace", "Return", "Up", "Escape"},
        !.lines = {[line |-> <<"x", "y">>, sender |-> << >>]}]

\* Someone changes their mind, word by word.
Editing ==
    [Opening0 EXCEPT !.name = "editing", !.user = Member,
        !.typed = <<"Return", "a", " ", "b">>,
        !.keys = {"Control", "Left", "Right", "z", "y", "a", "Delete", "Home", "End"}]

\* Someone looks for what they said, while others speak.
Talking ==
    [Opening0 EXCEPT !.name = "talking", !.user = Member,
        !.history = <<<<"/", "c">>, <<"b">>>>, !.typed = <<"Return">>,
        !.keys = {"Up", "Down", "Return", "Escape", "/", "t"},
        !.lines = {[line |-> <<"x", "y">>, sender |-> <<"x">>]}, !.scripts = TRUE]

\* A guest goes through the menus, holding a key or not.
Browsing ==
    [Opening0 EXCEPT !.name = "browsing",
        !.keys = {"Alt", "Escape", "t", "l", "Tab", "Return", "F2"}, !.clicks = {<<7, 4>>, <<1, 1>>}]

\* A member chooses a zone.
Choosing ==
    [Opening0 EXCEPT !.name = "choosing", !.user = Member, !.size = <<14, 11>>,
        !.sizes = {<<14, 11>>, <<12, 10>>}, !.typed = <<"Escape", "t", "z">>,
        !.keys = {"b", "Tab", "Down", "Up", "PageDown", "End", "Return", "Escape"},
        !.clicks = {<<6, 2>>, <<5, 5>>, <<10, 7>>}]

\* The server is for members: one must log on.
LoggingOn ==
    [Opening0 EXCEPT !.name = "logging on", !.everyone = FALSE, !.size = <<20, 12>>,
        !.sizes = {<<20, 12>>},
        !.typed = <<"a", "Tab", "b">>,
        !.keys = {"Return", "b", "Tab", "Escape", "Backspace"}, !.policies = TRUE]

\* Somebody makes an account.
Joining ==
    [Opening0 EXCEPT !.name = "joining", !.size = <<20, 14>>,
        !.sizes = {<<20, 14>>},
        !.typed = <<"Escape", "l", "Tab", "b", "Tab", "b", "Tab", "1", "1">>,
        !.keys = {"1", "Tab", "@", "Return", "Left"}]

\* A member leaves, or changes what is set.
Leaving ==
    [Opening0 EXCEPT !.name = "leaving", !.user = Member, !.everyone = FALSE, !.size = <<20, 12>>,
        !.sizes = {<<20, 12>>},
        !.typed = <<"Escape">>, !.keys = {"l", "s", "a", "Tab", "Return", "Escape"}]
MCOpenings ==
    {Writing, Editing, Talking, Browsing, Choosing, LoggingOn, Joining, Leaving}
MCChatPlace == [x |-> 1, up |-> 5, w |-> 8, h |-> 2]
MCEntryPlace == [x |-> 1, up |-> 2, w |-> 10, h |-> 1]
MCZones == {<<<<"a">>, <<"a", "b">>, <<"b">>, <<"c">>>>}

=============================================================================
