----------------------------- MODULE MCSettings -----------------------------
(***************************************************************************)
(* Two long words do not fit into the first line together; one of them is  *)
(* long enough for a password.  The broken word is long enough, but what   *)
(* comes before its line feed is not.                                      *)
(***************************************************************************)
EXTENDS Settings

CONSTANTS short, long, broken, m1, m2, m3, d1, d2

MCLength == [w \in Words |-> IF w = NoWord THEN 0 ELSE IF w = short THEN 4 ELSE 9]

MCFirstLine == [w \in Words |-> IF w = broken THEN short ELSE w]
MCUnbroken == [w \in Words |-> w]

Text(w) == [word |-> w, padded |-> FALSE]
Blanks(w) == [word |-> w, padded |-> TRUE]

Off == [enabled |-> FALSE, host |-> Blanks(NoWord), username |-> Empty, password |-> Empty]
On == [enabled |-> TRUE, host |-> Blanks(short), username |-> Blanks(short), password |-> Blanks(short)]

Form(s, sec, p, r, m) ==
  [wifi |-> [ssid |-> s, security |-> sec, password |-> p], retention |-> r, poll |-> 2, mqtt |-> m]

\* An open network with a password and a line feed in its name, good WPA2 ones,
\* one with too short a password, brokers without a host, without a user name
\* and with a line feed, a line feed in a password.
MCForms ==
  { Form(Text(broken), "open", Text(long), 9, Off),
    Form(Text(short), "wpa2", Blanks(long), 0, On),
    Form(Text(long), "wpa2", Text(long), 2, Off),
    Form(Text(short), "wpa2", Text(short), 2, Off),
    Form(Text(short), "open", Empty, 2, [Off EXCEPT !.enabled = TRUE]),
    Form(Text(short), "open", Empty, 2, [On EXCEPT !.username = Empty]),
    Form(Text(short), "open", Empty, 2, [On EXCEPT !.host = Text(broken)]),
    Form(Text(short), "wpa2", Text(broken), 9, Off) }

MCTyped == {Blanks(NoWord), Blanks(short)}

\* Too many MACs, twice the same and a bad one; names without and with a
\* sensor named twice; values out of range; sections missing; a password that
\* is too short.
MCEdits ==
  { [wifi |-> [ssid |-> Blanks(NoWord), security |-> "open", password |-> Blanks(short)],
     allowed |-> <<m1, BadMac, m2>>, retention |-> -1, poll |-> 9, mqtt |-> Absent,
     names |-> <<[id |-> d1, name |-> Blanks(NoWord)], [id |-> d2, name |-> Blanks(short)]>>],
    [wifi |-> Absent, allowed |-> <<m1, m1, m2>>, retention |-> Absent, poll |-> Absent, mqtt |-> On,
     names |-> <<[id |-> d1, name |-> Text(short)], [id |-> d1, name |-> Text(long)]>>],
    [NoContents EXCEPT !.wifi = [ssid |-> Text(short), security |-> "wpa2", password |-> Text(short)]] }
=============================================================================
