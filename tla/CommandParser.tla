---------------------------- MODULE CommandParser ----------------------------
(***************************************************************************)
(* From the text of a message to the handler that it reaches:              *)
(* CommandParser.cpp and the chain of handleIncomingCommand.               *)
(*                                                                         *)
(* A text is its first word, the others by what the parsers can tell of    *)
(* them, and the spaces more than one between words, as if all were at the *)
(* end.  Numbers are within range: stoul and stoll throw for others, which *)
(* resets the board.                                                       *)
(***************************************************************************)
EXTENDS Naturals, Sequences

CONSTANT MaxWords  \* bound on the words after the first; no parser reads a third

ASSUME CommandAssumption == MaxWords \in Nat

\* Words: all digits, the same behind a minus sign, 32 other characters,
\* those that are looked for, any other.
Word == {"digits", "negative", "id", "on", "off", "ON", "OFF", "CONFERMA",
         "log", "notif", "other"}

SetUint == {"/setretention", "/setgraceperiod", "/setretryinterval", "/setmaxretries",
            "/setnetthreshold", "/setaggregatethreshold", "/setanchorinterval"}
SetInt64 == {"/adduser", "/removeuser", "/promoteuser"}
Bare == {"/listusers", "/requests", "/status", "/config", "/help"}

\* The order in which handleIncomingCommand tries the parsers; the members
\* of a set one after the other.
Chain == << {"/closeevent"}, SetInt64, {"/resetusers"}, {"/notify"}, {"/setalarm"},
            {"/setdateformat"}, {"/settimezone"}, SetUint, {"/log"}, {"/dump"},
            {"/resetlog"}, {"/resetnotif"}, {"/resetuserconfig"}, Bare >>

Command == UNION {Chain[i] : i \in DOMAIN Chain}

Text == [head : Command \cup {"/else"},
         words : UNION {[1..n -> Word] : n \in 0..MaxWords},
         spare : 0..2]

isInt64(word) == word \in {"digits", "negative"}

-----------------------------------------------------------------------------
(* The parsers.  What follows the words they read does not matter, except  *)
(* where the whole text is compared.                                       *)

parseCloseEventCommand(words) ==
  /\ Len(words) >= 1 /\ words[1] = "id"
  /\ Len(words) >= 2 => words[2] = "digits"

parseSingleUintCommand(words) == Len(words) >= 1 /\ words[1] = "digits"

parseSingleInt64Command(words) == Len(words) >= 1 /\ isInt64(words[1])

\* Mutant: the confirmation may come with any other words before it.
parseConfirmed_Anywhere(words, spare) == \E i \in DOMAIN words : words[i] = "CONFERMA"

\* parseResetUsersCommand, parseResetLogCommand: exactly this text.
parseConfirmed(words, spare) == words = <<"CONFERMA">> /\ spare = 0

\* parseNotifyCommand, parseSetAlarmCommand: in the case of letters given.
parseSwitch(words, states) == Len(words) >= 2 /\ words[2] \in states

\* The rest of the text, from the second space on, has to be something.
parseSetDateFormatCommand(words, spare) == words # << >> \/ spare = 2

parseSetTimezoneCommand(words) == words # << >>

parseLogCommand(words) == words # << >> => words[1] = "digits"

\* "notif" stands for userconfig as well, "log" for users.
parseDumpCommand(words) ==
  \/ Len(words) >= 2 /\ words[1] = "notif" /\ isInt64(words[2])
  \/ words = <<"log">>

\* parseResetNotifCommand, parseResetUserConfigCommand.
parseResetOf(words) ==
  Len(words) >= 2 /\ words[2] = "CONFERMA" /\ isInt64(words[1])

Parses(command, text) ==
  /\ text.head = command
  /\ CASE command = "/closeevent"    -> parseCloseEventCommand(text.words)
       [] command \in SetUint        -> parseSingleUintCommand(text.words)
       [] command \in SetInt64       -> parseSingleInt64Command(text.words)
       [] command \in {"/resetusers", "/resetlog"} ->
            parseConfirmed(text.words, text.spare)
       [] command = "/notify"        -> parseSwitch(text.words, {"on", "off"})
       [] command = "/setalarm"      -> parseSwitch(text.words, {"ON", "OFF"})
       [] command = "/setdateformat" -> parseSetDateFormatCommand(text.words, text.spare)
       [] command = "/settimezone"   -> parseSetTimezoneCommand(text.words)
       [] command = "/log"           -> parseLogCommand(text.words)
       [] command = "/dump"          -> parseDumpCommand(text.words)
       [] command \in {"/resetnotif", "/resetuserconfig"} -> parseResetOf(text.words)
       [] command \in Bare           -> text.words = << >> /\ text.spare = 0

\* Handlers that begin with requireAdmin.
AdminOnly == {"/closeevent", "/resetusers", "/dump", "/resetlog", "/resetnotif",
              "/resetuserconfig", "/listusers", "/requests"} \cup SetInt64 \cup SetUint

\* The handlers of the first link of the chain that takes the text, less
\* those that turn the sender away; free-form text reaches none.
handleIncomingCommand(text, admin) ==
  LET Taken(i) == {command \in Chain[i] : Parses(command, text)}
      reached == {i \in DOMAIN Chain : \A j \in 1..(i - 1) : Taken(j) = {}}
  IN  UNION {{command \in Taken(i) : command \in AdminOnly => admin} : i \in reached}

-----------------------------------------------------------------------------
(* The commands as docs/commands.md has them: what is written after each.  *)

Documented(command) ==
  CASE command = "/closeevent" -> {<<"id">>, <<"id", "digits">>}
    [] command \in SetUint -> {<<"digits">>}
    [] command \in SetInt64 -> {<<"digits">>, <<"negative">>}
    [] command \in {"/resetusers", "/resetlog"} -> {<<"CONFERMA">>}
    [] command = "/notify" -> Word \X {"on", "off"}
    [] command = "/setalarm" -> Word \X {"ON", "OFF"}
    [] command = "/setdateformat" -> UNION {[1..n -> Word] : n \in 1..MaxWords}
    [] command = "/settimezone" -> {<<word>> : word \in Word}
    [] command = "/log" -> {<< >>, <<"digits">>}
    [] command = "/dump" -> {<<"log">>, <<"notif", "digits">>, <<"notif", "negative">>}
    [] command \in {"/resetnotif", "/resetuserconfig"} ->
         {"digits", "negative"} \X {"CONFERMA"}
    [] command \in Bare -> {<< >>}

ForEveryone == {"/log", "/status", "/config", "/setdateformat", "/settimezone",
                "/notify", "/setalarm", "/help"}

Destructive == {"/resetusers", "/resetlog", "/resetnotif", "/resetuserconfig"}

\* Whatever somebody types: a text as documented reaches the handler of its
\* command, from an admin or if it is for everyone, and no other; what is
\* destructive asks for an admin and for the word CONFERMA where it belongs;
\* and of texts that are not documented, only such reach a handler as begin
\* like one of its command.
ServedAsDocumented(admin) ==
  \A text \in Text :
    LET reached == handleIncomingCommand(text, admin)
        free == admin \/ text.head \in ForEveryone
    IN  /\ reached \subseteq {text.head}
        /\ text.head \in Command => \A form \in Documented(text.head) :
             text.words = form /\ text.spare = 0 =>
               reached = IF free THEN {text.head} ELSE {}
        /\ reached # {} =>
             /\ free
             /\ text.head \in Destructive =>
                  admin /\ \E i \in 1..2 \cap DOMAIN text.words : text.words[i] = "CONFERMA"
             /\ \/ \E form \in Documented(text.head) :
                     Len(form) <= Len(text.words)
                       /\ form = SubSeq(text.words, 1, Len(form))
                \/ text.head = "/setdateformat" /\ text.spare = 2

AdminsServed == ServedAsDocumented(TRUE)
OthersServed == ServedAsDocumented(FALSE)
=============================================================================
