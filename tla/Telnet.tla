------------------------------- MODULE Telnet -------------------------------
(* A Telnet terminal (telnet_session.cpp, telnet_websocket.cpp): the worker   *)
(* takes the input and resize commands of the tab, and reads what the remote  *)
(* sends in pieces of any length, through a parser that keeps its state from  *)
(* one piece to the next.  Bytes are numbers; a whole login or password       *)
(* prompt is one symbol beyond the bytes.                                     *)
EXTENDS Naturals, Sequences, SequencesExt, FiniteSetsExt

CONSTANTS MaxItems,     \* what a remote sends in one session, in items
          MaxTabCommands,  \* commands of the tab in one session
          Heights          \* heights a window of the tab may have

ASSUME TelnetAssumption ==
    /\ MaxItems \in Nat /\ MaxTabCommands \in Nat
    /\ Heights \subseteq Nat /\ Heights # {}

IAC == 255
DONT == 254
DO == 253
WONT == 252
WILL == 251
SB == 250
SE == 240
NAWS == 31
TerminalType == 24
Binary == 0
Echo == 1
Suppress == 3
LoginPrompt == 256
PasswordPrompt == 257
Username == <<85>>
Password == <<80, IAC>>

VARIABLES session,     \* none, connecting, open, ended
          items,       \* history: what the remote sends, item by item
          toCome,      \* the bytes of it the worker has not read
          tabCommands,    \* of the tab, not yet taken
          issued,      \* commands of this session
          parser,      \* state, verb and subnegotiation
          shown,       \* data sent to the tab
          sent,        \* bytes sent to the remote
          meant,       \* history: the data among them, before escaping
          login        \* the prompts dealt with, and the end of the data shown

telnetVars == <<session, items, toCome, tabCommands, issued, parser, shown, sent, meant, login>>

-----------------------------------------------------------------------------
(* The protocol as RFC 854 has it: what an item looks like on the wire, what  *)
(* a tab should see of it, and what a client answers.                         *)
Shows(bytes, data) == [wire |-> bytes, shown |-> data, verb |-> 0, option |-> 0]
Asks(verb, option) == [wire |-> <<IAC, verb, option>>, shown |-> <<>>,
                       verb |-> verb, option |-> option]
Items ==
    { Shows(<<65>>, <<65>>),                        \* a letter
      Shows(<<SE>>, <<SE>>),                        \* data that looks like a verb
      Shows(<<IAC, IAC>>, <<IAC>>),                 \* the byte 255 as data
      Shows(<<LoginPrompt>>, <<LoginPrompt>>),
      Shows(<<PasswordPrompt>>, <<PasswordPrompt>>),
      Shows(<<IAC, 241>>, <<>>),                    \* a command without option
      Shows(<<IAC, SB, 65, IAC, IAC, SE, 65, IAC, SE>>, <<>>),
      Asks(SB, TerminalType), Asks(DO, NAWS), Asks(WILL, Echo), Asks(DONT, 65) }

Wire(item) == IF item.verb = SB
              THEN <<IAC, SB, TerminalType, 1, IAC, SE>>
              ELSE item.wire

-----------------------------------------------------------------------------
(* What the session writes.                                                   *)
EscapeIac(data) == FlattenSeq([i \in DOMAIN data |->
                      IF data[i] = IAC THEN <<IAC, IAC>> ELSE <<data[i]>>])

Negotiation(verb, option) == <<IAC, verb, option>>

Clamped(n) == IF n < 2 THEN 2 ELSE IF n > 1000 THEN 1000 ELSE n

(* Mutant: the numbers are sent as they are.                                  *)
BareWindowSize(window) ==
    <<IAC, SB, NAWS, Clamped(window[1]) \div 256, Clamped(window[1]) % 256,
      Clamped(window[2]) \div 256, Clamped(window[2]) % 256, IAC, SE>>

(* Both numbers as two bytes, a byte 255 doubled.                             *)
WindowSize(window) ==
    <<IAC, SB, NAWS>>
    \o EscapeIac(<<Clamped(window[1]) \div 256, Clamped(window[1]) % 256,
                   Clamped(window[2]) \div 256, Clamped(window[2]) % 256>>)
    \o <<IAC, SE>>

TerminalName == <<IAC, SB, TerminalType, 0, 120, IAC, SE>>

Windows == {80} \X Heights
FirstWindow == <<80, Min(Heights)>>

Response(verb, option) ==
    CASE verb = WILL -> IF option \in {Binary, Echo, Suppress} THEN DO ELSE DONT
      [] verb = WONT -> DONT
      [] verb = DO   -> IF option \in {Binary, Suppress, TerminalType, NAWS}
                        THEN WILL ELSE WONT
      [] OTHER       -> WONT

OptionAnswer(verb, option) ==
    Negotiation(Response(verb, option), option)
    \o IF verb = DO /\ option = NAWS THEN WindowSize(FirstWindow) ELSE <<>>

-----------------------------------------------------------------------------
(* The parser: one byte takes it from state to state, with data for the tab   *)
(* and answers for the remote.                                                *)
Fresh == [state |-> "Data", verb |-> 0, sub |-> <<>>]
NothingParsed == [p |-> Fresh, data |-> <<>>, answers |-> <<>>]

InState(r, s) == [r EXCEPT !.p.state = s]

Byte(r, b) ==
    CASE r.p.state = "Data" ->
           IF b = IAC THEN InState(r, "Iac") ELSE [r EXCEPT !.data = Append(@, b)]
      [] r.p.state = "Iac" ->
           CASE b = IAC -> [InState(r, "Data") EXCEPT !.data = Append(@, b)]
             [] b \in {WILL, WONT, DO, DONT} -> [InState(r, "Option") EXCEPT !.p.verb = b]
             [] b = SB -> [InState(r, "Sub") EXCEPT !.p.sub = <<>>]
             [] OTHER  -> InState(r, "Data")
      [] r.p.state = "Option" ->
           [InState(r, "Data") EXCEPT !.answers = @ \o OptionAnswer(r.p.verb, b)]
      [] r.p.state = "Sub" ->
           IF b = IAC THEN InState(r, "SubIac") ELSE [r EXCEPT !.p.sub = Append(@, b)]
      [] r.p.state = "SubIac" ->
           CASE b = SE -> [InState(r, "Data") EXCEPT !.answers = @ \o
                             IF Len(r.p.sub) >= 2 /\ SubSeq(r.p.sub, 1, 2) = <<TerminalType, 1>>
                             THEN TerminalName ELSE <<>>]
             [] b = IAC -> [InState(r, "Sub") EXCEPT !.p.sub = Append(@, b)]
             [] OTHER -> InState(r, "Sub")

Start(p) == [NothingParsed EXCEPT !.p = p]

(* The loop over the bytes of a piece.                                        *)
Parse(p, bytes) ==
    LET after[n \in 0..Len(bytes)] ==
          IF n = 0 THEN Start(p) ELSE Byte(after[n - 1], bytes[n])
    IN  after[Len(bytes)]

(* Mutant: every piece starts anew.                                           *)
PerPiece(p) == Fresh
(* The state is kept while the session reads the next piece.                  *)
Kept(p) == p

-----------------------------------------------------------------------------
NoLogin == [user |-> TRUE, pass |-> TRUE, tail |-> 0]

TelnetInit ==
    /\ session = "none"
    /\ items = <<>> /\ toCome = <<>> /\ tabCommands = <<>> /\ issued = 0
    /\ parser = Fresh /\ shown = <<>> /\ sent = <<>> /\ meant = <<>>
    /\ login = NoLogin

(* The handler of "connect": refused while the connection has a session.  A   *)
(* host without a user name, or a password, has no answer to their prompts.   *)
Connect ==
    /\ session = "none"
    /\ session' = "connecting"
    /\ \E s \in TupleOf(Items, MaxItems) : items' = s
    /\ toCome' = FlattenSeq([i \in DOMAIN items' |-> Wire(items'[i])])
    /\ \E u, p \in BOOLEAN : login' = [user |-> u, pass |-> p, tail |-> 0]
    /\ issued' = 0 /\ tabCommands' = <<>> /\ parser' = Fresh
    /\ shown' = <<>> /\ sent' = <<>> /\ meant' = <<>>

(* Run: connected, the first negotiation is sent.                             *)
Opens ==
    /\ session = "connecting"
    /\ session' = "open"
    /\ sent' = Negotiation(WILL, TerminalType) \o Negotiation(WILL, NAWS)
               \o Negotiation(DO, Suppress) \o Negotiation(WILL, Suppress)
               \o WindowSize(FirstWindow)
    /\ UNCHANGED <<items, toCome, tabCommands, issued, parser, shown,
                   meant, login>>

(* Binary messages and "resize": queued for the worker, whatever its state.   *)
Issue(command) ==
    /\ session # "none" /\ issued < MaxTabCommands
    /\ issued' = issued + 1
    /\ tabCommands' = Append(tabCommands, command)
    /\ UNCHANGED <<session, items, toCome, parser, shown, sent, meant, login>>

WriteData == Issue([resize |-> FALSE, data |-> <<66, IAC>>])
Resize == \E w \in Windows : Issue([resize |-> TRUE, data |-> w])

Encoded(command) == IF command.resize THEN WindowSize(command.data)
                    ELSE EscapeIac(command.data)

(* The top of the loop: all commands are taken at once and sent.              *)
SendCommands ==
    /\ session = "open" /\ tabCommands # <<>>
    /\ tabCommands' = <<>>
    /\ sent' = sent \o FlattenSeq([i \in DOMAIN tabCommands |-> Encoded(tabCommands[i])])
    /\ meant' = meant \o FlattenSeq([i \in DOMAIN tabCommands |->
                            IF tabCommands[i].resize THEN <<>> ELSE tabCommands[i].data])
    /\ UNCHANGED <<session, items, toCome, issued, parser, shown, login>>

(* After a piece with data: the login is answered if the data end in its      *)
(* prompt, each prompt once, and the buffer of the prompts starts anew.       *)
PromptAnswer(tail) ==
    IF ~login.user /\ tail = LoginPrompt THEN "user"
    ELSE IF ~login.pass /\ tail = PasswordPrompt THEN "pass" ELSE "none"

Typed(answer) == CASE answer = "user" -> Username \o <<13, 10>>
                   [] answer = "pass" -> Password \o <<13, 10>>
                   [] OTHER -> <<>>

(* A piece of n bytes has arrived: it is parsed, answered and shown.          *)
Receive(n) ==
    LET r == Parse(Kept(parser), SubSeq(toCome, 1, n))
        tail == IF r.data = <<>> THEN login.tail ELSE Last(r.data)
        answer == IF r.data = <<>> THEN "none" ELSE PromptAnswer(tail)
    IN /\ session = "open"
       /\ toCome' = SubSeq(toCome, n + 1, Len(toCome))
       /\ parser' = r.p
       /\ shown' = shown \o r.data
       /\ sent' = sent \o r.answers \o EscapeIac(Typed(answer))
       /\ meant' = meant \o Typed(answer)
       /\ login' = [user |-> login.user \/ answer = "user",
                    pass |-> login.pass \/ answer = "pass",
                    tail |-> IF answer = "none" THEN tail ELSE 0]
       /\ UNCHANGED <<session, items, tabCommands, issued>>

ReceivePiece == \E n \in 1..Len(toCome) : Receive(n)

Forgotten ==
    /\ items' = <<>> /\ toCome' = <<>> /\ parser' = Fresh
    /\ shown' = <<>> /\ sent' = <<>> /\ meant' = <<>> /\ login' = NoLogin

(* The connection cannot be made, fails, or is closed by the remote; the      *)
(* controller keeps the session, which goes on queueing the tab's commands,   *)
(* so the tab must terminate it before it connects again.                     *)
RemoteEnds ==
    /\ session \in {"connecting", "open"}
    /\ session' = "ended"
    /\ Forgotten
    /\ UNCHANGED <<tabCommands, issued>>

(* "terminate", or the WebSocket is closed: Stop asks the worker to end and   *)
(* waits for it on the event loop, so what the worker still does in its round *)
(* comes before this step.                                                    *)
Stop ==
    /\ session # "none"
    /\ session' = "none"
    /\ tabCommands' = <<>> /\ issued' = 0
    /\ Forgotten

TelnetNext == Connect \/ Opens \/ WriteData \/ Resize \/ SendCommands
              \/ ReceivePiece \/ RemoteEnds \/ Stop

TelnetSpec == TelnetInit /\ [][TelnetNext]_telnetVars

-----------------------------------------------------------------------------
TelnetTypeOK ==
    /\ session \in {"none", "connecting", "open", "ended"}
    /\ items \in Seq(Items) /\ Len(items) <= MaxItems
    /\ issued \in 0..MaxTabCommands /\ Len(tabCommands) <= issued
    /\ parser.state \in {"Data", "Iac", "Option", "Sub", "SubIac"}
    /\ login.user \in BOOLEAN /\ login.pass \in BOOLEAN

(* However the bytes of the remote are cut into pieces, the tab is shown the  *)
(* data of the items, no negotiation and no subnegotiation, and the remote,   *)
(* which reads by the same protocol, finds in what the session sends exactly  *)
(* the input and the login meant for it: Run 285-337, EscapeIac, WindowSize.  *)
TelnetIsTransparent ==
    session = "open" =>
        /\ toCome = <<>> => shown = FlattenSeq([i \in DOMAIN items |-> items[i].shown])
        /\ LET remote == Parse(Fresh, sent)
           IN remote.p.state = "Data" /\ remote.data = meant
=============================================================================
