----------------------------- MODULE MCAssembly -----------------------------
EXTENDS Assembly

CONSTANTS a1, a2, serial, keyboard

Blank(v)        == << [op |-> "device"], [op |-> "configuration", value |-> v] >>
SerialDevice    == Blank(1) \o ConfigureACM(1, 2, 2)
KeyboardDevice  == Blank(1) \o ConfigureHID(1)
CompositeDevice == Blank(1) \o ConfigureACM(1, 2, 2) \o ConfigureHIDWithOut(3, 3)

Attach(d, numbers)  == [op |-> "attach", driver |-> d, value |-> 1, numbers |-> numbers]
Detach(number)      == [op |-> "detach", driver |-> Nobody, value |-> 1, numbers |-> <<number>>]
SetStackOf(d)       == [op |-> "setStack", driver |-> d]
Use(d, use)         == [op |-> use, driver |-> d]
Endpoint(op, n)     == [op |-> op, value |-> 1, numbers |-> <<0>>, endpoint |-> In(n, "interrupt")]
Writing(op, number) == [op |-> op, value |-> 1, number |-> number, class |-> "vendor"]
StartCall           == [op |-> "start"]
CloseCall           == [op |-> "close"]
ClassRequest(number, name) == [kind |-> "Class", number |-> number, name |-> name, setting |-> 1]

Plan(script, c1, c2, requests) ==
  [script |-> script, calls |-> (a1 :> c1 @@ a2 :> c2), requests |-> requests]

(* Devices that cannot be built, that no host can read, or that just fit.  *)
Unread ==
  { Plan(Blank(1) \o Blank(1), <<StartCall>>, <<>>, <<>>),
    Plan(KeyboardDevice \o << AddEndpoint(In(1, "bulk")) >>, <<StartCall>>, <<>>, <<>>),
    Plan(Blank(2) \o ConfigureHID(1), <<StartCall>>, <<>>, <<>>),
    Plan(CompositeDevice \o ConfigureHID(4), <<StartCall>>, <<>>, <<>>),
    Plan(CompositeDevice, <<StartCall, Writing("association", 0)>>, <<>>, <<>>) }

SerialAttached == << Attach(serial, <<0, 1>>), SetStackOf(serial), StartCall >>
SerialCalls    == { SerialAttached, << Writing("association", 0) >> \o SerialAttached }
SerialOpenly   == { << StartCall >> \o SerialAttached, SerialAttached \o << Attach(serial, <<0, 1>>) >> }
KeyboardCalls ==
  LET all == << Attach(keyboard, <<0>>), SetStackOf(keyboard), StartCall >>
  IN { all, all \o << Detach(0), Attach(keyboard, <<0>>) >>, all \o << Attach(serial, <<0>>) >> }
CompositeCalls ==
  { << Attach(serial, <<0, 1>>), StartCall, Attach(keyboard, <<2>>), Attach(keyboard, <<0>>) >> }

(* A driver whose endpoint is taken away before the host comes, and one    *)
(* that is attached to a configuration the host does not select.           *)
TwoConfigurations ==
  KeyboardDevice \o << [op |-> "configuration", value |-> 2] >> \o ConfigureHID(3)
AttachToSecond == [op |-> "attach", driver |-> keyboard, value |-> 2, numbers |-> <<0>>]
Unknown ==
  { Plan(KeyboardDevice, << Attach(keyboard, <<0>>), SetStackOf(keyboard), StartCall >>,
         << Endpoint("removeEndpoint", 1), Use(keyboard, "send") >>, <<>>),
    Plan(TwoConfigurations, << AttachToSecond, SetStackOf(keyboard), StartCall >>,
         << Use(keyboard, "send") >>, <<>>) }

(* What the other goroutine does meanwhile.                                *)
Edits(d) ==
  { << Writing("selfPowered", 0), Writing("addInterface", 2) >>,
    << Endpoint("addEndpoint", 5), Endpoint("removeEndpoint", 5) >>,
    << Endpoint("removeEndpoint", 1) >>,
    << Use(d, "send"), Use(d, "receive"), Use(d, "notify") >> }
Meanwhile(d, other) ==
  Edits(d) \union
  { << Writing("removeInterface", 0), Writing("addInterface", 0) >>,
    << Detach(0), CloseCall >>,
    << Attach(other, <<0>>) >> }

CompositeMeanwhile ==
  { << Writing("association", 0), Writing("removeInterface", 7) >>,
    << Attach(serial, <<0, 1>>) >>, << Detach(2) >> }

SerialTalk ==
  << ClassRequest(0, "SetLineCoding"), ClassRequest(0, "SetControlLineState"),
     ClassRequest(1, "GetLineCoding") >>
KeyboardTalk == << ClassRequest(0, "SetProtocol"), ClassRequest(1, "SetIdle") >>

AllPlans ==
  Unread \union Unknown
  \union {Plan(SerialDevice, c1, c2, SerialTalk) : c1 \in SerialCalls, c2 \in Meanwhile(serial, keyboard)}
  \union {Plan(SerialDevice, c1, c2, SerialTalk) : c1 \in SerialOpenly, c2 \in Edits(serial)}
  \union {Plan(KeyboardDevice, c1, c2, KeyboardTalk) : c1 \in KeyboardCalls, c2 \in Meanwhile(keyboard, serial)}
  \union {Plan(CompositeDevice, c1, c2, KeyboardTalk) : c1 \in CompositeCalls, c2 \in CompositeMeanwhile}

(* A writer with nothing but a flag to set.                                *)
QuietWriter ==
  { Plan(KeyboardDevice, c1, << Writing("selfPowered", 0) >>, KeyboardTalk) : c1 \in KeyboardCalls }
=============================================================================
