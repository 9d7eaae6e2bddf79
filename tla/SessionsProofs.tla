----------------------------- MODULE SessionsProofs -----------------------------
(***************************************************************************)
(* Proofs about Sessions, for any number of programs and orders and any    *)
(* socket size.  The argument: the ADD or REMOVE order a program waits for *)
(* is one token that moves from its socket to its client thread, into the  *)
(* socket back, and into cv_ready; it is in one place at a time, and       *)
(* nowhere when the program does not wait.  A killed program's token goes  *)
(* on to the daemon, or is lost.                                           *)
(***************************************************************************)
EXTENDS Sessions, SequenceTheorems, TLAPS

(* The four places of the token. *)
Unread(p)     == toDaemon[p] # <<>> /\ toDaemon[p][Len(toDaemon[p])] # "SEND"
InService(p)  == thread[p] \in {"change", "ack"}
OnItsWay(p)   == \E k \in 1 .. Len(toProgram[p]) : toProgram[p][k] \in Acks
Here(p)       == ready[p]

Waits(p) == main[p] \in {"wait", "asleep", "ack"}

(* In every place it is the program's last order. *)
Token(p) ==
  /\ \A k \in 1 .. Len(toDaemon[p]) - 1 : toDaemon[p][k] = "SEND"
  /\ Unread(p) => toDaemon[p][Len(toDaemon[p])] = order[p]
  /\ InService(p) => serving[p] = order[p] /\ order[p] # None
  /\ \A k \in 1 .. Len(toProgram[p]) : toProgram[p][k] \in Acks => toProgram[p][k] = order[p]
  /\ Here(p) => acked[p] = order[p]

(* It is in one place at a time. *)
OneToken(p) ==
  /\ Unread(p) => ~InService(p) /\ ~OnItsWay(p) /\ ~Here(p)
  /\ InService(p) => ~OnItsWay(p) /\ ~Here(p)
  /\ OnItsWay(p) => ~Here(p)
  /\ \A j, k \in 1 .. Len(toProgram[p]) :
       toProgram[p][j] \in Acks /\ toProgram[p][k] \in Acks => j = k

(* Where the main thread is, the token, and the SEND orders. *)
Progress(p) ==
  /\ main[p] \in {"connect", "order"} =>
       ~Unread(p) /\ ~InService(p) /\ ~OnItsWay(p) /\ ~Here(p)
  /\ main[p] = "ack" => Here(p)
  /\ Waits(p) => order[p] \in {"ADD", "REMOVE"}
  /\ order[p] # "SEND" /\ ~Unread(p) => toDaemon[p] = <<>>
  /\ ~alive => toDaemon[p] = <<>>
  /\ main[p] = "connect" => order[p] = None
  /\ main[p] = "order" => order[p] # "REMOVE"
  /\ order[p] = None => sent[p] = 0 /\ toDaemon[p] = <<>>
  /\ order[p] = "ADD" => sent[p] = 0
  /\ order[p] = "REMOVE" => sent[p] = Sends
  /\ order[p] = "REMOVE" /\ (InService(p) \/ OnItsWay(p) \/ Here(p)) => onBus[p] = Sends
  /\ alive /\ (main[p] # "ended" \/ toDaemon[p] # <<>>) =>
       onBus[p] + Len(toDaemon[p]) = sent[p] + (IF Unread(p) THEN 1 ELSE 0)
  /\ reset[p] => ~alive

(* Whom the daemon knows, for a program that runs, and for one whose REMOVE *)
(* is still to be read, though it may have been killed.                     *)
Served(p) ==
  /\ alive /\ main[p] # "ended" /\ order[p] = "SEND" => p \in known
  /\ alive /\ main[p] # "ended" /\ order[p] = "ADD" /\ ~Unread(p) => p \in known
  /\ alive /\ order[p] = "REMOVE" /\ Unread(p) => p \in known

Session(p) == Token(p) /\ OneToken(p) /\ Progress(p) /\ Served(p)

(* What the index knows is always in the reverse index, as far as that can  *)
(* be told during a change, and only a change makes it mixed.               *)
Indexed == known \subseteq subscribers /\ (mixed => Changing # {})

IInv == TypeOK /\ (\A p \in Programs : Session(p)) /\ Indexed /\ NoAckSleptOver

--------------------------------------------------------------------------------
(* A step leaves program q's part of the state alone. *)
Same(q) ==
  /\ main'[q] = main[q] /\ order'[q] = order[q] /\ sent'[q] = sent[q]
  /\ ready'[q] = ready[q] /\ acked'[q] = acked[q]
  /\ toDaemon'[q] = toDaemon[q] /\ toProgram'[q] = toProgram[q] /\ reset'[q] = reset[q]
  /\ alive' = alive /\ thread'[q] = thread[q] /\ serving'[q] = serving[q]
  /\ q \in known' <=> q \in known
  /\ onBus'[q] = onBus[q]

(* A session depends on its program's part of the state only. *)
LEMMA SameSession ==
  ASSUME NEW q \in Programs, Session(q), Same(q)
  PROVE  Session(q)'
<1> USE DEF Same
<1>1. /\ Unread(q)' <=> Unread(q)
      /\ InService(q)' <=> InService(q)
      /\ OnItsWay(q)' <=> OnItsWay(q)
      /\ Here(q)' <=> Here(q)
      /\ Waits(q)' <=> Waits(q)
  BY DEF Unread, InService, OnItsWay, Here, Waits
<1>2. Token(q)'
  BY <1>1 DEF Session, Token
<1>3. OneToken(q)'
  BY <1>1 DEF Session, OneToken
<1>4. Progress(q)'
  BY <1>1 DEF Session, Progress
<1>5. Served(q)'
  BY <1>1 DEF Session, Served
<1> QED
  BY <1>2, <1>3, <1>4, <1>5 DEF Session

LEMMA InitInv == Init => IInv
<1> SUFFICES ASSUME Init
             PROVE  IInv
  OBVIOUS
<1>1. TypeOK
  <2>1. /\ toDaemon \in [Programs -> Seq({"ADD", "SEND", "REMOVE"})]
        /\ toProgram \in [Programs -> Seq(Acks \cup {Frame})]
        /\ \A p \in Programs : Len(toDaemon[p]) = 0 /\ Len(toProgram[p]) = 0
    BY DEF Init
  <2>2. work \in [at : {"gate", "dequeue", "callback"}, to : SUBSET Programs]
    BY DEF Init
  <2>3. /\ ready \in [Programs -> BOOLEAN] /\ reset \in [Programs -> BOOLEAN]
        /\ alive \in BOOLEAN /\ paused \in BOOLEAN /\ mixed \in BOOLEAN
    BY DEF Init
  <2>4. /\ main \in [Programs -> {"connect", "order", "wait", "asleep", "ack", "ended"}]
        /\ order \in [Programs -> {None, "ADD", "SEND", "REMOVE"}]
        /\ acked \in [Programs -> {None, "ADD", "REMOVE"}]
        /\ serving \in [Programs -> {None, "ADD", "REMOVE"}]
        /\ recv \in [Programs -> {"absent", "read", "notify"}]
        /\ thread \in [Programs -> {"absent", "read", "change", "ack", "resume", "closed"}]
    BY DEF Init
  <2>5. /\ sent \in [Programs -> 0 .. Sends] /\ onBus \in [Programs -> 0 .. Sends]
        /\ known \in SUBSET Programs /\ subscribers \in SUBSET Programs
    BY SessionsAssumption DEF Init
  <2> QED
    BY <2>1, <2>2, <2>3, <2>4, <2>5, SessionsAssumption DEF TypeOK
<1>2. ASSUME NEW p \in Programs
      PROVE  Session(p)
  <2>1. ~Unread(p) /\ ~InService(p) /\ ~OnItsWay(p) /\ ~Here(p) /\ ~Waits(p)
    BY DEF Init, Unread, InService, OnItsWay, Here, Waits
  <2>2. Token(p) /\ OneToken(p)
    BY <2>1 DEF Init, Token, OneToken
  <2>3. Progress(p) /\ Served(p)
    BY <2>1, SessionsAssumption DEF Init, Progress, Served
  <2> QED
    BY <2>2, <2>3 DEF Session
<1>3. Indexed
  BY DEF Init, Indexed
<1>4. NoAckSleptOver
  BY DEF Init, NoAckSleptOver
<1> QED
  BY <1>1, <1>2, <1>3, <1>4 DEF IInv

--------------------------------------------------------------------------------
(* What appending to a sequence and taking its head do. *)
LEMMA AppendFacts ==
  ASSUME NEW S, NEW s \in Seq(S), NEW e \in S
  PROVE  /\ Append(s, e) \in Seq(S) /\ Append(s, e) # <<>>
         /\ Len(s) \in Nat /\ Len(Append(s, e)) = Len(s) + 1
         /\ Append(s, e)[Len(s) + 1] = e
         /\ \A k \in 1 .. Len(s) : Append(s, e)[k] = s[k]
OBVIOUS

LEMMA TailFacts ==
  ASSUME NEW S, NEW s \in Seq(S), s # <<>>
  PROVE  /\ Head(s) = s[1] /\ s[1] \in S
         /\ Len(s) \in Nat \ {0}
         /\ Tail(s) \in Seq(S) /\ Len(Tail(s)) = Len(s) - 1
         /\ \A k \in 1 .. Len(s) - 1 : Tail(s)[k] = s[k + 1]
         /\ Tail(s) = <<>> <=> Len(s) = 1
<1>1. Len(s) \in Nat \ {0}
  BY EmptySeq
<1>2. Head(s) = s[1] /\ s[1] \in S
  BY <1>1, ElementOfSeq
<1>3. /\ Tail(s) \in Seq(S) /\ Len(Tail(s)) = Len(s) - 1
      /\ \A k \in 1 .. Len(s) - 1 : Tail(s)[k] = s[k + 1]
  BY HeadTailProperties
<1>4. Tail(s) = <<>> <=> Len(s) = 1
  BY <1>1, <1>3, EmptySeq
<1> QED
  BY <1>1, <1>2, <1>3, <1>4

(* An ADD or REMOVE order at the head of the socket is all there is in it. *)
LEMMA HeadIsToken ==
  ASSUME IInv, NEW p \in Programs, toDaemon[p] # <<>>, Head(toDaemon[p]) # "SEND"
  PROVE  Unread(p) /\ Head(toDaemon[p]) = order[p] /\ Len(toDaemon[p]) = 1
<1>1. /\ Head(toDaemon[p]) = toDaemon[p][1]
      /\ Len(toDaemon[p]) \in Nat /\ Len(toDaemon[p]) >= 1
  BY TailFacts DEF IInv, TypeOK
<1>2. Len(toDaemon[p]) = 1
  <2>1. \A k \in 1 .. Len(toDaemon[p]) - 1 : toDaemon[p][k] = "SEND"
    BY DEF IInv, Session, Token
  <2>2. Len(toDaemon[p]) > 1 => 1 \in 1 .. Len(toDaemon[p]) - 1
    BY <1>1
  <2>3. toDaemon[p][1] # "SEND"
    BY <1>1
  <2>4. ~(Len(toDaemon[p]) > 1)
    BY <2>1, <2>2, <2>3
  <2>5. \A n \in Nat : n >= 1 /\ ~(n > 1) => n = 1
    OBVIOUS
  <2> QED
    BY <1>1, <2>4, <2>5, Zenon
<1>3. Unread(p)
  BY <1>1, <1>2 DEF Unread
<1> QED
  BY <1>1, <1>2, <1>3 DEF IInv, Session, Token

--------------------------------------------------------------------------------
(* Whoever enters the change adds to the reverse index, whoever leaves it   *)
(* last has the index in it, and a disconnect takes from the index alone.   *)
LEMMA IndexedStep ==
  ASSUME IInv, Next
  PROVE  Indexed'
<1>s. /\ known \subseteq subscribers /\ (mixed => Changing # {})
      /\ thread \in [Programs -> {"absent", "read", "change", "ack", "resume", "closed"}]
  BY DEF IInv, Indexed, TypeOK
<1>1. ASSUME NEW p \in Programs, NEW o \in {"ADD", "REMOVE"}, ReadOrder(p, o)
      PROVE  Indexed'
  BY <1>1, <1>s DEF ReadOrder, ThreadStep, Indexed, Changing
<1>2. ASSUME NEW p \in Programs, EndChange(p)
      PROVE  Indexed'
  <2>1. /\ thread[p] = "change" /\ known' = known
        /\ \A q \in Programs \ {p} : thread'[q] = thread[q]
    BY <1>2, <1>s DEF EndChange, ThreadStep
  <2>2. CASE Changing # {p}
    <3>1. PICK q \in Changing : q # p
      BY <2>1, <2>2 DEF Changing
    <3>2. q \in Changing'
      BY <2>1, <3>1 DEF Changing
    <3>3. UNCHANGED <<subscribers, mixed>>
      BY <1>2, <2>2 DEF EndChange
    <3> QED
      BY <1>s, <2>1, <3>2, <3>3 DEF Indexed
  <2>3. CASE Changing = {p}
    BY <1>2, <2>1, <2>3 DEF EndChange, Indexed
  <2> QED
    BY <2>2, <2>3
<1>3. ASSUME NEW p \in Programs, Disconnect(p)
      PROVE  Indexed'
  <2>1. /\ Changing' = Changing /\ known' = known \ {p} /\ subscribers' = subscribers
        /\ mixed' = (mixed \/ Changing # {})
    BY <1>3, <1>s DEF Disconnect, ThreadStep, Changing
  <2> QED
    BY <1>s, <2>1 DEF Indexed
<1>4. ASSUME DaemonEnds
      PROVE  Indexed'
  BY <1>4 DEF DaemonEnds, Indexed
<1>5. ASSUME NEW p \in Programs, Connect(p) \/ ServeSend(p) \/ WriteAck(p) \/ Resume(p)
      PROVE  Indexed'
  <2>1. UNCHANGED <<known, subscribers, mixed>>
    BY <1>5 DEF Connect, ServeSend, WriteAck, Resume, tableVars
  <2>3. thread[p] # "change"
    BY <1>5 DEF Connect, ServeSend, WriteAck, Resume, ThreadStep, IInv, Session, Progress, InService
  <2>4. \A q \in Programs : q # p => thread'[q] = thread[q]
    BY <1>5, <1>s DEF Connect, ServeSend, WriteAck, Resume, ThreadStep
  <2> QED
    BY <1>s, <2>1, <2>3, <2>4 DEF Indexed, Changing
<1>6. ASSUME UNCHANGED <<tableVars, thread>>
      PROVE  Indexed'
  BY <1>6, <1>s DEF tableVars, Indexed, Changing
<1> QED
  BY <1>1, <1>2, <1>3, <1>4, <1>5, <1>6 DEF Next, MainThread, ReceiveThread, ClientThread, WorkTask,
     ConnectFails, AddOrder, SendOrder, RemoveOrder, Write, TestReady, TakeAck,
     GoOn, End, SpuriousWakeup, Vanish, ReadFrame, ReadAck, NotifyMain, ReadError,
     WorkStep, PassWork, Callback, CutShort, Forward, CallbackReturns, threadVars, tableVars

--------------------------------------------------------------------------------
(* One step keeps a session: the steps of its main thread. *)
LEMMA MainStep ==
  ASSUME IInv, NEW p \in Programs, MainThread(p) \/ SpuriousWakeup(p)
  PROVE  Session(p)'
<1> USE DEF InService, Here
<1>s. /\ toDaemon[p] \in Seq({"ADD", "SEND", "REMOVE"})
      /\ toProgram[p] \in Seq(Acks \cup {Frame})
      /\ Len(toDaemon[p]) \in Nat
      /\ sent[p] \in Nat /\ onBus[p] \in Nat /\ Sends \in Nat
      /\ Token(p) /\ OneToken(p) /\ Progress(p) /\ Served(p)
  BY SessionsAssumption DEF IInv, TypeOK, Session
<1>1. ASSUME Connect(p) \/ ConnectFails(p) PROVE Session(p)'
  <2>1. /\ Unread(p)' <=> Unread(p)
        /\ OnItsWay(p)' <=> OnItsWay(p)
        /\ ~InService(p)'
    BY <1>1, <1>s DEF Connect, ConnectFails, socketVars, threadVars, tableVars, Unread, OnItsWay,
       IInv,
       TypeOK, Progress
  <2>2. Token(p)' /\ OneToken(p)'
    BY <1>1, <1>s, <2>1 DEF Connect, ConnectFails, socketVars, threadVars, tableVars, Token,
       OneToken
  <2>3. Progress(p)' /\ Served(p)'
    BY <1>1, <1>s, <2>1, SessionsAssumption DEF Connect, ConnectFails, socketVars, threadVars,
       tableVars,
       Progress, Served, Waits, IInv, TypeOK
  <2> QED
    BY <2>2, <2>3 DEF Session
<1>2. ASSUME TestReady(p) \/ SpuriousWakeup(p) PROVE Session(p)'
  <2>1. /\ Unread(p)' <=> Unread(p)
        /\ OnItsWay(p)' <=> OnItsWay(p)
    BY <1>2, <1>s DEF TestReady, SpuriousWakeup, socketVars, Unread, OnItsWay
  <2>2. Token(p)' /\ OneToken(p)'
    BY <1>2, <1>s, <2>1 DEF TestReady, SpuriousWakeup, socketVars, threadVars, tableVars, Token,
       OneToken
  <2>3. Served(p)' /\ Waits(p) /\ Waits(p)' /\ (main'[p] = "ack" => ready[p])
    BY <1>2, <1>s, <2>1 DEF TestReady, SpuriousWakeup, socketVars, threadVars, tableVars, Served,
       Waits,
       IInv, TypeOK
  <2>4. Progress(p)'
    BY <1>2, <1>s, <2>1, <2>3 DEF TestReady, SpuriousWakeup, socketVars, threadVars, tableVars,
       Progress,
       Waits
  <2> QED
    BY <2>2, <2>3, <2>4 DEF Session
<1>3. ASSUME TakeAck(p) PROVE Session(p)'
  <2>1. Here(p) /\ ~Unread(p) /\ ~InService(p) /\ ~OnItsWay(p) /\ toDaemon[p] = <<>>
    BY <1>3, <1>s DEF TakeAck, Progress, OneToken, Waits
  <2>e. toDaemon'[p] = <<>>
    BY <1>3, <2>1 DEF TakeAck, GoOn, End, socketVars, IInv, TypeOK
  <2>2. ~Here(p)' /\ ~Unread(p)' /\ ~InService(p)' /\ ~OnItsWay(p)'
    BY <1>3, <2>1, <2>e DEF TakeAck, GoOn, End, socketVars, threadVars, tableVars, Unread,
       OnItsWay, IInv,
       TypeOK
  <2>3. Token(p)' /\ OneToken(p)'
    BY <1>3, <1>s, <2>2, <2>e DEF TakeAck, GoOn, End, socketVars, threadVars, tableVars, Token,
       OneToken,
       IInv, TypeOK
  <2>4. Progress(p)' /\ Served(p)'
    BY <1>3, <1>s, <2>1, <2>2, <2>e DEF TakeAck, GoOn, End, socketVars, threadVars, tableVars,
       Progress, Served,
       Waits, IInv, TypeOK
  <2> QED
    BY <2>3, <2>4 DEF Session
<1>4. ASSUME AddOrder(p) \/ SendOrder(p) \/ RemoveOrder(p) PROVE Session(p)'
  <2>1. ~Unread(p) /\ ~InService(p) /\ ~OnItsWay(p) /\ ~Here(p)
    BY <1>4, <1>s DEF AddOrder, SendOrder, RemoveOrder, Progress
  <2>2. PICK o \in {"ADD", "SEND", "REMOVE"} :
          /\ Write(p, o)
          /\ o = "ADD" => AddOrder(p)
          /\ o = "SEND" => SendOrder(p)
          /\ o = "REMOVE" => RemoveOrder(p)
    BY <1>4 DEF AddOrder, SendOrder, RemoveOrder
  <2>3. \A k \in 1 .. Len(toDaemon[p]) : toDaemon[p][k] = "SEND"
    BY <1>s, <2>1 DEF Unread, Token
  <2>4. ~InService(p)' /\ ~OnItsWay(p)' /\ ~Here(p)'
    BY <2>1, <2>2 DEF Write, threadVars, tableVars, OnItsWay
  <2>5. order'[p] = o
    BY <2>2 DEF Write, IInv, TypeOK
  <2>6. CASE alive
    <3>1. toDaemon'[p] = Append(toDaemon[p], o)
      BY <2>2, <2>6 DEF Write, IInv, TypeOK
    <3>2. /\ toDaemon'[p] # <<>>
          /\ Len(toDaemon'[p]) = Len(toDaemon[p]) + 1
          /\ toDaemon'[p][Len(toDaemon'[p])] = o
          /\ \A k \in 1 .. Len(toDaemon'[p]) - 1 : toDaemon'[p][k] = "SEND"
      BY <3>1, <1>s, <2>3, AppendFacts
    <3>3. Unread(p)' <=> o # "SEND"
      BY <3>2 DEF Unread
    <3>4. Token(p)' /\ OneToken(p)'
      BY <3>2, <3>3, <2>4, <2>5 DEF Token, OneToken, OnItsWay
    <3>5. Progress(p)'
      <4>1. /\ alive' /\ UNCHANGED <<onBus, reset>>
            /\ main[p] = "order"
            /\ main'[p] = IF o = "SEND" THEN "order" ELSE "wait"
            /\ sent'[p] = IF o = "SEND" THEN sent[p] + 1 ELSE sent[p]
            /\ o = "ADD" => order[p] = None
            /\ o = "SEND" => order[p] # None /\ sent[p] < Sends
            /\ o = "REMOVE" => order[p] # None /\ sent[p] = Sends
        BY <2>2, <2>6 DEF Write, AddOrder, SendOrder, RemoveOrder, threadVars, tableVars, IInv,
           TypeOK
      <4>2. onBus[p] + Len(toDaemon[p]) = sent[p]
        <5>1. alive /\ main[p] # "ended" /\ ~Unread(p)
          BY <2>1, <2>6, <4>1
        <5> QED
          BY <1>s, <5>1 DEF Progress
      <4>3. ~reset'[p]
        BY <1>s, <4>1, <2>6 DEF Progress
      <4>4. o = "ADD" => sent[p] = 0
        BY <1>s, <4>1 DEF Progress
      <4>5. o # None
        BY SessionsAssumption
      <4>6. onBus[p] + Len(toDaemon'[p]) = sent'[p] + (IF o # "SEND" THEN 1 ELSE 0)
        <5>1. Len(toDaemon'[p]) = Len(toDaemon[p]) + 1
          BY <3>2
        <5>2. sent'[p] = IF o = "SEND" THEN sent[p] + 1 ELSE sent[p]
          BY <4>1
        <5> QED
          BY <1>s, <5>1, <5>2, <4>2
      <4>7. Waits(p)' => o \in {"ADD", "REMOVE"} /\ Unread(p)'
        BY <3>3, <4>1 DEF Waits
      <4> QED
        BY <1>s, <2>4, <2>5, <3>2, <3>3, <4>1, <4>3, <4>4, <4>5, <4>6, <4>7 DEF Progress
    <3>6. Served(p)'
      BY <1>s, <2>1, <2>2, <2>4, <2>5, <3>3, SessionsAssumption DEF Served, Progress, Write,
         AddOrder, SendOrder, RemoveOrder, threadVars, tableVars, IInv, TypeOK
    <3> QED
      BY <3>4, <3>5, <3>6 DEF Session
  <2>7. CASE ~alive
    <3>1. ~Unread(p)' /\ toDaemon' = toDaemon
      BY <2>1, <2>2, <2>7 DEF Write, Unread
    <3>2. Token(p)' /\ OneToken(p)'
      BY <1>s, <3>1, <2>4 DEF Token, OneToken, OnItsWay
    <3>3. Progress(p)'
      BY <1>s, <2>1, <2>2, <2>4, <2>5, <2>7, <3>1, SessionsAssumption DEF Progress, Waits,
         Write, AddOrder, SendOrder, RemoveOrder, threadVars, tableVars, IInv, TypeOK
    <3>4. Served(p)'
      BY <2>2, <2>7 DEF Served, Write
    <3> QED
      BY <3>2, <3>3, <3>4 DEF Session
  <2> QED
    BY <2>6, <2>7
<1> QED
  BY <1>1, <1>2, <1>3, <1>4 DEF MainThread

--------------------------------------------------------------------------------
(* The steps of its receive thread, and a frame written to it. *)
LEMMA ReceiveStep ==
  ASSUME IInv, NEW p \in Programs, ReceiveThread(p) \/ Forward(p)
  PROVE  Session(p)'
<1> USE DEF InService, Here
<1>s. /\ toProgram[p] \in Seq(Acks \cup {Frame}) /\ Frame \in Acks \cup {Frame}
      /\ Frame \notin Acks
      /\ Token(p) /\ OneToken(p) /\ Progress(p) /\ Served(p)
  BY DEF IInv, TypeOK, Session, Acks, Frame
<1>1. ASSUME NotifyMain(p) PROVE Session(p)'
  <2>1. /\ Unread(p)' <=> Unread(p)
        /\ OnItsWay(p)' <=> OnItsWay(p)
        /\ Waits(p)' <=> Waits(p)
        /\ main'[p] \in {"connect", "order", "ack", "ended"} => main'[p] = main[p]
    BY <1>1 DEF NotifyMain, socketVars, Unread, OnItsWay, Waits, IInv, TypeOK
  <2>2. Token(p)' /\ OneToken(p)'
    BY <1>1, <1>s, <2>1 DEF NotifyMain, socketVars, threadVars, tableVars, Token, OneToken
  <2>3. Progress(p)' /\ Served(p)'
    BY <1>1, <1>s, <2>1 DEF NotifyMain, socketVars, threadVars, tableVars, Progress, Served
  <2> QED
    BY <2>2, <2>3 DEF Session
<1>2. ASSUME ReadError(p) PROVE Session(p)'
  <2>2. ~alive /\ toDaemon[p] = <<>> /\ alive' = alive /\ toDaemon'[p] = <<>>
    BY <1>2, <1>s DEF ReadError, End, Progress, IInv, TypeOK
  <2>1. /\ Unread(p)' <=> Unread(p)
        /\ ~OnItsWay(p)' /\ ~Waits(p)' /\ main'[p] = "ended" /\ toProgram'[p] = <<>>
    BY <1>2, <2>2 DEF ReadError, End, Unread, OnItsWay, Waits, IInv, TypeOK
  <2>3. Token(p)' /\ OneToken(p)'
    BY <1>2, <1>s, <2>1, <2>2 DEF ReadError, End, threadVars, tableVars, Token, OneToken
  <2>4. Progress(p)' /\ Served(p)'
    BY <1>2, <1>s, <2>1, <2>2 DEF ReadError, End, threadVars, tableVars, Progress, Served
  <2> QED
    BY <2>3, <2>4 DEF Session
<1>3. ASSUME ReadFrame(p) \/ ReadAck(p) PROVE Session(p)'
  <2>1. /\ toProgram[p] # <<>>
        /\ toProgram'[p] = Tail(toProgram[p])
        /\ UNCHANGED <<main, order, sent, toDaemon, reset, alive, threadVars>>
    BY <1>3 DEF ReadFrame, ReadAck, programVars, IInv, TypeOK
  <2>2. /\ Head(toProgram[p]) = toProgram[p][1]
        /\ Len(toProgram[p]) \in Nat /\ Len(toProgram[p]) >= 1
        /\ Len(toProgram'[p]) = Len(toProgram[p]) - 1
        /\ \A k \in 1 .. Len(toProgram[p]) - 1 : toProgram'[p][k] = toProgram[p][k + 1]
    BY <1>s, <2>1, TailFacts
  <2>3. /\ \A k \in 1 .. Len(toProgram'[p]) :
             k + 1 \in 1 .. Len(toProgram[p]) /\ toProgram'[p][k] = toProgram[p][k + 1]
        /\ 1 \in 1 .. Len(toProgram[p])
    BY <2>2
  <2>4. Unread(p)' <=> Unread(p)
    BY <2>1 DEF Unread
  <2>5. Waits(p)' <=> Waits(p)
    BY <2>1 DEF Waits
  <2>6. CASE ReadFrame(p)
    <3>1. ready' = ready /\ acked' = acked
      BY <2>6 DEF ReadFrame, programVars
    <3>2. OnItsWay(p)' => OnItsWay(p)
      BY <2>3 DEF OnItsWay
    <3>3. Token(p)'
      BY <1>s, <2>1, <2>3, <2>4, <3>1 DEF Token, threadVars, tableVars
    <3>4. OneToken(p)'
      <4>1. ASSUME NEW j \in 1 .. Len(toProgram'[p]), NEW k \in 1 .. Len(toProgram'[p]),
                   toProgram'[p][j] \in Acks, toProgram'[p][k] \in Acks
            PROVE  j = k
        <5>1. j + 1 = k + 1
          BY <1>s, <2>3, <4>1 DEF OneToken
        <5> QED
          BY <5>1
      <4> QED
        BY <1>s, <2>1, <2>4, <3>1, <3>2, <4>1 DEF OneToken, threadVars, tableVars
    <3>5. Progress(p)' /\ Served(p)'
      BY <1>s, <2>1, <2>4, <2>5, <3>1, <3>2 DEF Progress, Served, threadVars, tableVars
    <3> QED
      BY <3>3, <3>4, <3>5 DEF Session
  <2>7. CASE ReadAck(p)
    <3>1. /\ ready'[p] /\ acked'[p] = toProgram[p][1]
          /\ toProgram[p][1] \in Acks
      BY <2>2, <2>7 DEF ReadAck, IInv, TypeOK
    <3>2. OnItsWay(p)
      BY <2>3, <3>1 DEF OnItsWay
    <3>3. ~OnItsWay(p)'
      <4> SUFFICES ASSUME NEW k \in 1 .. Len(toProgram'[p]), toProgram'[p][k] \in Acks
                   PROVE  FALSE
        BY DEF OnItsWay
      <4>1. k + 1 = 1
        BY <1>s, <2>3, <3>1 DEF OneToken
      <4> QED
        BY <4>1
    <3>4. Token(p)'
      BY <1>s, <2>1, <2>3, <2>4, <3>1, <3>3 DEF Token, threadVars, tableVars, OnItsWay
    <3>5. OneToken(p)'
      BY <1>s, <2>1, <2>4, <3>1, <3>2, <3>3 DEF OneToken, threadVars, tableVars, OnItsWay
    <3>6. Progress(p)' /\ Served(p)'
      BY <1>s, <2>1, <2>4, <2>5, <3>1, <3>2, <3>3 DEF Progress, Served, threadVars, tableVars
    <3> QED
      BY <3>4, <3>5, <3>6 DEF Session
  <2> QED
    BY <1>3, <2>6, <2>7
<1>4. ASSUME Forward(p) PROVE Session(p)'
  <2>1. UNCHANGED <<programVars, toDaemon, reset, alive, threadVars>>
    BY <1>4 DEF Forward, WorkStep
  <2>2. CASE toProgram' = toProgram
    BY <2>1, <2>2, SameSession DEF Same, IInv, programVars, threadVars, tableVars
  <2>3. CASE toProgram' = [toProgram EXCEPT ![p] = Append(@, Frame)]
    <3>1. toProgram'[p] = Append(toProgram[p], Frame)
      BY <2>3 DEF IInv, TypeOK
    <3>2. /\ Len(toProgram[p]) \in Nat /\ Len(toProgram'[p]) = Len(toProgram[p]) + 1
          /\ toProgram'[p][Len(toProgram[p]) + 1] = Frame
          /\ \A k \in 1 .. Len(toProgram[p]) : toProgram'[p][k] = toProgram[p][k]
      BY <1>s, <3>1, AppendFacts
    <3>3. \A k \in 1 .. Len(toProgram'[p]) : toProgram'[p][k] \in Acks =>
            k \in 1 .. Len(toProgram[p]) /\ toProgram'[p][k] = toProgram[p][k]
      BY <1>s, <3>2
    <3>4. /\ Unread(p)' <=> Unread(p)
          /\ Waits(p)' <=> Waits(p)
      BY <2>1 DEF Unread, Waits, programVars
    <3>5. OnItsWay(p)' => OnItsWay(p)
      BY <3>3 DEF OnItsWay
    <3>6. Token(p)' /\ OneToken(p)'
      BY <1>s, <2>1, <3>3, <3>4, <3>5 DEF Token, OneToken, programVars, threadVars, tableVars
    <3>7. Progress(p)' /\ Served(p)'
      BY <1>s, <2>1, <3>4, <3>5 DEF Progress, Served, programVars, threadVars, tableVars
    <3> QED
      BY <3>6, <3>7 DEF Session
  <2> QED
    BY <1>4, <2>2, <2>3 DEF Forward
<1> QED
  BY <1>1, <1>2, <1>3, <1>4 DEF ReceiveThread

(* A killed program's token may still be on its way to the daemon, or lost. *)
LEMMA VanishStep ==
  ASSUME IInv, NEW p \in Programs, Vanish(p)
  PROVE  Session(p)'
<1> USE DEF InService, Here
<1>s. Token(p) /\ OneToken(p) /\ Progress(p) /\ Served(p)
  BY DEF IInv, Session
<1>1. /\ alive /\ main[p] # "ended" /\ main'[p] = "ended" /\ toProgram'[p] = <<>>
      /\ UNCHANGED <<order, sent, ready, acked, reset, alive, threadVars>>
      /\ toDaemon'[p] = toDaemon[p] \/ toDaemon'[p] = <<>>
  BY DEF Vanish, End, IInv, TypeOK
<1>2. ~OnItsWay(p)' /\ ~Waits(p)' /\ (Unread(p)' => Unread(p) /\ toDaemon'[p] = toDaemon[p])
  BY <1>1 DEF OnItsWay, Waits, Unread
<1>3. Token(p)'
  BY <1>s, <1>1, <1>2 DEF Token, threadVars, tableVars
<1>4. OneToken(p)'
  BY <1>s, <1>1, <1>2 DEF OneToken, threadVars, tableVars
<1>5. Progress(p)'
  <2>1. CASE toDaemon'[p] = toDaemon[p]
    <3>1. Unread(p)' <=> Unread(p)
      BY <1>1, <2>1 DEF Unread
    <3> QED
      BY <1>s, <1>1, <1>2, <2>1, <3>1 DEF Progress, threadVars, tableVars
  <2>2. CASE toDaemon'[p] = <<>>
    BY <1>s, <1>1, <1>2, <2>2 DEF Progress, threadVars, tableVars
  <2> QED
    BY <1>1, <2>1, <2>2
<1>6. Served(p)'
  BY <1>s, <1>1, <1>2 DEF Served, threadVars, tableVars
<1> QED
  BY <1>3, <1>4, <1>5, <1>6 DEF Session

--------------------------------------------------------------------------------
(* The steps of its client thread. *)
LEMMA ClientStep ==
  ASSUME IInv, NEW p \in Programs, ClientThread(p)
  PROVE  Session(p)'
<1> USE DEF InService, Here
<1>s. /\ toDaemon[p] \in Seq({"ADD", "SEND", "REMOVE"})
      /\ toProgram[p] \in Seq(Acks \cup {Frame})
      /\ serving[p] \in {None, "ADD", "REMOVE"}
      /\ Len(toDaemon[p]) \in Nat
      /\ sent[p] \in Nat /\ onBus[p] \in Nat /\ Sends \in Nat
      /\ Token(p) /\ OneToken(p) /\ Progress(p) /\ Served(p)
  BY SessionsAssumption DEF IInv, TypeOK, Session
<1>1. ASSUME Resume(p) \/ Disconnect(p) PROVE Session(p)'
  <2>1. /\ UNCHANGED <<programVars, socketVars, alive, onBus>>
        /\ ~InService(p)' /\ ~InService(p)
        /\ known' = known \/ (main[p] = "ended" /\ toDaemon[p] = <<>>)
    BY <1>1 DEF Resume, Disconnect, ThreadStep, tableVars, IInv, TypeOK
  <2>2. /\ Unread(p)' <=> Unread(p)
        /\ OnItsWay(p)' <=> OnItsWay(p)
        /\ Waits(p)' <=> Waits(p)
    BY <2>1 DEF programVars, socketVars, Unread, OnItsWay, Waits
  <2>3. Token(p)' /\ OneToken(p)'
    BY <1>s, <2>1, <2>2 DEF programVars, socketVars, Token, OneToken
  <2>4. Progress(p)' /\ Served(p)'
    BY <1>s, <2>1, <2>2 DEF programVars, socketVars, Progress, Served, Unread
  <2> QED
    BY <2>3, <2>4 DEF Session
<1>2. ASSUME WriteAck(p) PROVE Session(p)'
  <2>1. /\ UNCHANGED <<programVars, toDaemon, reset, alive, known, onBus>>
        /\ InService(p) /\ ~InService(p)'
        /\ \/ toProgram'[p] = toProgram[p]
           \/ toProgram'[p] = Append(toProgram[p], serving[p])
    BY <1>2 DEF WriteAck, ThreadStep, tableVars, IInv, TypeOK
  <2>2. ~Unread(p) /\ ~OnItsWay(p) /\ ~Here(p) /\ serving[p] = order[p]
    BY <1>s, <2>1 DEF OneToken, Token
  <2>3. main[p] \notin {"connect", "order"} /\ (order[p] = "REMOVE" => onBus[p] = Sends)
    BY <1>s, <2>1 DEF Progress
  <2>4. serving[p] \in Acks
    <3>1. order[p] # None
      BY <1>s, <2>1 DEF Token
    <3> QED
      BY <1>s, <2>2, <3>1 DEF Acks
  <2>6. /\ \A k \in 1 .. Len(toProgram'[p]) :
             toProgram'[p][k] \in Acks => toProgram'[p][k] = order[p]
        /\ \A j, k \in 1 .. Len(toProgram'[p]) :
             toProgram'[p][j] \in Acks /\ toProgram'[p][k] \in Acks => j = k
    <3>1. CASE toProgram'[p] = toProgram[p]
      BY <2>2, <3>1 DEF OnItsWay
    <3>2. CASE toProgram'[p] = Append(toProgram[p], serving[p])
      <4>1. /\ Len(toProgram[p]) \in Nat /\ Len(toProgram'[p]) = Len(toProgram[p]) + 1
            /\ toProgram'[p][Len(toProgram[p]) + 1] = order[p]
            /\ \A k \in 1 .. Len(toProgram[p]) : toProgram'[p][k] \notin Acks
        BY <1>s, <3>2, <2>2, <2>4, AppendFacts DEF OnItsWay
      <4>2. \A k \in 1 .. Len(toProgram'[p]) : toProgram'[p][k] \in Acks =>
              k = Len(toProgram[p]) + 1 /\ toProgram'[p][k] = order[p]
        BY <4>1
      <4> QED
        BY <4>2
    <3> QED
      BY <2>1, <3>1, <3>2
  <2>7. /\ ~Unread(p)' /\ ~Here(p)'
        /\ Waits(p)' <=> Waits(p)
    BY <2>1, <2>2 DEF programVars, Unread, Waits
  <2>8. Token(p)' /\ OneToken(p)'
    BY <1>s, <2>1, <2>6, <2>7 DEF programVars, Token, OneToken
  <2>9. Progress(p)' /\ Served(p)'
    BY <1>s, <2>1, <2>2, <2>3, <2>7 DEF programVars, Progress, Served
  <2> QED
    BY <2>8, <2>9 DEF Session
<1>3. ASSUME NEW o \in {"ADD", "REMOVE"}, ReadOrder(p, o) PROVE Session(p)'
  <2>1. /\ UNCHANGED <<programVars, toProgram, reset, alive, onBus>>
        /\ alive /\ toDaemon[p] # <<>> /\ Head(toDaemon[p]) # "SEND"
        /\ toDaemon'[p] = Tail(toDaemon[p])
        /\ InService(p)' /\ serving'[p] = Head(toDaemon[p])
    BY <1>3 DEF ReadOrder, ThreadStep, IInv, TypeOK
  <2>2. Unread(p) /\ Head(toDaemon[p]) = order[p] /\ Len(toDaemon[p]) = 1
    BY <2>1, HeadIsToken
  <2>3. toDaemon'[p] = <<>>
    BY <1>s, <2>1, <2>2, TailFacts
  <2>4. ~InService(p) /\ ~OnItsWay(p) /\ ~Here(p) /\ main[p] \notin {"connect", "order"}
    BY <1>s, <2>2 DEF OneToken, Progress
  <2>5. /\ ~Unread(p)' /\ ~OnItsWay(p)' /\ ~Here(p)'
        /\ Waits(p)' <=> Waits(p)
    BY <2>1, <2>3, <2>4 DEF programVars, Unread, OnItsWay, Waits
  <2>6. onBus[p] = sent[p]
    <3>1. onBus[p] + Len(toDaemon[p]) = sent[p] + 1
      BY <1>s, <2>1, <2>2 DEF Progress
    <3>2. onBus[p] + 1 = sent[p] + 1
      BY <2>2, <3>1
    <3> QED
      BY <1>s, <3>2
  <2>7. Len(toDaemon'[p]) = 0
    BY <2>3
  <2>8. order[p] # None
    BY <1>s, <2>1 DEF Progress
  <2>9. Token(p)' /\ OneToken(p)'
    BY <1>s, <2>1, <2>2, <2>5, <2>7, <2>8 DEF programVars, Token, OneToken, OnItsWay
  <2>10. Progress(p)'
    <3>1. onBus'[p] + Len(toDaemon'[p]) = sent'[p] + 0
      BY <1>s, <2>1, <2>6, <2>7 DEF programVars
    <3> QED
      BY <1>s, <2>1, <2>3, <2>4, <2>5, <2>6, <3>1 DEF programVars, Progress
  <2>11. Served(p)'
    BY <1>3, <2>1, <2>2, <2>5 DEF ReadOrder, programVars, Served
  <2> QED
    BY <2>9, <2>10, <2>11 DEF Session
<1>4. ASSUME ServeSend(p) PROVE Session(p)'
  <2>1. /\ UNCHANGED <<programVars, toProgram, reset, alive, serving, known>>
        /\ alive /\ toDaemon[p] # <<>> /\ Head(toDaemon[p]) = "SEND"
        /\ toDaemon'[p] = Tail(toDaemon[p])
        /\ onBus'[p] = onBus[p] + 1
        /\ thread'[p] = thread[p]
    BY <1>4 DEF ServeSend, ThreadStep, tableVars, IInv, TypeOK
  <2>2. /\ toDaemon[p][1] = "SEND"
        /\ Len(toDaemon[p]) >= 1
        /\ Len(toDaemon'[p]) = Len(toDaemon[p]) - 1
        /\ \A k \in 1 .. Len(toDaemon[p]) - 1 : toDaemon'[p][k] = toDaemon[p][k + 1]
        /\ toDaemon'[p] = <<>> <=> Len(toDaemon[p]) = 1
    BY <1>s, <2>1, TailFacts
  <2>3. order[p] # None /\ (order[p] # "SEND" => Unread(p)) /\ main[p] # "connect"
    BY <1>s, <2>1 DEF Progress
  <2>4. /\ OnItsWay(p)' <=> OnItsWay(p)
        /\ Waits(p)' <=> Waits(p)
    BY <2>1 DEF programVars, OnItsWay, Waits
  <2>5. Len(toDaemon[p]) > 1 =>
          /\ toDaemon'[p] # <<>>
          /\ toDaemon'[p][Len(toDaemon'[p])] = toDaemon[p][Len(toDaemon[p])]
    <3> SUFFICES ASSUME Len(toDaemon[p]) > 1
                 PROVE  /\ toDaemon'[p] # <<>>
                        /\ toDaemon'[p][Len(toDaemon'[p])] = toDaemon[p][Len(toDaemon[p])]
      OBVIOUS
    <3>1. /\ Len(toDaemon[p]) # 1
          /\ Len(toDaemon[p]) - 1 \in 1 .. Len(toDaemon[p]) - 1
          /\ (Len(toDaemon[p]) - 1) + 1 = Len(toDaemon[p])
      <4>1. \A n \in Nat : n > 1 => n # 1 /\ n - 1 \in 1 .. n - 1 /\ (n - 1) + 1 = n
        OBVIOUS
      <4> QED
        BY <1>s, <4>1, Zenon
    <3>2. toDaemon'[p][Len(toDaemon[p]) - 1] = toDaemon[p][(Len(toDaemon[p]) - 1) + 1]
      BY <2>2, <3>1, Zenon
    <3> QED
      BY <2>2, <3>1, <3>2, Zenon
  <2>6. Unread(p)' <=> Unread(p)
    <3>1. CASE Len(toDaemon[p]) > 1
      BY <2>1, <2>5, <3>1 DEF Unread
    <3>2. CASE Len(toDaemon[p]) = 1
      BY <2>2, <3>2 DEF Unread
    <3> QED
      BY <1>s, <2>2, <3>1, <3>2
  <2>7. Unread(p) => Len(toDaemon[p]) > 1
    BY <1>s, <2>2 DEF Unread
  <2>8. \A k \in 1 .. Len(toDaemon'[p]) - 1 : toDaemon'[p][k] = "SEND"
    <3> SUFFICES ASSUME NEW k \in 1 .. Len(toDaemon'[p]) - 1
                 PROVE  toDaemon'[p][k] = "SEND"
      OBVIOUS
    <3>1. k \in 1 .. Len(toDaemon[p]) - 1 /\ k + 1 \in 1 .. Len(toDaemon[p]) - 1
      BY <1>s, <2>2
    <3> QED
      BY <1>s, <2>2, <3>1 DEF Token
  <2>9. Token(p)'
    BY <1>s, <2>1, <2>5, <2>6, <2>7, <2>8 DEF programVars, Token
  <2>10. OneToken(p)'
    BY <1>s, <2>1, <2>4, <2>6 DEF programVars, OneToken
  <2>11. /\ ~InService(p)
         /\ Unread(p) => ~OnItsWay(p) /\ ~Here(p)
         /\ main[p] = "order" => ~OnItsWay(p) /\ ~Here(p)
    BY <1>4, <1>s DEF Progress, OneToken, ServeSend, ThreadStep
  <2>12. Progress(p)'
    <3>1. onBus'[p] + Len(toDaemon'[p]) = sent'[p] + (IF Unread(p)' THEN 1 ELSE 0)
      <4>1. onBus[p] + Len(toDaemon[p]) = sent[p] + (IF Unread(p) THEN 1 ELSE 0)
        BY <1>s, <2>1 DEF Progress
      <4>2. sent' = sent
        BY <2>1 DEF programVars
      <4>3. Len(toDaemon'[p]) = Len(toDaemon[p]) - 1
        BY <2>2
      <4>4. onBus'[p] = onBus[p] + 1
        BY <2>1
      <4>5. onBus'[p] + Len(toDaemon'[p]) = onBus[p] + Len(toDaemon[p])
        <5>1. \A a, b \in Nat : (a + 1) + (b - 1) = a + b
          OBVIOUS
        <5>2. (onBus[p] + 1) + (Len(toDaemon[p]) - 1) = onBus[p] + Len(toDaemon[p])
          BY <1>s, <5>1, Zenon
        <5> QED
          BY <5>2, <4>3, <4>4, Zenon
      <4> QED
        BY <4>1, <4>2, <4>5, <2>6
    <3>2. /\ ~InService(p)'
          /\ OnItsWay(p)' \/ Here(p)' => order[p] = "SEND" /\ main[p] # "order"
      BY <2>1, <2>3, <2>4, <2>11 DEF programVars
    <3> QED
      BY <1>s, <2>1, <2>3, <2>4, <2>6, <3>1, <3>2 DEF programVars, Progress
  <2>13. Served(p)'
    BY <1>s, <2>1, <2>6 DEF programVars, Served
  <2> QED
    BY <2>9, <2>10, <2>12, <2>13 DEF Session
<1>5. ASSUME EndChange(p) PROVE Session(p)'
  <2>1. /\ UNCHANGED <<programVars, socketVars, alive, serving, known, onBus>>
        /\ InService(p)' /\ InService(p)
    BY <1>5 DEF EndChange, ThreadStep, IInv, TypeOK
  <2>2. /\ Unread(p)' <=> Unread(p)
        /\ OnItsWay(p)' <=> OnItsWay(p)
        /\ Waits(p)' <=> Waits(p)
    BY <2>1 DEF programVars, socketVars, Unread, OnItsWay, Waits
  <2>3. Token(p)' /\ OneToken(p)'
    BY <1>s, <2>1, <2>2 DEF programVars, socketVars, Token, OneToken
  <2>4. Progress(p)' /\ Served(p)'
    BY <1>s, <2>1, <2>2 DEF programVars, socketVars, Progress, Served, Unread
  <2> QED
    BY <2>3, <2>4 DEF Session
<1> QED
  BY <1>1, <1>2, <1>3, <1>4, <1>5 DEF ClientThread

(* The daemon ends: no program's order is unread or served any more. *)
LEMMA DaemonEndsStep ==
  ASSUME IInv, DaemonEnds, NEW p \in Programs
  PROVE  Session(p)'
<1> USE DEF InService, Here
<1>s. Token(p) /\ OneToken(p) /\ Progress(p) /\ Served(p)
  BY DEF IInv, Session
<1>1. /\ UNCHANGED <<programVars, toProgram, onBus>>
      /\ ~alive' /\ toDaemon'[p] = <<>> /\ Len(toDaemon'[p]) = 0 /\ ~InService(p)'
  BY DEF DaemonEnds
<1>2. /\ ~Unread(p)'
      /\ OnItsWay(p)' <=> OnItsWay(p)
      /\ Waits(p)' <=> Waits(p)
  BY <1>1 DEF Unread, OnItsWay, Waits, programVars
<1>3. Token(p)' /\ OneToken(p)'
  BY <1>s, <1>1, <1>2 DEF Token, OneToken, programVars
<1>4. Progress(p)' /\ Served(p)'
  BY <1>s, <1>1, <1>2 DEF Progress, Served, programVars
<1> QED
  BY <1>3, <1>4 DEF Session

(* A step of one program's threads leaves every other session alone. *)
LEMMA SessionStep ==
  ASSUME IInv, Next, NEW q \in Programs
  PROVE  Session(q)'
<1>s. Session(q)
  BY DEF IInv
<1>1. ASSUME NEW p \in Programs, p # q, MainThread(p) \/ SpuriousWakeup(p) \/ Vanish(p)
      PROVE  Same(q)
  BY <1>1 DEF MainThread, Connect, ConnectFails, AddOrder, SendOrder,
     RemoveOrder, Write, TestReady, SpuriousWakeup, Vanish, TakeAck, GoOn, End, socketVars,
     threadVars, tableVars, IInv, TypeOK, Same
<1>2. ASSUME NEW p \in Programs, p # q, ReceiveThread(p) \/ Forward(p)
      PROVE  Same(q)
  BY <1>2 DEF ReceiveThread, ReadFrame, ReadAck, NotifyMain, ReadError, End,
     Forward, WorkStep, programVars, socketVars, threadVars, tableVars, IInv, TypeOK, Same
<1>3. ASSUME NEW p \in Programs, p # q, ClientThread(p)
      PROVE  Same(q)
  BY <1>3 DEF ClientThread, ServeSend, ReadOrder, EndChange,
     WriteAck, Resume, Disconnect, ThreadStep, programVars, socketVars,
     tableVars, IInv, TypeOK, Same
<1>4. ASSUME PassWork \/ Callback \/ CutShort \/ CallbackReturns
      PROVE  Same(q)
  BY <1>4 DEF PassWork, Callback, CutShort, CallbackReturns, WorkStep,
     programVars, socketVars, threadVars, tableVars, Same
<1> QED
  BY <1>s, <1>1, <1>2, <1>3, <1>4, SameSession, MainStep, ReceiveStep, VanishStep, ClientStep,
     DaemonEndsStep
  DEF Next, WorkTask

(* cv_ready is tested and the main thread put to sleep in one step, and     *)
(* whoever sets cv_ready afterwards notifies.                               *)
LEMMA SleepStep ==
  ASSUME IInv, Next
  PROVE  NoAckSleptOver'
<1> SUFFICES ASSUME NEW q \in Programs, main'[q] = "asleep", ready'[q]
             PROVE  recv'[q] = "notify"
  BY DEF NoAckSleptOver
<1>s. main[q] = "asleep" /\ ready[q] => recv[q] = "notify"
  BY DEF IInv, NoAckSleptOver
<1>1. ASSUME NEW p \in Programs, MainThread(p) \/ SpuriousWakeup(p)
      PROVE  recv'[q] = "notify"
  BY <1>s, <1>1 DEF MainThread, Connect, ConnectFails, AddOrder, SendOrder,
     RemoveOrder, Write, TestReady, SpuriousWakeup, TakeAck, GoOn, End, IInv, TypeOK
<1>2. ASSUME NEW p \in Programs, ReceiveThread(p) \/ Vanish(p)
      PROVE  recv'[q] = "notify"
  BY <1>s, <1>2 DEF ReceiveThread, ReadFrame, ReadAck, NotifyMain, ReadError, Vanish, End,
     programVars, IInv, TypeOK
<1>3. ASSUME UNCHANGED programVars
      PROVE  recv'[q] = "notify"
  BY <1>s, <1>3 DEF programVars
<1> QED
  BY <1>1, <1>2, <1>3 DEF Next, ClientThread, ServeSend, ReadOrder, EndChange,
     WriteAck, Resume, Disconnect, WorkTask, Forward, PassWork, Callback, CutShort,
     CallbackReturns, WorkStep, DaemonEnds

(* The frames on the bus are at most those the program has ordered. *)
LEMMA OnBusBound ==
  ASSUME IInv, NEW p \in Programs, ServeSend(p)
  PROVE  onBus[p] + 1 \in 0 .. Sends
<1>1. /\ toDaemon[p] \in Seq({"ADD", "SEND", "REMOVE"}) /\ toDaemon[p] # <<>> /\ alive
      /\ toDaemon[p][1] = "SEND"
      /\ sent[p] \in 0 .. Sends /\ onBus[p] \in Nat /\ Sends \in Nat
  BY SessionsAssumption DEF ServeSend, ThreadStep, IInv, TypeOK
<1>2. Len(toDaemon[p]) \in Nat /\ Len(toDaemon[p]) >= 1
  BY <1>1, TailFacts
<1>3. onBus[p] + Len(toDaemon[p]) = sent[p] + (IF Unread(p) THEN 1 ELSE 0)
  BY <1>1 DEF IInv, Session, Progress
<1>4. Unread(p) => Len(toDaemon[p]) >= 2
  BY <1>1, <1>2 DEF Unread
<1>5. \A a, n, b \in Nat :
        /\ n >= 1 /\ a + n = b => a + 1 <= b
        /\ n >= 2 /\ a + n = b + 1 => a + 1 <= b
  OBVIOUS
<1>6. sent[p] \in Nat
  BY <1>1
<1>7. onBus[p] + 1 <= sent[p]
  <2>1. CASE Unread(p)
    BY <1>1, <1>2, <1>3, <1>4, <1>5, <1>6, <2>1
  <2>2. CASE ~Unread(p)
    <3>1. onBus[p] + Len(toDaemon[p]) = sent[p]
      BY <1>3, <1>6, <2>2
    <3> QED
      BY <1>1, <1>2, <1>5, <1>6, <3>1
  <2> QED
    BY <2>1, <2>2
<1> QED
  BY <1>1, <1>7

--------------------------------------------------------------------------------
(* The sockets hold orders and packages of their kinds, and no more than    *)
(* Buffer of them.                                                          *)
SocketsOK ==
  /\ toDaemon \in [Programs -> Seq({"ADD", "SEND", "REMOVE"})]
  /\ toProgram \in [Programs -> Seq(Acks \cup {Frame})]
  /\ \A p \in Programs : Len(toDaemon[p]) <= Buffer /\ Len(toProgram[p]) <= Buffer

LEMMA SocketsStep ==
  ASSUME IInv, Next
  PROVE  SocketsOK'
<1>s. SocketsOK /\ Buffer \in Nat
  BY SessionsAssumption DEF IInv, TypeOK, SocketsOK
<1>1. ASSUME NEW p \in Programs, NEW o \in {"ADD", "SEND", "REMOVE"}, Write(p, o)
      PROVE  SocketsOK'
  <2>1. CASE alive
    <3>1. /\ Append(toDaemon[p], o) \in Seq({"ADD", "SEND", "REMOVE"})
          /\ Len(Append(toDaemon[p], o)) <= Buffer
      BY <1>1, <1>s, <2>1, AppendFacts DEF Write, SocketsOK
    <3> QED
      BY <1>1, <1>s, <2>1, <3>1 DEF Write, SocketsOK
  <2>2. CASE ~alive
    BY <1>1, <1>s, <2>2 DEF Write, SocketsOK
  <2> QED
    BY <2>1, <2>2
<1>2. ASSUME NEW p \in Programs, End(p)
      PROVE  SocketsOK'
  <2>1. /\ <<>> \in Seq(Acks \cup {Frame}) /\ <<>> \in Seq({"ADD", "SEND", "REMOVE"})
        /\ Len(<<>>) <= Buffer
    BY <1>s
  <2> QED
    BY <1>2, <1>s, <2>1 DEF End, SocketsOK
<1>3. ASSUME NEW p \in Programs, ReadFrame(p) \/ ReadAck(p)
      PROVE  SocketsOK'
  <2>1. /\ Tail(toProgram[p]) \in Seq(Acks \cup {Frame})
        /\ Len(Tail(toProgram[p])) <= Buffer
    BY <1>3, <1>s, TailFacts DEF ReadFrame, ReadAck, SocketsOK
  <2> QED
    BY <1>3, <1>s, <2>1 DEF ReadFrame, ReadAck, SocketsOK
<1>4. ASSUME NEW p \in Programs, NEW o \in {"ADD", "REMOVE"}, ServeSend(p) \/ ReadOrder(p, o)
      PROVE  SocketsOK'
  <2>1. /\ Tail(toDaemon[p]) \in Seq({"ADD", "SEND", "REMOVE"})
        /\ Len(Tail(toDaemon[p])) <= Buffer
    BY <1>4, <1>s, TailFacts DEF ServeSend, ReadOrder, SocketsOK
  <2> QED
    BY <1>4, <1>s, <2>1 DEF ServeSend, ReadOrder, SocketsOK
<1>5. ASSUME NEW p \in Programs, WriteAck(p)
      PROVE  SocketsOK'
  <2>1. serving[p] \in Acks \cup {Frame}
    <3>1. serving[p] = order[p] /\ order[p] # None
      BY <1>5 DEF WriteAck, ThreadStep, IInv, Session, Token, InService
    <3> QED
      BY <3>1 DEF IInv, TypeOK, Acks
  <2>2. CASE toProgram' = toProgram
    BY <1>5, <1>s, <2>2 DEF WriteAck, SocketsOK
  <2>3. CASE /\ Len(toProgram[p]) < Buffer
             /\ toProgram' = [toProgram EXCEPT ![p] = Append(@, serving[p])]
    <3>1. /\ Append(toProgram[p], serving[p]) \in Seq(Acks \cup {Frame})
          /\ Len(Append(toProgram[p], serving[p])) <= Buffer
      BY <1>s, <2>1, <2>3, AppendFacts DEF SocketsOK
    <3> QED
      BY <1>5, <1>s, <2>3, <3>1 DEF WriteAck, SocketsOK
  <2> QED
    BY <1>5, <2>2, <2>3 DEF WriteAck
<1>6. ASSUME NEW p \in Programs, Forward(p)
      PROVE  SocketsOK'
  <2>1. CASE main[p] = "ended"
    BY <1>6, <1>s, <2>1 DEF Forward, WorkStep, SocketsOK
  <2>2. CASE main[p] # "ended"
    <3>1. /\ Append(toProgram[p], Frame) \in Seq(Acks \cup {Frame})
          /\ Len(Append(toProgram[p], Frame)) <= Buffer
      BY <1>6, <1>s, <2>2, AppendFacts DEF Forward, SocketsOK
    <3> QED
      BY <1>6, <1>s, <2>2, <3>1 DEF Forward, WorkStep, SocketsOK
  <2> QED
    BY <2>1, <2>2
<1>7. ASSUME DaemonEnds
      PROVE  SocketsOK'
  <2>1. <<>> \in Seq({"ADD", "SEND", "REMOVE"}) /\ Len(<<>>) <= Buffer
    BY <1>s
  <2> QED
    BY <1>7, <1>s, <2>1 DEF DaemonEnds, SocketsOK
<1>8. ASSUME UNCHANGED <<toDaemon, toProgram>>
      PROVE  SocketsOK'
  BY <1>8, <1>s DEF SocketsOK
<1> QED
  BY <1>1, <1>2, <1>3, <1>4, <1>5, <1>6, <1>7, <1>8 DEF Next, MainThread, ReceiveThread,
     ClientThread, WorkTask, Connect, ConnectFails, AddOrder, SendOrder, RemoveOrder, TestReady,
     TakeAck, GoOn, SpuriousWakeup, Vanish, NotifyMain, ReadError, Resume, Disconnect, EndChange,
     PassWork, Callback, CutShort, CallbackReturns, WorkStep, socketVars

(* The variables of the programs. *)
ProgramsOK ==
  /\ main \in [Programs -> {"connect", "order", "wait", "asleep", "ack", "ended"}]
  /\ order \in [Programs -> {None, "ADD", "SEND", "REMOVE"}]
  /\ sent \in [Programs -> 0 .. Sends]
  /\ ready \in [Programs -> BOOLEAN]
  /\ acked \in [Programs -> {None, "ADD", "REMOVE"}]
  /\ recv \in [Programs -> {"absent", "read", "notify"}]

LEMMA ProgramsStep ==
  ASSUME IInv, Next
  PROVE  ProgramsOK'
<1>s. ProgramsOK /\ Sends \in Nat
  BY SessionsAssumption DEF IInv, TypeOK, ProgramsOK
<1>1. ASSUME NEW p \in Programs, MainThread(p) \/ SpuriousWakeup(p)
      PROVE  ProgramsOK'
  <2>1. ready' \in [Programs -> BOOLEAN]
    BY <1>1, <1>s DEF MainThread, Connect, ConnectFails, AddOrder, SendOrder,
       RemoveOrder, Write, TestReady, SpuriousWakeup, TakeAck, GoOn, End, ProgramsOK
  <2>2. sent' \in [Programs -> 0 .. Sends]
    <3>1. sent' = sent \/ (sent[p] < Sends /\ sent' = [sent EXCEPT ![p] = @ + 1])
      BY <1>1 DEF MainThread, Connect, ConnectFails, AddOrder, SendOrder,
         RemoveOrder, Write, TestReady, SpuriousWakeup, TakeAck, GoOn, End
    <3> QED
      BY <3>1, <1>s DEF ProgramsOK
  <2>3. /\ order' \in [Programs -> {None, "ADD", "SEND", "REMOVE"}]
        /\ main' \in [Programs -> {"connect", "order", "wait", "asleep", "ack", "ended"}]
    BY <1>1, <1>s DEF MainThread, Connect, ConnectFails, AddOrder, SendOrder,
       RemoveOrder, Write, TestReady, SpuriousWakeup, TakeAck, GoOn, End, ProgramsOK
  <2>4. /\ acked' \in [Programs -> {None, "ADD", "REMOVE"}]
        /\ recv' \in [Programs -> {"absent", "read", "notify"}]
    BY <1>1, <1>s DEF MainThread, Connect, ConnectFails, AddOrder, SendOrder,
       RemoveOrder, Write, TestReady, SpuriousWakeup, TakeAck, GoOn, End, ProgramsOK
  <2> QED
    BY <2>1, <2>2, <2>3, <2>4 DEF ProgramsOK
<1>2. ASSUME NEW p \in Programs, ReceiveThread(p) \/ Vanish(p)
      PROVE  ProgramsOK'
  <2>1. ready' \in [Programs -> BOOLEAN]
    BY <1>2, <1>s DEF ReceiveThread, ReadFrame, ReadAck, NotifyMain, ReadError, Vanish, End,
       programVars, ProgramsOK
  <2>2. /\ main' \in [Programs -> {"connect", "order", "wait", "asleep", "ack", "ended"}]
        /\ recv' \in [Programs -> {"absent", "read", "notify"}]
    BY <1>2, <1>s DEF ReceiveThread, ReadFrame, ReadAck, NotifyMain, ReadError, Vanish, End,
       programVars, ProgramsOK
  <2>3. /\ order' = order /\ sent' = sent
        /\ acked' = acked \/ (\E a \in Acks : acked' = [acked EXCEPT ![p] = a])
    BY <1>2 DEF ReceiveThread, ReadFrame, ReadAck, NotifyMain, ReadError, Vanish, End,
       programVars
  <2>4. acked' \in [Programs -> {None, "ADD", "REMOVE"}]
    BY <1>s, <2>3 DEF ProgramsOK, Acks
  <2> QED
    BY <1>s, <2>1, <2>2, <2>3, <2>4 DEF ProgramsOK
<1>3. ASSUME UNCHANGED programVars
      PROVE  ProgramsOK'
  BY <1>s, <1>3 DEF programVars, ProgramsOK
<1> QED
  BY <1>1, <1>2, <1>3 DEF Next, ClientThread, ServeSend, ReadOrder, EndChange,
     WriteAck, Resume, Disconnect, WorkTask, Forward, PassWork, Callback, CutShort,
     CallbackReturns, WorkStep, DaemonEnds

(* The variables of the daemon. *)
DaemonOK ==
  /\ reset \in [Programs -> BOOLEAN]
  /\ alive \in BOOLEAN
  /\ thread \in [Programs -> {"absent", "read", "change", "ack", "resume", "closed"}]
  /\ serving \in [Programs -> {None, "ADD", "REMOVE"}]
  /\ known \in SUBSET Programs /\ subscribers \in SUBSET Programs
  /\ mixed \in BOOLEAN /\ paused \in BOOLEAN
  /\ work \in [at : {"gate", "dequeue", "callback"}, to : SUBSET Programs]
  /\ onBus \in [Programs -> 0 .. Sends]

LEMMA DaemonStep ==
  ASSUME IInv, Next
  PROVE  DaemonOK'
<1>s. DaemonOK
  BY DEF IInv, TypeOK, DaemonOK
<1>1. ASSUME NEW p \in Programs,
             MainThread(p) \/ SpuriousWakeup(p) \/ Vanish(p) \/ ReceiveThread(p)
      PROVE  DaemonOK'
  <2>0. reset' \in [Programs -> BOOLEAN]
    BY <1>1, <1>s DEF MainThread, Connect, ConnectFails, AddOrder, SendOrder, RemoveOrder, Write,
       TestReady, SpuriousWakeup, Vanish, TakeAck, GoOn, End, ReceiveThread, ReadFrame, ReadAck,
       NotifyMain, ReadError, socketVars, DaemonOK
  <2>1. /\ alive' = alive /\ paused' = paused
        /\ work' = work /\ onBus' = onBus
        /\ serving' = serving /\ known' = known /\ subscribers' = subscribers /\ mixed' = mixed
        /\ thread' = thread \/ thread' = [thread EXCEPT ![p] = "read"]
    BY <1>1 DEF MainThread, Connect, ConnectFails, AddOrder, SendOrder, RemoveOrder, Write,
       TestReady, SpuriousWakeup, Vanish, TakeAck, GoOn, End, ReceiveThread, ReadFrame, ReadAck,
       NotifyMain, ReadError, socketVars, threadVars, tableVars
  <2> QED
    BY <1>s, <2>0, <2>1 DEF DaemonOK
<1>2. ASSUME NEW p \in Programs, ClientThread(p)
      PROVE  DaemonOK'
  <2>1. /\ alive' = alive /\ reset' = reset /\ work' = work
        /\ paused' \in {paused, TRUE, FALSE}
        /\ known' \in {known, known \cup {p}, known \ {p}}
        /\ \E t \in {"read", "change", "ack", "resume", "closed"} :
             thread' = [thread EXCEPT ![p] = t]
        /\ \/ serving' = serving
           \/ \E o \in {None, "ADD", "REMOVE"} : serving' = [serving EXCEPT ![p] = o]
    BY <1>2 DEF ClientThread, ServeSend, ReadOrder, EndChange, WriteAck, Resume,
       Disconnect, ThreadStep, socketVars, tableVars
  <2>2. onBus' \in [Programs -> 0 .. Sends]
    <3>1. CASE ServeSend(p)
      BY <1>s, <3>1, OnBusBound DEF ServeSend, DaemonOK
    <3>2. CASE onBus' = onBus
      BY <1>s, <3>2 DEF DaemonOK
    <3> QED
      BY <1>2, <3>1, <3>2 DEF ClientThread, ReadOrder, EndChange, WriteAck, Resume,
         Disconnect
  <2>3. paused' \in BOOLEAN /\ reset' \in [Programs -> BOOLEAN] /\ alive' \in BOOLEAN
    BY <1>s, <2>1 DEF DaemonOK
  <2>4. known' \in SUBSET Programs /\ subscribers' \in SUBSET Programs
    <3>1. CASE \E o \in {"ADD", "REMOVE"} : ReadOrder(p, o)
      BY <1>s, <3>1 DEF ReadOrder, DaemonOK
    <3>2. CASE EndChange(p)
      <4>1. known' = known
        BY <3>2 DEF EndChange
      <4>2. CASE Changing # {p}
        BY <1>s, <3>2, <4>1, <4>2 DEF EndChange, DaemonOK
      <4>3. CASE Changing = {p}
        <5>1. PICK old \in SUBSET subscribers : subscribers' = known \cup old
          BY <3>2, <4>3 DEF EndChange
        <5> QED
          BY <1>s, <4>1, <5>1 DEF DaemonOK
      <4> QED
        BY <4>2, <4>3
    <3>3. CASE known' \in {known, known \ {p}} /\ subscribers' = subscribers
      BY <1>s, <3>3 DEF DaemonOK
    <3> QED
      BY <1>2, <3>1, <3>2, <3>3 DEF ClientThread, ServeSend, WriteAck, Resume, Disconnect,
         tableVars
  <2>6. mixed' \in BOOLEAN
    <3>1. \/ mixed' = mixed
          \/ mixed' = FALSE
          \/ mixed' = (mixed \/ Changing # {})
      BY <1>2 DEF ClientThread, ServeSend, ReadOrder, EndChange, WriteAck, Resume, Disconnect,
         tableVars
    <3> QED
      BY <1>s, <3>1, Zenon DEF DaemonOK
  <2>5. /\ thread' \in [Programs -> {"absent", "read", "change", "ack", "resume", "closed"}]
        /\ serving' \in [Programs -> {None, "ADD", "REMOVE"}]
    BY <1>s, <2>1 DEF DaemonOK
  <2> QED
    BY <1>s, <2>1, <2>2, <2>3, <2>4, <2>5, <2>6 DEF DaemonOK
<1>3. ASSUME WorkTask \/ Callback \/ CutShort
      PROVE  DaemonOK'
  <2>1. UNCHANGED <<reset, alive, threadVars, paused>>
    BY <1>3 DEF WorkTask, PassWork, Callback, CutShort, Forward, CallbackReturns, WorkStep,
       socketVars
  <2>3. work' \in [at : {"gate", "dequeue", "callback"}, to : SUBSET Programs]
    BY <1>3, <1>s DEF WorkTask, PassWork, Callback, CutShort, Forward, CallbackReturns,
       DaemonOK
  <2> QED
    BY <1>s, <2>1, <2>3 DEF DaemonOK, threadVars, tableVars
<1>4. ASSUME DaemonEnds
      PROVE  DaemonOK'
  <2>1. reset' \in [Programs -> BOOLEAN] /\ alive' \in BOOLEAN /\ paused' \in BOOLEAN
    BY <1>4 DEF DaemonEnds
  <2>2. work' \in [at : {"gate", "dequeue", "callback"}, to : SUBSET Programs]
    BY <1>4 DEF DaemonEnds
  <2> QED
    BY <1>4, <1>s, <2>1, <2>2 DEF DaemonEnds, DaemonOK
<1> QED
  BY <1>1, <1>2, <1>3, <1>4 DEF Next

--------------------------------------------------------------------------------
LEMMA StepInv == IInv /\ [Next]_sessionVars => IInv'
<1> SUFFICES ASSUME IInv, [Next]_sessionVars
             PROVE  IInv'
  OBVIOUS
<1>1. ASSUME Next
      PROVE  IInv'
  <2>1. TypeOK'
    BY <1>1, ProgramsStep, SocketsStep, DaemonStep
    DEF TypeOK, ProgramsOK, SocketsOK, DaemonOK
  <2> QED
    BY <1>1, <2>1, SessionStep, IndexedStep, SleepStep DEF IInv
<1>2. ASSUME UNCHANGED sessionVars
      PROVE  IInv'
  <2>1. TypeOK' /\ Indexed' /\ NoAckSleptOver'
    BY <1>2 DEF sessionVars, programVars, socketVars, threadVars, tableVars, Changing, IInv, TypeOK,
       Indexed, NoAckSleptOver
  <2>2. ASSUME NEW q \in Programs
        PROVE  Session(q)'
    BY <1>2, SameSession DEF Same, sessionVars, programVars, socketVars, threadVars, tableVars, IInv
  <2> QED
    BY <2>1, <2>2 DEF IInv
<1> QED
  BY <1>1, <1>2

LEMMA Invariance == Spec => []IInv
  BY InitInv, StepInv, PTL DEF Spec

(* Every variable has its type; the sockets never hold more than Buffer     *)
(* packages.                                                                *)
THEOREM TypeCorrect == Spec => []TypeOK
<1>1. IInv => TypeOK
  BY DEF IInv
<1> QED
  BY <1>1, Invariance, PTL

(* The ack a program takes out of socket_ack_order is the one for its last  *)
(* order, with any number of programs and frames between order and ack.     *)
THEOREM AcksMatchOrders == Spec => []AckIsForOrder
<1>1. IInv => AckIsForOrder
  BY DEF IInv, Session, Token, Progress, Here, AckIsForOrder
<1> QED
  BY <1>1, Invariance, PTL

(* An acked subscription is found by the callback until its program removes *)
(* it, whenever no thread is changing the reverse index, however the orders *)
(* of other programs overlap.                                               *)
THEOREM SubscriptionsLast == Spec => []AckedIsFound
<1>1. ASSUME IInv
      PROVE  AckedIsFound
  <2> SUFFICES ASSUME NEW p \in Programs, alive, main[p] \in {"ack", "order"},
                      order[p] \in {"ADD", "SEND"}
               PROVE  p \in subscribers
    BY DEF AckedIsFound
  <2>1. Session(p)
    BY <1>1 DEF IInv
  <2>2. ~Unread(p)
    BY <2>1 DEF Session, Progress, OneToken
  <2>3. p \in known
    BY <2>1, <2>2 DEF Session, Served
  <2> QED
    BY <1>1, <2>3 DEF IInv, Indexed
<1> QED
  BY <1>1, Invariance, PTL

(* No main thread sleeps while cv_ready is set, except when the receive     *)
(* thread is about to notify it.                                            *)
THEOREM NoLostWakeup == Spec => []NoAckSleptOver
<1>1. IInv => NoAckSleptOver
  BY DEF IInv
<1> QED
  BY <1>1, Invariance, PTL

(* When a program has the ack of its REMOVE, all its SEND orders have been  *)
(* handed to the HAL.                                                       *)
THEOREM SendsAreDone == Spec => []SendsBeforeRemove
<1>1. IInv => SendsBeforeRemove
  BY DEF IInv, Session, Progress, SendsBeforeRemove
<1> QED
  BY <1>1, Invariance, PTL
================================================================================
