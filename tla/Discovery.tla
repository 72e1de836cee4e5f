------------------------------ MODULE Discovery ------------------------------
(***************************************************************************)
(* Discovery by ADDP (main_loop and addpParseScanRequest,                  *)
(* addpBuildDeviceResponse in src/main_loop.cpp) on top of the life of the *)
(* controller process: every step of ControllerLifecycle, and what main's  *)
(* steps into and out of "handle" do to the datagrams.                     *)
(*                                                                         *)
(* Clients and the network are external.  The network loses, reorders and  *)
(* repeats datagrams; a client repeats a request it has no answer to.      *)
(* One buffer takes every datagram and the answers as well, and a datagram *)
(* shorter than a request leaves the end of the buffer as it was.          *)
(***************************************************************************)
EXTENDS ControllerLifecycle, Naturals

CONSTANTS
    Clients,        \* who scans for controllers
    Stranger,       \* who sends other datagrams to the same port
    MaxSequence,    \* bound: requests of each client
    MaxNoise        \* bound: other datagrams on their way at a time
ASSUME ClientAssumption == IsFiniteSet(Clients) /\ Stranger \notin Clients
ASSUME WireAssumption == MaxSequence \in Nat /\ MaxNoise \in Nat

VARIABLES
    asked,          \* the last sequence number a client has used
    wire,           \* datagrams on their way to the controller, none of them lost
    buffer,         \* the datagram in main_loop's buffer
    answers         \* history: answers that have reached their client

net == <<asked, wire, buffer, answers>>
allVars == <<vars, net>>

(* ADDP_SCAN_REQUEST, ADDP_DEVICE_RESPONSE, and any other head *)
Heads == {"scan", "response", "other"}
Sequences == 0..MaxSequence
Senders == Clients \cup {Stranger}
Datagram == [from : Senders, whole : BOOLEAN, head : Heads,
             client : Senders, sequence : Sequences]
Response == [to : Senders, client : Senders, sequence : Sequences]

DiscoveryTypeOK ==
    /\ TypeOK
    /\ asked \in [Clients -> Sequences]
    /\ wire \subseteq Datagram
    /\ buffer \in Datagram
    /\ answers \subseteq Response

(* The buffer is not initialised; its first contents are of no request. *)
Unread == [from |-> Stranger, whole |-> FALSE, head |-> "other",
           client |-> Stranger, sequence |-> 0]

DiscoveryInit ==
    /\ Init
    /\ asked = [c \in Clients |-> 0]
    /\ wire = {} /\ answers = {}
    /\ buffer = Unread

-----------------------------------------------------------------------------
(* The clients and the network.  A datagram that gets lost is never put on *)
(* the wire; one that comes while the socket is not open is lost, and what *)
(* a client does then is left out.                                         *)
Open == "socket" \in held /\ main # "killed"

Request(c) == [from |-> c, whole |-> TRUE, head |-> "scan",
               client |-> c, sequence |-> asked[c]]

Wanting(c) ==
    asked[c] > 0 /\ [to |-> c, client |-> c, sequence |-> asked[c]] \notin answers

Scan(c) ==
    /\ Open
    /\ asked[c] < MaxSequence
    /\ asked' = [asked EXCEPT ![c] = @ + 1]
    /\ wire' \in {wire, wire \cup {[Request(c) EXCEPT !.sequence = asked[c] + 1]}}
    /\ UNCHANGED <<vars, buffer, answers>>

Retry(c) ==
    /\ Open /\ Wanting(c)
    /\ wire' = wire \cup {Request(c)}
    /\ UNCHANGED <<vars, asked, buffer, answers>>

(* A datagram that is no request: another controller's answer, or one with *)
(* no more than a request's first bytes.                                   *)
Noise ==
    /\ Open
    /\ Cardinality({d \in wire : d.from = Stranger}) < MaxNoise
    /\ wire' \in {wire \cup {[Unread EXCEPT !.whole = TRUE, !.head = "response"]},
                  wire \cup {[Unread EXCEPT !.head = "scan"]}}
    /\ UNCHANGED <<vars, asked, buffer, answers>>

-----------------------------------------------------------------------------
(* networkReceiveData: the datagram goes to the head of the buffer; the    *)
(* network may bring it again.                                             *)
Receive ==
    /\ main = "receive" /\ main' = "handle"
    /\ \E d \in wire :
        /\ wire' \in {wire, wire \ {d}}
        /\ buffer' = IF d.whole
                     THEN d
                     ELSE [buffer EXCEPT !.from = d.from, !.whole = FALSE,
                                         !.head = d.head]
    /\ UNCHANGED <<asked, answers>>

ParsedAnySize ==             \* mutant: does not look at the datagram's size
    buffer.head = "scan"

(* addpParseScanRequest *)
Parsed == buffer.whole /\ buffer.head = "scan"

Answering == main = "handle" /\ main' = "loop" /\ Parsed

AnswerUnnumbered ==          \* mutant: does not copy the sequence number
    /\ Answering
    /\ buffer' = [buffer EXCEPT !.head = "response"]
    /\ answers' = answers \cup {[to |-> buffer.from, client |-> buffer.client,
                                 sequence |-> 0]}
    /\ UNCHANGED <<asked, wire>>

(* addpBuildDeviceResponse, and the send.  The answer is built over the    *)
(* request, with the request's sequence number and addresses; it may not   *)
(* be sent, or get lost.                                                   *)
Answer ==
    /\ Answering
    /\ buffer' = [buffer EXCEPT !.head = "response"]
    /\ answers' = answers \cup {[to |-> buffer.from, client |-> buffer.client,
                                 sequence |-> buffer.sequence]}
    /\ UNCHANGED <<asked, wire>>

AnswerLost ==
    /\ Answering
    /\ buffer' = [buffer EXCEPT !.head = "response"]
    /\ UNCHANGED <<asked, wire, answers>>

Ignore ==
    /\ main = "handle" /\ main' = "loop"
    /\ ~Parsed
    /\ UNCHANGED net

(* Every other step of the process, a datagram that comes after the stop   *)
(* request among them; the socket is closed with what it has queued, and   *)
(* the buffer is gone with main_loop.                                      *)
Elsewhere ==
    /\ <<main, main'>> \notin {<<"receive", "handle">>, <<"handle", "loop">>}
    /\ wire' = IF Open' THEN wire ELSE {}
    /\ buffer' = IF main' = "stop" THEN Unread ELSE buffer
    /\ UNCHANGED <<asked, answers>>

DiscoveryStep == Receive \/ Answer \/ AnswerLost \/ Ignore \/ Elsewhere

DiscoveryNext ==
    \/ Next /\ DiscoveryStep
    \/ Noise \/ \E c \in Clients : Scan(c) \/ Retry(c)

(* On top of the threads' scheduling: a client repeats its request; of a   *)
(* datagram sent again and again one arrives, and is answered.             *)
Ask(c) == buffer' = Request(c)

DiscoverySpec ==
    /\ DiscoveryInit /\ [][DiscoveryNext]_allVars
    /\ WF_allVars(MainStep /\ DiscoveryStep)
    /\ WF_allVars(ServerStep /\ DiscoveryStep)
    /\ WF_allVars(PollStep /\ DiscoveryStep)
    /\ \A c \in Clients :
        /\ WF_allVars(Retry(c))
        /\ SF_allVars(ReceivePacket /\ Receive /\ Ask(c))
        /\ SF_allVars(HandlePacket /\ Answer /\ buffer = Request(c))

-----------------------------------------------------------------------------
(* No answer goes to a client that has not asked for it, with the          *)
(* addresses and a sequence number of its own: what an earlier datagram,   *)
(* of another client or the answer to it, has left in the buffer is never  *)
(* taken for a request.                                                    *)
AnswersAsked == \A a \in answers :
    a.to \in Clients /\ a.client = a.to /\ a.sequence \in 1..asked[a.to]

(* The address an answer announces is on the interface when it is sent,    *)
(* whatever the OPC UA and the polling thread do to the pool's addresses.  *)
AnnouncesLive == [][answers' # answers => "controller" \in nic]_allVars

(* A client that keeps asking is answered, unless the controller stops     *)
(* before or has never come to serve.                                      *)
Serves == main \in {"loop", "receive", "handle"} /\ loopRunning
ClientsAnswered == \A c \in Clients :
    Wanting(c) /\ Serves ~> ~Wanting(c) \/ ~Serves
=============================================================================
