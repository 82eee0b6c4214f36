------------------------------ MODULE Session ------------------------------
(***************************************************************************)
(* One request to the reference server from its first datagram to the      *)
(* stored file: ReferenceClient::read_file and write_file against          *)
(* ReferenceServer::handle_request (adapters/reference).                   *)
(*                                                                         *)
(* The handshake is modelled datagram by datagram on a network that loses, *)
(* duplicates and reorders: a datagram, once sent, may arrive any number   *)
(* of times or never.  The data plane after it is FileDelivery, which      *)
(* DataTransfer is proved to implement, except that each endpoint uses its *)
(* own parameters: the sender cuts the file by its block size, and the     *)
(* receiver ends at the first block shorter than its own.                  *)
(*                                                                         *)
(* The handler is the one the request created.  A repeated request reaches *)
(* that handler, the way the impairment proxy routes it once the handler   *)
(* has answered.  Packets of the wrong kind as a first reply, which this   *)
(* server never sends, and corruption other than that of an option's value *)
(* are left out.                                                           *)
(***************************************************************************)
EXTENDS Options

CONSTANTS
    Operations,         \* the requests made: subset of {"read", "write"}
    RequestedOptions,   \* the option lists a client may be told to use
    PayloadSizes,       \* the sizes of the files transferred
    Supported,          \* the options both engines support
    Garbled,            \* options whose value the proxy may corrupt
    ForeignOacks,       \* OACKs of another server than the reference one
    MaxRetransmissions

ASSUME SessionAssumption ==
    /\ Operations \subseteq {"read", "write"}
    /\ RequestedOptions \subseteq [OptionNames -> Nat \cup {None}]
    /\ PayloadSizes \subseteq Nat
    /\ Supported \subseteq OptionNames
    /\ Garbled \subseteq OptionNames
    /\ ForeignOacks \subseteq [OptionNames -> Nat \cup {None, Malformed}]
    /\ MaxRetransmissions \in Nat

VARIABLES
    operation, requested, payload,  \* the job, fixed at the start
    available,      \* read: the file exists; write: the name is still free
    client,         \* where the client is, or its outcome
    attempts,       \* requests the client has sent
    clientParams,   \* the parameters in force at the client
    handler,        \* where the server's handler is, or its outcome
    oack,           \* the options it has agreed to
    offers,         \* how many times it has sent its first answer
    handlerParams,  \* the parameters in force at the handler
    network,        \* every datagram of the handshake ever sent
    blocks,         \* blocks accepted by the receiving endpoint
    bytes,          \* bytes in them
    ended           \* the receiving endpoint has seen its last block

jobVars == <<operation, requested, payload, available>>
clientVars == <<client, attempts, clientParams>>
handlerVars == <<handler, oack, offers, handlerParams>>
dataVars == <<blocks, bytes, ended>>
vars == <<jobVars, clientVars, handlerVars, network, dataVars>>

(* An endpoint "ended" without a transfer, or its transfer has an outcome; *)
(* a "dead" client has ended its process.                                  *)
ClientStates == {"requesting", "ended", "dead", "transferring", "succeeded", "failed"}
HandlerStates ==
    {"none", "offering", "ended", "transferring", "succeeded", "failed"}

(* The lists of options a server may answer with.                          *)
AgreedLists == [OptionNames -> Nat \cup {None, Malformed}]

(* The datagrams of the handshake.                                         *)
Datagrams ==
    [to : {"server"}, kind : {"request", "ack0", "error"}]
        \cup [to : {"client"}, kind : {"ack0", "error", "data"}]
        \cup [to : {"client"}, kind : {"oack"}, options : AgreedLists]

ParameterSets == [block : Nat, window : Nat]

TypeOK ==
    /\ operation \in Operations
    /\ requested \in RequestedOptions
    /\ payload \in PayloadSizes
    /\ available \in BOOLEAN
    /\ client \in ClientStates
    /\ attempts \in 1 .. MaxRetransmissions + 1
    /\ clientParams \in ParameterSets
    /\ handler \in HandlerStates
    /\ oack \in AgreedLists
    /\ offers \in 0 .. MaxRetransmissions + 1
    /\ handlerParams \in ParameterSets
    /\ network \subseteq Datagrams
    /\ blocks \in Nat
    /\ bytes \in Nat
    /\ ended \in BOOLEAN

Send(m) == network' = network \cup {m}

(* The bytes in block number k of the file, cut by block size bs, and how  *)
(* many blocks that makes (block_payload, total_block_count; a division by *)
(* 0 that does not trap gives 0).                                          *)
BytesInBlock(k, bs) ==
    LET start == (k - 1) * bs IN
    IF start >= payload THEN 0
    ELSE IF bs <= payload - start THEN bs ELSE payload - start

(* A plausible bug: the terminating empty block is forgotten.              *)
BlockCountRoundsUp(bs) == IF bs = 0 THEN 1 ELSE (payload + bs - 1) \div bs

BlockCount(bs) == IF bs = 0 THEN 1 ELSE payload \div bs + 1

-----------------------------------------------------------------------------
Init ==
    /\ operation \in Operations
    /\ requested \in RequestedOptions
    /\ payload \in PayloadSizes
    /\ available \in BOOLEAN
    /\ client = "requesting"
    /\ attempts = 1
    /\ clientParams = DefaultParameters
    /\ handler = "none"
    /\ oack = NoOptions
    /\ offers = 0
    /\ handlerParams = DefaultParameters
    /\ network = {[to |-> "server", kind |-> "request"]}
    /\ blocks = 0
    /\ bytes = 0
    /\ ended = FALSE

(* A plausible bug: the bound of the retransmission loop is off by one.    *)
ClientAsksOnceMore ==
    /\ client = "requesting"
    /\ \/ /\ attempts <= MaxRetransmissions + 1
          /\ attempts' = attempts + 1
          /\ Send([to |-> "server", kind |-> "request"])
          /\ UNCHANGED client
       \/ /\ attempts > MaxRetransmissions + 1
          /\ client' = "ended"
          /\ UNCHANGED <<attempts, network>>
    /\ UNCHANGED <<jobVars, clientParams, handlerVars, dataVars>>

(* The client of a request in its retransmission loop.                     *)
ClientTimesOut ==
    /\ client = "requesting"
    /\ \/ /\ attempts <= MaxRetransmissions
          /\ attempts' = attempts + 1
          /\ Send([to |-> "server", kind |-> "request"])
          /\ UNCHANGED client
       \/ /\ attempts > MaxRetransmissions
          /\ client' = "ended"
          /\ UNCHANGED <<attempts, network>>
    /\ UNCHANGED <<jobVars, clientParams, handlerVars, dataVars>>

(* A plausible bug: the OACK is acknowledged but not applied.              *)
ClientIgnoresOack(m) ==
    /\ client = "requesting"
    /\ m.to = "client" /\ m.kind = "oack"
    /\ client' = "transferring"
    /\ IF operation = "read" THEN Send([to |-> "server", kind |-> "ack0"])
       ELSE UNCHANGED network
    /\ UNCHANGED <<jobVars, attempts, clientParams, handlerVars, dataVars>>

(* Another: whatever the server offers is applied.                         *)
ClientTakesAnyOack(m) ==
    /\ client = "requesting"
    /\ m.to = "client" /\ m.kind = "oack"
    /\ client' = "transferring"
    /\ clientParams' = Adopted(m.options)
    /\ IF operation = "read" THEN Send([to |-> "server", kind |-> "ack0"])
       ELSE UNCHANGED network
    /\ UNCHANGED <<jobVars, attempts, handlerVars, dataVars>>

(* An OACK as the first reply: the client adopts it, and a reader          *)
(* acknowledges it with ACK 0;                                             *)
AdoptOack(options) ==
    /\ AcceptsOack(options, requested) /\ Readable(options)
    /\ clientParams' = Adopted(options)
    /\ client' = "transferring"
    /\ IF operation = "read" THEN Send([to |-> "server", kind |-> "ack0"])
       ELSE UNCHANGED network

(* or rejects it with ERROR 8;                                             *)
RejectOack(options) ==
    /\ ~AcceptsOack(options, requested)
    /\ client' = "ended"
    /\ Send([to |-> "server", kind |-> "error"])
    /\ UNCHANGED clientParams

(* or dies of it: std::stoul throws at a requested option's value that is  *)
(* no number, or run_data_sender's division by a block size of 0 traps.    *)
(* Nobody catches either.  Of an option to reject and one to die of, the   *)
(* first in the datagram decides.                                          *)
DieOfOack(options) ==
    /\ \/ \E o \in OptionNames : options[o] = Malformed /\ requested[o] # None
       \/ /\ AcceptsOack(options, requested)
          /\ operation = "write" /\ Adopted(options).block = 0
    /\ client' = "dead"
    /\ UNCHANGED <<clientParams, network>>

ClientGetsOack(m) ==
    /\ client = "requesting"
    /\ m.to = "client" /\ m.kind = "oack"
    /\ AdoptOack(m.options) \/ RejectOack(m.options) \/ DieOfOack(m.options)
    /\ UNCHANGED <<jobVars, attempts, handlerVars, dataVars>>

ClientGetsError(m) ==
    /\ client = "requesting"
    /\ m.to = "client" /\ m.kind = "error"
    /\ client' = "ended"
    /\ UNCHANGED <<jobVars, attempts, clientParams, handlerVars, network, dataVars>>

-----------------------------------------------------------------------------
(* The data plane.                                                         *)

SenderBlock == IF operation = "read" THEN handlerParams.block ELSE clientParams.block
ReceiverBlock == IF operation = "read" THEN clientParams.block ELSE handlerParams.block

(* The endpoint has entered run_data_sender, and its datagrams may still   *)
(* be under way after it has left.                                         *)
SenderStarted ==
    (IF operation = "read" THEN handler ELSE client)
        \in {"transferring", "succeeded", "failed"}

ReceiverRuns == (IF operation = "read" THEN client ELSE handler) = "transferring"

(* A plausible bug: a block of exactly the block size ends the transfer.   *)
AcceptFullBlockAsLast ==
    /\ blocks < BlockCount(SenderBlock)
    /\ blocks' = blocks + 1
    /\ bytes' = bytes + BytesInBlock(blocks + 1, SenderBlock)
    /\ ended' = (BytesInBlock(blocks + 1, SenderBlock) <= ReceiverBlock)

(* The receiver accepts the sender's next block; its end-of-transfer test  *)
(* uses its own block size.                                                *)
AcceptNextBlock ==
    /\ blocks < BlockCount(SenderBlock)
    /\ blocks' = blocks + 1
    /\ bytes' = bytes + BytesInBlock(blocks + 1, SenderBlock)
    /\ ended' = (BytesInBlock(blocks + 1, SenderBlock) < ReceiverBlock)

(* The first DATA as the first reply to a read, ACK 0 to a write: the      *)
(* server ignored the options, and the default parameters are in force.    *)
(* The DATA block primes the receiver's loop.                              *)
ClientGetsPlainReply(m) ==
    /\ client = "requesting"
    /\ m.to = "client"
    /\ \/ operation = "read" /\ m.kind = "data" /\ AcceptNextBlock
       \/ operation = "write" /\ m.kind = "ack0" /\ UNCHANGED dataVars
    /\ client' = "transferring"
    /\ UNCHANGED <<jobVars, attempts, clientParams, handlerVars, network>>

BlockArrives ==
    /\ SenderStarted /\ ReceiverRuns
    /\ ~ended
    /\ AcceptNextBlock
    /\ UNCHANGED <<jobVars, clientVars, handlerVars, network>>

(* run_data_receiver, waiting for block 1, prods its peer with ACK 0.      *)
ReceiverProds ==
    /\ ReceiverRuns
    /\ blocks = 0
    /\ Send([to |-> IF operation = "read" THEN "server" ELSE "client", kind |-> "ack0"])
    /\ UNCHANGED <<jobVars, clientVars, handlerVars, dataVars>>

-----------------------------------------------------------------------------
(* handle_request, up to the data plane.                                   *)

(* The options as they arrive: a write announces its size, and the proxy   *)
(* may have corrupted some values.                                         *)
Arriving(garbled) ==
    LET effective == IF operation = "write" /\ requested["tsize"] # None
                     THEN [requested EXCEPT !["tsize"] = payload]
                     ELSE requested
        asked == RequestedList(effective, Supported)
    IN
    [o \in OptionNames |->
        IF o \in garbled /\ asked[o] # None THEN Malformed ELSE asked[o]]

(* The OACKs the server may answer with: that of the reference server, or  *)
(* one of another server under test.                                       *)
PossibleOacks ==
    {NegotiateServerOptions(Arriving(garbled), Supported,
                            IF operation = "read" THEN payload ELSE None)
        : garbled \in SUBSET Garbled} \cup ForeignOacks

(* The OACK, or without options what RFC 1350 answers to the request.      *)
FirstAnswer(options) ==
    IF options # NoOptions
    THEN [to |-> "client", kind |-> "oack", options |-> options]
    ELSE [to |-> "client", kind |-> IF operation = "read" THEN "data" ELSE "ack0"]

HandlerRefuses ==
    /\ handler = "none"
    /\ [to |-> "server", kind |-> "request"] \in network
    /\ ~available
    /\ handler' = "ended"
    /\ Send([to |-> "client", kind |-> "error"])
    /\ UNCHANGED <<jobVars, clientVars, oack, offers, handlerParams, dataVars>>

(* Only the handler of a read request waits for the OACK's ACK 0; that of  *)
(* a write request sends its OACK once and receives.                       *)
HandlerAnswers ==
    /\ handler = "none"
    /\ [to |-> "server", kind |-> "request"] \in network
    /\ available
    /\ oack' \in PossibleOacks
    /\ handlerParams' = Parameters(oack')
    /\ handler' = IF operation = "read" /\ oack' # NoOptions
                  THEN "offering" ELSE "transferring"
    /\ offers' = 1
    /\ Send(FirstAnswer(oack'))
    /\ UNCHANGED <<jobVars, clientVars, dataVars>>

(* A timeout, or a packet that is neither ACK 0 nor ERROR (a repeated      *)
(* request), makes the handler offer once more.                            *)
HandlerOffersAgain ==
    /\ handler = "offering"
    /\ \/ /\ offers <= MaxRetransmissions
          /\ offers' = offers + 1
          /\ Send(FirstAnswer(oack))
          /\ UNCHANGED handler
       \/ /\ offers > MaxRetransmissions
          /\ handler' = "ended"
          /\ UNCHANGED <<offers, network>>
    /\ UNCHANGED <<jobVars, clientVars, oack, handlerParams, dataVars>>

HandlerGetsAck0 ==
    /\ handler = "offering"
    /\ [to |-> "server", kind |-> "ack0"] \in network
    /\ handler' = "transferring"
    /\ UNCHANGED <<jobVars, clientVars, oack, offers, handlerParams, network, dataVars>>

(* The client's ERROR 8 ends the offer, or the receiver's loop.            *)
HandlerGetsError ==
    /\ [to |-> "server", kind |-> "error"] \in network
    /\ \/ handler = "offering" /\ handler' = "ended"
       \/ handler = "transferring" /\ ~ended /\ handler' = "failed"
    /\ UNCHANGED <<jobVars, clientVars, oack, offers, handlerParams, network, dataVars>>

-----------------------------------------------------------------------------
(* The endpoints return: the receiver once it has its last block, and then *)
(* it stores the file; the sender once all its blocks are acknowledged.    *)
ClientSucceeds ==
    /\ client = "transferring"
    /\ IF operation = "read" THEN ended ELSE blocks = BlockCount(SenderBlock)
    /\ client' = "succeeded"
    /\ UNCHANGED <<jobVars, attempts, clientParams, handlerVars, network, dataVars>>

HandlerSucceeds ==
    /\ handler = "transferring"
    /\ IF operation = "write" THEN ended ELSE blocks = BlockCount(SenderBlock)
    /\ handler' = "succeeded"
    /\ UNCHANGED <<jobVars, clientVars, oack, offers, handlerParams, network, dataVars>>

(* Retransmissions run out, on either side, or a complete file cannot be   *)
(* written: the client then reports failure, while the handler keeps it to *)
(* itself.                                                                 *)
ClientGivesUp ==
    /\ client = "transferring"
    /\ client' = "failed"
    /\ UNCHANGED <<jobVars, attempts, clientParams, handlerVars, network, dataVars>>

HandlerGivesUp ==
    /\ handler = "transferring"
    /\ handler' = "failed"
    /\ UNCHANGED <<jobVars, clientVars, oack, offers, handlerParams, network, dataVars>>

Over ==
    /\ client \in {"ended", "dead", "succeeded", "failed"}
    /\ handler \in {"none", "ended", "succeeded", "failed"}
    /\ UNCHANGED vars

Next ==
    \/ ClientTimesOut
    \/ \E m \in network :
          ClientGetsOack(m) \/ ClientGetsPlainReply(m) \/ ClientGetsError(m)
    \/ HandlerRefuses
    \/ HandlerAnswers
    \/ HandlerOffersAgain
    \/ HandlerGetsAck0
    \/ HandlerGetsError
    \/ ReceiverProds
    \/ BlockArrives
    \/ ClientSucceeds
    \/ HandlerSucceeds
    \/ ClientGivesUp
    \/ HandlerGivesUp
    \/ Over

Spec == Init /\ [][Next]_vars

-----------------------------------------------------------------------------
(* Properties.                                                             *)

(* Once both endpoints of a read are in the data plane they use the same   *)
(* block size and window: the parameters "actually in force for one        *)
(* transfer" (NegotiatedParameters) are those of the transfer, not of one  *)
(* endpoint, whatever happened to the OACK and to the ACK 0 that confirms  *)
(* it (handle_request waits for ACK 0 before it sends data), if its values *)
(* fit into the client's fields.                                           *)
ReadParametersAgree ==
    /\ operation = "read" /\ Fits(oack)
    /\ client \in {"transferring", "succeeded"}
    /\ handler \in {"transferring", "succeeded"}
    => clientParams = handlerParams

(* The inductive invariant behind it: what the network carries is what the *)
(* handler agreed to, and the client's parameters come from the network.   *)
ReadNegotiationInv ==
    operation = "read" =>
        /\ handlerParams = Parameters(oack)
        /\ client = "requesting" => clientParams = DefaultParameters
        /\ client \in {"transferring", "succeeded", "failed"} =>
               /\ handler # "none"
               /\ clientParams = Adopted(oack)
        /\ \A m \in network : m.to = "client" =>
               /\ handler # "none"
               /\ m.kind = "oack" => m.options = oack
               /\ m.kind = "data" => oack = NoOptions

(* read_file stores a file only when it is complete.                       *)
DownloadIsWhole ==
    operation = "read" /\ client = "succeeded" => bytes = payload

(* A write that leaves the block size alone: handle_request stores the     *)
(* file only when it is complete, and when write_file reports success, the *)
(* handler has the whole file and knows that it has, also when the OACK    *)
(* was lost and the client goes on without options.                        *)
UploadIsHonest ==
    operation = "write" /\ oack["blksize"] \in {None, DefaultBlockSize} =>
        /\ handler = "succeeded" => bytes = payload
        /\ client = "succeeded" => ended /\ bytes = payload

(* The same of every write: with a negotiated block size, too, the handler *)
(* recognises the final block and stores the whole file (C-03).            *)
NegotiatedUploadIsWhole ==
    operation = "write" /\ handler = "succeeded" => bytes = payload

(* The client never uses an option it did not ask for, also when the       *)
(* server offers one: it takes an answer as a whole or not at all, and     *)
(* what it takes is what the server answered, however large, cut to the    *)
(* width of its field (apply_oack_to_client).  Only another server than    *)
(* the reference one can make it die of an answer.                         *)
OnlyRequestedOptions ==
    /\ client \in {"transferring", "succeeded", "failed"} =>
          /\ requested["blksize"] = None => clientParams.block = DefaultBlockSize
          /\ requested["windowsize"] = None => clientParams.window = 1
          /\ \/ clientParams = DefaultParameters
             \/ /\ AcceptsOack(oack, requested) /\ Readable(oack)
                /\ clientParams = Adopted(oack)
    /\ client = "dead" => oack \in ForeignOacks
=============================================================================
