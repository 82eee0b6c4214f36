--------------------------- MODULE SessionProofs ---------------------------
(***************************************************************************)
(* Proofs about option negotiation (Options) and the handshake (Session).  *)
(***************************************************************************)
EXTENDS Session, TLAPS

(* clamp_block_size puts every request into the range of RFC 2348.         *)
LEMMA ClampInRange ==
    ASSUME NEW requestedSize \in Nat
    PROVE  ClampBlockSize(requestedSize) \in MinimumBlockSize .. MaximumBlockSize
BY OptionLimits DEF ClampBlockSize

(* What negotiate_server_options agrees to is a list of options with       *)
(* values that fit into their fields.                                      *)
LEMMA NegotiatedType ==
    ASSUME NEW request \in [OptionNames -> Nat \cup {None, Malformed}],
           NEW supported, NEW fileSize \in Nat \cup {None}
    PROVE  /\ NegotiateServerOptions(request, supported, fileSize)
                  \in [OptionNames -> Nat \cup {None}]
           /\ NegotiateServerOptions(request, supported, fileSize)["blksize"] # 0
           /\ Fits(NegotiateServerOptions(request, supported, fileSize))
<1> DEFINE asked == [o \in OptionNames |-> IF o \in supported THEN request[o] ELSE None]
<1>1. asked \in [OptionNames -> Nat \cup {None, Malformed}]
  OBVIOUS
<1>2. \A n \in Nat : ClampBlockSize(n) \in Nat /\ ClampBlockSize(n) # 0
                      /\ ClampBlockSize(n) < BlockSizes
  BY ClampInRange, OptionLimits
<1> HIDE DEF asked
<1>3. /\ asked["blksize"] \in Nat \cup {None, Malformed}
      /\ asked["timeout"] \in Nat \cup {None, Malformed}
      /\ asked["tsize"] \in Nat \cup {None, Malformed}
      /\ asked["windowsize"] \in Nat \cup {None, Malformed}
  BY <1>1 DEF OptionNames
<1> DEFINE window == asked["windowsize"]
           answer ==
             [blksize    |-> IF asked["blksize"] < 0 THEN None
                             ELSE ClampBlockSize(asked["blksize"]),
              timeout    |-> IF asked["timeout"] \in 1 .. MaximumTimeout
                             THEN asked["timeout"] ELSE None,
              tsize      |-> IF asked["tsize"] # None /\ fileSize # None THEN fileSize
                             ELSE IF asked["tsize"] < 0 THEN None ELSE asked["tsize"],
              windowsize |-> IF window < 1 THEN None
                             ELSE IF window > MaximumWindow THEN MaximumWindow ELSE window]
<1>4. NegotiateServerOptions(request, supported, fileSize) = answer
  BY DEF NegotiateServerOptions, asked
<1>5. /\ answer["blksize"] \in Nat \cup {None} /\ answer["blksize"] < BlockSizes
      /\ answer["blksize"] # 0
      /\ answer["timeout"] \in Nat \cup {None}
      /\ answer["tsize"] \in Nat \cup {None}
      /\ answer["windowsize"] \in Nat \cup {None} /\ answer["windowsize"] < Windows
  BY <1>2, <1>3, OptionLimits DEF None, Malformed
<1>6. answer = [o \in OptionNames |-> answer[o]]
  BY DEF OptionNames
<1> HIDE DEF answer
<1>7. answer \in [OptionNames -> Nat \cup {None}]
  BY <1>5, <1>6 DEF OptionNames
<1> QED  BY <1>4, <1>5, <1>7 DEF Fits

(* Whatever a reference client asks for and whatever the proxy does to the *)
(* values, it never rejects the OACK of a reference server nor dies of it: *)
(* every option of the OACK answers one of the request, with a number      *)
(* (apply_oack_to_client).                                                 *)
THEOREM ReferenceOackIsAccepted ==
    ASSUME NEW options \in [OptionNames -> Nat \cup {None}],
           NEW request \in [OptionNames -> Nat \cup {None, Malformed}],
           NEW supported, NEW fileSize \in Nat \cup {None},
           \A o \in OptionNames :
               request[o] # None => RequestedList(options, supported)[o] # None
    PROVE  LET answer == NegotiateServerOptions(request, supported, fileSize)
           IN  AcceptsOack(answer, options) /\ Readable(answer)
<1>1. ASSUME NEW o \in OptionNames, options[o] = None
      PROVE  NegotiateServerOptions(request, supported, fileSize)[o] = None
  <2>1. request[o] = None
    BY <1>1 DEF RequestedList
  <2> QED  BY <2>1 DEF NegotiateServerOptions, OptionNames, None
<1>2. Readable(NegotiateServerOptions(request, supported, fileSize))
  BY NegotiatedType DEF Readable, None, Malformed
<1> QED  BY <1>1, <1>2 DEF AcceptsOack

-----------------------------------------------------------------------------
LEMMA ParametersType ==
    ASSUME NEW agreed \in AgreedLists
    PROVE  /\ Parameters(agreed) \in ParameterSets /\ Adopted(agreed) \in ParameterSets
           /\ Adopted(agreed).block <= Parameters(agreed).block
           /\ Fits(agreed) => Adopted(agreed) = Parameters(agreed)
           /\ agreed["blksize"] = None => Adopted(agreed).block = DefaultBlockSize
           /\ agreed["windowsize"] = None => Adopted(agreed).window = 1
<1> DEFINE p == Parameters(agreed)
<1>1. /\ agreed["blksize"] \in Nat \cup {None, Malformed}
      /\ agreed["windowsize"] \in Nat \cup {None, Malformed}
  BY DEF AgreedLists, OptionNames
<1>2. /\ p = [block |-> p.block, window |-> p.window]
      /\ p.block = IF agreed["blksize"] < 0 THEN DefaultBlockSize ELSE agreed["blksize"]
      /\ p.window = IF agreed["windowsize"] < 0 THEN 1 ELSE agreed["windowsize"]
  BY DEF Parameters
<1>3. /\ DefaultBlockSize \in Nat /\ DefaultBlockSize < BlockSizes /\ 1 < Windows
      /\ BlockSizes \in Nat \ {0} /\ Windows \in Nat \ {0}
  BY OptionLimits
<1>4. p.block \in Nat /\ p.window \in Nat
  BY <1>1, <1>2, <1>3 DEF None, Malformed
<1>5. Adopted(agreed) = [block |-> p.block % BlockSizes, window |-> p.window % Windows]
  BY DEF Adopted
<1> HIDE DEF p
<1>6. \A n \in Nat, w \in Nat \ {0} : /\ n % w \in Nat /\ n % w <= n
                                      /\ n < w => n % w = n
  <2>1. ASSUME NEW n \in Nat, NEW w \in Nat \ {0}
        PROVE  n % w \in Nat /\ n % w <= n /\ (n < w => n % w = n)
    <3>1. n = w * (n \div w) + (n % w) /\ n \div w \in Nat /\ n % w \in 0 .. w - 1
      OBVIOUS
    <3>2. w * (n \div w) \in Nat
      BY <3>1
    <3>3. n < w => n % w = n
      OBVIOUS
    <3> QED  BY <3>1, <3>2, <3>3
  <2> QED  BY <2>1
<1>7. /\ p.block % BlockSizes \in Nat /\ p.block % BlockSizes <= p.block
      /\ p.block < BlockSizes => p.block % BlockSizes = p.block
      /\ p.window % Windows \in Nat
      /\ p.window < Windows => p.window % Windows = p.window
  BY <1>3, <1>4, <1>6
<1>8. /\ Fits(agreed) => p.block < BlockSizes /\ p.window < Windows
      /\ agreed["blksize"] = None => p.block = DefaultBlockSize
      /\ agreed["windowsize"] = None => p.window = 1
  BY <1>2, <1>3 DEF Fits, None
<1>9. /\ p \in ParameterSets /\ Adopted(agreed) \in ParameterSets
      /\ Adopted(agreed).block <= p.block
      /\ Fits(agreed) => Adopted(agreed) = p
      /\ agreed["blksize"] = None => Adopted(agreed).block = DefaultBlockSize
      /\ agreed["windowsize"] = None => Adopted(agreed).window = 1
  BY <1>2, <1>3, <1>4, <1>5, <1>7, <1>8 DEF ParameterSets
<1> QED  BY <1>9 DEF p

LEMMA NoOptionsParameters ==
    /\ NoOptions \in AgreedLists
    /\ Parameters(NoOptions) = DefaultParameters /\ Adopted(NoOptions) = DefaultParameters
    /\ DefaultParameters \in ParameterSets
<1>1. /\ NoOptions \in AgreedLists /\ Parameters(NoOptions) = DefaultParameters
      /\ NoOptions["blksize"] = None /\ NoOptions["windowsize"] = None
  BY OptionLimits DEF AgreedLists, Parameters, NoOptions, DefaultParameters, OptionNames,
                      None, Malformed
<1>2. Fits(NoOptions)
  BY <1>1, OptionLimits DEF Fits, None
<1> QED  BY <1>1, <1>2, ParametersType

(* Every OACK a handler may choose is such a list.                         *)
LEMMA OackType ==
    ASSUME TypeOK, NEW chosen \in PossibleOacks
    PROVE  chosen \in AgreedLists
<1>1. CASE chosen \in ForeignOacks
  BY <1>1, SessionAssumption DEF AgreedLists
<1>2. ASSUME NEW garbled \in SUBSET Garbled,
             chosen = NegotiateServerOptions(Arriving(garbled), Supported,
                          IF operation = "read" THEN payload ELSE None)
      PROVE  chosen \in AgreedLists
  <2>1. requested \in [OptionNames -> Nat \cup {None}] /\ payload \in Nat
    BY SessionAssumption DEF TypeOK
  <2>2. Arriving(garbled) \in [OptionNames -> Nat \cup {None, Malformed}]
    BY <2>1 DEF Arriving, RequestedList
  <2>3. (IF operation = "read" THEN payload ELSE None) \in Nat \cup {None}
    BY <2>1
  <2>4. chosen \in [OptionNames -> Nat \cup {None}]
    BY <1>2, <2>2, <2>3, NegotiatedType
  <2> QED  BY <2>4 DEF AgreedLists
<1> QED  BY <1>1, <1>2 DEF PossibleOacks

(* The datagrams an endpoint sends are datagrams of the handshake.         *)
LEMMA PlainDatagrams ==
    /\ \A k \in {"request", "ack0", "error"} : [to |-> "server", kind |-> k] \in Datagrams
    /\ \A k \in {"ack0", "error", "data"} : [to |-> "client", kind |-> k] \in Datagrams
BY DEF Datagrams

LEMMA FirstAnswerType ==
    ASSUME NEW options \in AgreedLists
    PROVE  FirstAnswer(options) \in Datagrams
<1>1. CASE options # NoOptions
  BY <1>1 DEF FirstAnswer, Datagrams
<1>2. CASE options = NoOptions
  BY <1>2, PlainDatagrams DEF FirstAnswer
<1> QED  BY <1>1, <1>2

(* An OACK in the network carries a list of options.                       *)
LEMMA OackInNetwork ==
    ASSUME TypeOK, NEW m \in network, m.to = "client", m.kind = "oack"
    PROVE  m.options \in AgreedLists
BY DEF TypeOK, Datagrams

(* The client of the reference engine, its handler and the data plane keep *)
(* their types; retransmissions of a request and of an OACK stay within    *)
(* maximum_retransmissions.                                                *)
THEOREM SessionTypeCorrect == Spec => []TypeOK
<1>1. Init => TypeOK
  <2> SUFFICES ASSUME Init PROVE TypeOK
    OBVIOUS
  <2>1. network \subseteq Datagrams
    BY PlainDatagrams DEF Init
  <2>2. attempts \in 1 .. MaxRetransmissions + 1 /\ offers \in 0 .. MaxRetransmissions + 1
    BY SessionAssumption DEF Init
  <2> QED  BY <2>1, <2>2, NoOptionsParameters DEF Init, TypeOK, ClientStates, HandlerStates
<1>2. TypeOK /\ [Next]_vars => TypeOK'
  <2> SUFFICES ASSUME TypeOK, [Next]_vars PROVE TypeOK'
    OBVIOUS
  <2> USE DEF TypeOK, ClientStates, HandlerStates
  <2>a. MaxRetransmissions \in Nat /\ payload \in Nat
    BY SessionAssumption
  <2>b. ASSUME NEW m \in Datagrams, Send(m) PROVE network' \subseteq Datagrams
    BY <2>b DEF Send
  <2>c. ASSUME AcceptNextBlock
        PROVE  blocks' \in Nat /\ bytes' \in Nat /\ ended' \in BOOLEAN
    <3>1. BytesInBlock(blocks + 1, SenderBlock) \in Nat
      <4>1. SenderBlock \in Nat
        BY DEF SenderBlock, ParameterSets
      <4> DEFINE start == (blocks + 1 - 1) * SenderBlock
      <4>2. start \in Nat
        BY <4>1
      <4>3. BytesInBlock(blocks + 1, SenderBlock)
              = IF start >= payload THEN 0
                ELSE IF SenderBlock <= payload - start THEN SenderBlock
                ELSE payload - start
        BY DEF BytesInBlock
      <4> HIDE DEF start
      <4> QED  BY <2>a, <4>1, <4>2, <4>3
    <3> QED  BY <2>c, <3>1 DEF AcceptNextBlock
  <2>1. CASE ClientTimesOut
    <3>1. network' \subseteq Datagrams
      BY <2>1, <2>b, PlainDatagrams DEF ClientTimesOut
    <3> QED  BY <2>1, <2>a, <3>1 DEF ClientTimesOut, jobVars, handlerVars, dataVars
  <2>2. ASSUME NEW m \in network, ClientGetsOack(m) PROVE TypeOK'
    <3>1. network' \subseteq Datagrams
      BY <2>2, <2>b, PlainDatagrams DEF ClientGetsOack, AdoptOack, RejectOack, DieOfOack
    <3>2. clientParams' \in ParameterSets
      <4>1. m.options \in AgreedLists
        BY <2>2, OackInNetwork DEF ClientGetsOack
      <4> QED  BY <2>2, <4>1, ParametersType
               DEF ClientGetsOack, AdoptOack, RejectOack, DieOfOack
    <3> QED  BY <2>2, <3>1, <3>2 DEF ClientGetsOack, AdoptOack, RejectOack, DieOfOack,
                                     jobVars, handlerVars, dataVars
  <2>3. ASSUME NEW m \in network, ClientGetsPlainReply(m) PROVE TypeOK'
    <3>1. blocks' \in Nat /\ bytes' \in Nat /\ ended' \in BOOLEAN
      BY <2>3, <2>c DEF ClientGetsPlainReply, dataVars
    <3> QED  BY <2>3, <3>1 DEF ClientGetsPlainReply, jobVars, handlerVars
  <2>4. ASSUME NEW m \in network, ClientGetsError(m) PROVE TypeOK'
    BY <2>4 DEF ClientGetsError, jobVars, handlerVars, dataVars
  <2>5. CASE HandlerRefuses
    <3>1. network' \subseteq Datagrams
      BY <2>5, <2>b, PlainDatagrams DEF HandlerRefuses
    <3> QED  BY <2>5, <3>1 DEF HandlerRefuses, jobVars, clientVars, dataVars
  <2>6. CASE HandlerAnswers
    <3>1. oack' \in AgreedLists
      BY <2>6, OackType DEF HandlerAnswers
    <3>2. network' \subseteq Datagrams
      BY <2>6, <3>1, <2>b, FirstAnswerType DEF HandlerAnswers
    <3>3. handlerParams' \in ParameterSets
      BY <2>6, <3>1, ParametersType DEF HandlerAnswers
    <3> QED  BY <2>6, <2>a, <3>1, <3>2, <3>3 DEF HandlerAnswers, jobVars, clientVars, dataVars
  <2>7. CASE HandlerOffersAgain
    <3>1. network' \subseteq Datagrams
      BY <2>7, <2>b, FirstAnswerType DEF HandlerOffersAgain
    <3> QED  BY <2>7, <2>a, <3>1 DEF HandlerOffersAgain, jobVars, clientVars, dataVars
  <2>8. CASE HandlerGetsAck0
    BY <2>8 DEF HandlerGetsAck0, jobVars, clientVars, dataVars
  <2>9. CASE HandlerGetsError
    BY <2>9 DEF HandlerGetsError, jobVars, clientVars, dataVars
  <2>10. CASE ReceiverProds
    <3>1. network' \subseteq Datagrams
      BY <2>10, <2>b, PlainDatagrams DEF ReceiverProds
    <3> QED  BY <2>10, <3>1 DEF ReceiverProds, jobVars, clientVars, handlerVars, dataVars
  <2>11. CASE BlockArrives
    BY <2>11, <2>c DEF BlockArrives, jobVars, clientVars, handlerVars
  <2>12. CASE ClientSucceeds \/ ClientGivesUp
    BY <2>12 DEF ClientSucceeds, ClientGivesUp, jobVars, handlerVars, dataVars
  <2>13. CASE HandlerSucceeds \/ HandlerGivesUp
    BY <2>13 DEF HandlerSucceeds, HandlerGivesUp, jobVars, clientVars, dataVars
  <2>14. CASE Over \/ UNCHANGED vars
    BY <2>14 DEF Over, vars, jobVars, clientVars, handlerVars, dataVars
  <2> QED  BY <2>1, <2>2, <2>3, <2>4, <2>5, <2>6, <2>7, <2>8, <2>9, <2>10, <2>11,
              <2>12, <2>13, <2>14 DEF Next
<1> QED  BY <1>1, <1>2, PTL DEF Spec

-----------------------------------------------------------------------------
(* No step changes what was asked for.                                     *)
LEMMA JobIsFixed == [Next]_vars => UNCHANGED jobVars
BY DEF Next, ClientTimesOut, ClientGetsOack, ClientGetsPlainReply, ClientGetsError,
   HandlerRefuses, HandlerAnswers, HandlerOffersAgain, HandlerGetsAck0,
   HandlerGetsError, ReceiverProds, BlockArrives, ClientSucceeds, HandlerSucceeds,
   ClientGivesUp, HandlerGivesUp, Over, vars

(* A read request starts with nothing agreed and nothing answered, and no  *)
(* step breaks the bond between what the handler agreed to, what the       *)
(* network carries and what the client uses.                               *)
LEMMA ReadNegotiationInductive ==
    /\ Init => ReadNegotiationInv
    /\ ReadNegotiationInv /\ [Next]_vars => ReadNegotiationInv'
<1>1. Init => ReadNegotiationInv
  BY NoOptionsParameters DEF Init, ReadNegotiationInv
<1>2. ReadNegotiationInv /\ [Next]_vars => ReadNegotiationInv'
  <2> SUFFICES ASSUME ReadNegotiationInv, [Next]_vars, operation' = "read"
               PROVE  ReadNegotiationInv'
    BY DEF ReadNegotiationInv
  <2> USE DEF ReadNegotiationInv
  <2>a. operation = "read"
    BY JobIsFixed DEF jobVars
  <2>1. CASE ClientTimesOut
    BY <2>1 DEF ClientTimesOut, Send, jobVars, handlerVars, dataVars
  <2>2. ASSUME NEW m \in network, ClientGetsOack(m) PROVE ReadNegotiationInv'
    BY <2>2, <2>a DEF ClientGetsOack, AdoptOack, RejectOack, DieOfOack, Send, jobVars,
                      handlerVars, dataVars
  <2>3. ASSUME NEW m \in network, ClientGetsPlainReply(m) PROVE ReadNegotiationInv'
    <3>1. handler # "none" /\ oack = NoOptions
      BY <2>3, <2>a DEF ClientGetsPlainReply
    <3>2. clientParams = Adopted(oack)
      BY <2>3, <2>a, <3>1, NoOptionsParameters DEF ClientGetsPlainReply
    <3> QED  BY <2>3, <3>1, <3>2 DEF ClientGetsPlainReply, jobVars, handlerVars
  <2>4. ASSUME NEW m \in network, ClientGetsError(m) PROVE ReadNegotiationInv'
    BY <2>4 DEF ClientGetsError, jobVars, handlerVars, dataVars
  <2>5. CASE HandlerRefuses
    BY <2>5 DEF HandlerRefuses, Send, jobVars, clientVars, dataVars
  <2>6. CASE HandlerAnswers
    <3>1. /\ handlerParams' = Parameters(oack')
          /\ handler' # "none"
          /\ client' \notin {"transferring", "succeeded", "failed"}
          /\ UNCHANGED <<client, clientParams>>
      BY <2>6, <2>a DEF HandlerAnswers, clientVars
    <3>2. \A m \in network : m.to # "client"
      BY <2>6, <2>a DEF HandlerAnswers
    <3>3. /\ FirstAnswer(oack').kind = "oack" => FirstAnswer(oack').options = oack'
          /\ FirstAnswer(oack').kind = "data" => oack' = NoOptions
      BY DEF FirstAnswer
    <3>4. network' = network \cup {FirstAnswer(oack')}
      BY <2>6, <2>a DEF HandlerAnswers, Send, FirstAnswer, jobVars
    <3> QED  BY <2>a, <3>1, <3>2, <3>3, <3>4
  <2>7. CASE HandlerOffersAgain
    <3>1. \A m \in network' : m \in network \/ m = FirstAnswer(oack)
      BY <2>7 DEF HandlerOffersAgain, Send
    <3>2. /\ FirstAnswer(oack).kind = "oack" => FirstAnswer(oack).options = oack
          /\ FirstAnswer(oack).kind = "data" => oack = NoOptions
      BY DEF FirstAnswer
    <3>3. handler # "none" /\ handler' # "none" /\ UNCHANGED <<oack, handlerParams, clientVars>>
      BY <2>7 DEF HandlerOffersAgain
    <3> QED  BY <2>a, <3>1, <3>2, <3>3 DEF clientVars
  <2>8. CASE HandlerGetsAck0 \/ HandlerGetsError \/ HandlerSucceeds \/ HandlerGivesUp
    BY <2>8 DEF HandlerGetsAck0, HandlerGetsError, HandlerSucceeds, HandlerGivesUp,
                jobVars, clientVars, dataVars
  <2>9. CASE ReceiverProds
    BY <2>9, <2>a DEF ReceiverProds, Send, jobVars, clientVars, handlerVars, dataVars
  <2>10. CASE BlockArrives
    BY <2>10 DEF BlockArrives, jobVars, clientVars, handlerVars
  <2>11. CASE ClientSucceeds \/ ClientGivesUp
    BY <2>11 DEF ClientSucceeds, ClientGivesUp, jobVars, handlerVars, dataVars
  <2>12. CASE Over \/ UNCHANGED vars
    BY <2>12 DEF Over, vars, jobVars, clientVars, handlerVars, dataVars
  <2> QED  BY <2>1, <2>2, <2>3, <2>4, <2>5, <2>6, <2>7, <2>8, <2>9, <2>10, <2>11,
              <2>12 DEF Next
<1> QED  BY <1>1, <1>2

(* On a network that loses, repeats and reorders the handshake at will, a  *)
(* read request never runs with one block size or window at the client and *)
(* another at the handler, whatever was asked for and whatever server      *)
(* answered, if its values fit into the client's fields: the handler's     *)
(* OACK is confirmed before it sends data.                                 *)
THEOREM ReadsAgree == Spec => []ReadParametersAgree
<1>1. TypeOK /\ ReadNegotiationInv => ReadParametersAgree
  <2> SUFFICES ASSUME TypeOK, ReadNegotiationInv, operation = "read", Fits(oack),
                      client \in {"transferring", "succeeded"}
               PROVE  clientParams = handlerParams
    BY DEF ReadParametersAgree
  <2>1. oack \in AgreedLists
    BY DEF TypeOK
  <2> QED  BY <2>1, ParametersType DEF ReadNegotiationInv
<1> QED  BY <1>1, SessionTypeCorrect, ReadNegotiationInductive, PTL DEF Spec

(* What the client of a read has agreed to is what the handler agreed to,  *)
(* in every state: no DATA block is on the network while an OACK is, and   *)
(* no OACK is but the handler's (handle_request, read_file).               *)
THEOREM ReadsNegotiate == Spec => []ReadNegotiationInv
BY ReadNegotiationInductive, PTL DEF Spec

-----------------------------------------------------------------------------
(* What holds of the handshake of a read and of a write alike: the client  *)
(* changes its parameters once, on an OACK it accepts, and the only OACK   *)
(* there is to accept is the one the handler agreed to.                    *)
ClientRuns == client \in {"transferring", "succeeded", "failed"}

AgreementInv ==
    /\ handlerParams = Parameters(oack)
    /\ client = "requesting" => clientParams = DefaultParameters
    /\ ClientRuns => \/ clientParams = DefaultParameters
                     \/ /\ clientParams = Adopted(oack)
                        /\ AcceptsOack(oack, requested) /\ Readable(oack)
    /\ handler = "none" => ~ClientRuns /\ client # "dead" /\ \A m \in network : m.to # "client"
    /\ \A m \in network : m.to = "client" /\ m.kind = "oack" => m.options = oack

LEMMA AgreementInductive ==
    /\ Init => AgreementInv
    /\ AgreementInv /\ [Next]_vars => AgreementInv'
<1>1. Init => AgreementInv
  BY NoOptionsParameters DEF Init, AgreementInv, ClientRuns
<1>2. AgreementInv /\ [Next]_vars => AgreementInv'
  <2> SUFFICES ASSUME AgreementInv, [Next]_vars PROVE AgreementInv'
    OBVIOUS
  <2> USE DEF AgreementInv, ClientRuns
  <2>a. UNCHANGED requested
    BY JobIsFixed DEF jobVars
  <2>1. CASE ClientTimesOut
    BY <2>a, <2>1 DEF ClientTimesOut, Send, handlerVars
  <2>2. ASSUME NEW m \in network, ClientGetsOack(m) PROVE AgreementInv'
    <3>1. m.options = oack /\ handler # "none"
      BY <2>2 DEF ClientGetsOack
    <3>2. \A d \in network' : d \in network \/ d.to = "server"
      BY <2>2 DEF ClientGetsOack, AdoptOack, RejectOack, DieOfOack, Send
    <3> QED  BY <2>a, <2>2, <3>1, <3>2 DEF ClientGetsOack, AdoptOack, RejectOack, DieOfOack,
                                     jobVars, handlerVars
  <2>3. ASSUME NEW m \in network, ClientGetsPlainReply(m) PROVE AgreementInv'
    BY <2>a, <2>3 DEF ClientGetsPlainReply, handlerVars
  <2>4. ASSUME NEW m \in network, ClientGetsError(m) PROVE AgreementInv'
    BY <2>a, <2>4 DEF ClientGetsError, handlerVars
  <2>5. CASE HandlerRefuses
    BY <2>a, <2>5 DEF HandlerRefuses, Send, clientVars
  <2>6. CASE HandlerAnswers
    <3>1. /\ handlerParams' = Parameters(oack')
          /\ handler' # "none"
          /\ UNCHANGED <<client, clientParams>>
          /\ ~ClientRuns /\ client # "dead"
          /\ \A m \in network : m.to # "client"
      BY <2>6 DEF HandlerAnswers, clientVars
    <3>2. \A m \in network' : m.to = "client" /\ m.kind = "oack" => m.options = oack'
      <4>1. network' = network \cup {FirstAnswer(oack')}
        BY <2>6 DEF HandlerAnswers, Send, FirstAnswer, jobVars
      <4> QED  BY <3>1, <4>1 DEF FirstAnswer
    <3> QED  BY <3>1, <3>2
  <2>7. CASE HandlerOffersAgain
    <3>1. \A m \in network' : m \in network \/ m = FirstAnswer(oack)
      BY <2>a, <2>7 DEF HandlerOffersAgain, Send
    <3>2. FirstAnswer(oack).kind = "oack" => FirstAnswer(oack).options = oack
      BY DEF FirstAnswer
    <3> QED  BY <2>a, <2>7, <3>1, <3>2 DEF HandlerOffersAgain, clientVars
  <2>8. CASE HandlerGetsAck0 \/ HandlerGetsError \/ HandlerSucceeds \/ HandlerGivesUp
    BY <2>a, <2>8 DEF HandlerGetsAck0, HandlerGetsError, HandlerSucceeds, HandlerGivesUp,
                clientVars
  <2>9. CASE ReceiverProds
    <3>1. handler # "none"
      BY <2>a, <2>9 DEF ReceiverProds, ReceiverRuns
    <3>2. \A d \in network' : d \in network \/ d.kind = "ack0"
      BY <2>a, <2>9 DEF ReceiverProds, Send
    <3> QED  BY <2>a, <2>9, <3>1, <3>2 DEF ReceiverProds, clientVars, handlerVars
  <2>10. CASE BlockArrives
    BY <2>a, <2>10 DEF BlockArrives, clientVars, handlerVars
  <2>11. CASE ClientSucceeds \/ ClientGivesUp
    BY <2>a, <2>11 DEF ClientSucceeds, ClientGivesUp, handlerVars
  <2>12. CASE Over \/ UNCHANGED vars
    BY <2>a, <2>12 DEF Over, vars, clientVars, handlerVars
  <2> QED  BY <2>1, <2>2, <2>3, <2>4, <2>5, <2>6, <2>7, <2>8, <2>9, <2>10, <2>11,
              <2>12 DEF Next
<1> QED  BY <1>1, <1>2

(* The OACK of a reference server is one a client can adopt: it neither    *)
(* dies of it nor rejects it.                                              *)
AnyOack == oack \in PossibleOacks \cup {NoOptions}

LEMMA HarmlessOack ==
    ASSUME TypeOK, AnyOack, oack \notin ForeignOacks
    PROVE  /\ Readable(oack) /\ AcceptsOack(oack, requested)
           /\ Adopted(oack).block # 0
<1>1. DefaultBlockSize # 0
  BY OptionLimits
<1>2. CASE oack = NoOptions
  BY <1>1, <1>2, NoOptionsParameters
  DEF NoOptions, Readable, AcceptsOack, None, Malformed, DefaultParameters
<1>3. ASSUME NEW garbled \in SUBSET Garbled,
             oack = NegotiateServerOptions(Arriving(garbled), Supported,
                        IF operation = "read" THEN payload ELSE None)
      PROVE  /\ Readable(oack) /\ AcceptsOack(oack, requested)
             /\ Adopted(oack).block # 0
  <2>1. requested \in [OptionNames -> Nat \cup {None}] /\ payload \in Nat
        /\ oack \in AgreedLists
    BY SessionAssumption DEF TypeOK
  <2>2. Arriving(garbled) \in [OptionNames -> Nat \cup {None, Malformed}]
    BY <2>1 DEF Arriving, RequestedList
  <2>3. (IF operation = "read" THEN payload ELSE None) \in Nat \cup {None}
    BY <2>1
  <2>4. ASSUME NEW o \in OptionNames, Arriving(garbled)[o] # None
        PROVE  RequestedList(requested, Supported)[o] # None
    BY <2>1, <2>4 DEF Arriving, RequestedList, OptionNames, None
  <2>5. Readable(oack) /\ AcceptsOack(oack, requested)
    BY <1>3, <2>1, <2>2, <2>3, <2>4, ReferenceOackIsAccepted
  <2>6. Fits(oack) /\ oack["blksize"] # 0
    BY <1>3, <2>2, <2>3, NegotiatedType
  <2>7. Adopted(oack) = Parameters(oack)
    BY <2>1, <2>6, ParametersType
  <2>8. Parameters(oack).block # 0
    BY <1>1, <2>6 DEF Parameters
  <2> QED  BY <2>5, <2>7, <2>8
<1> QED  BY <1>2, <1>3 DEF AnyOack, PossibleOacks

LEMMA AnyOackInductive ==
    /\ Init => AnyOack
    /\ AnyOack /\ [Next]_vars => AnyOack'
<1>1. Init => AnyOack
  BY DEF Init, AnyOack
<1>2. ASSUME AnyOack, [Next]_vars PROVE AnyOack'
  <2>1. PossibleOacks' = PossibleOacks
    BY <1>2, JobIsFixed DEF jobVars, PossibleOacks, Arriving
  <2>2. UNCHANGED oack \/ oack' \in PossibleOacks
    BY <1>2 DEF Next, ClientTimesOut, ClientGetsOack, ClientGetsPlainReply, ClientGetsError,
                HandlerRefuses, HandlerAnswers, HandlerOffersAgain, HandlerGetsAck0,
                HandlerGetsError, ReceiverProds, BlockArrives, ClientSucceeds,
                HandlerSucceeds, ClientGivesUp, HandlerGivesUp, Over, vars, handlerVars
  <2> QED  BY <1>2, <2>1, <2>2 DEF AnyOack
<1> QED  BY <1>1, <1>2

(* A client dies only of an OACK.                                          *)
ForeignDeath == client = "dead" => oack \in ForeignOacks

LEMMA DeathByOack ==
    TypeOK /\ AgreementInv /\ AnyOack /\ ForeignDeath /\ [Next]_vars => ForeignDeath'
<1> SUFFICES ASSUME TypeOK, AgreementInv, AnyOack, ForeignDeath, [Next]_vars
             PROVE  client' = "dead" => oack' \in ForeignOacks
  BY DEF ForeignDeath
<1> USE DEF ForeignDeath
<1>1. ASSUME NEW m \in network, ClientGetsOack(m), client' = "dead"
      PROVE  oack' \in ForeignOacks
  <2>1. DieOfOack(m.options) /\ m.options = oack /\ oack' = oack
    BY <1>1 DEF ClientGetsOack, AdoptOack, RejectOack, DieOfOack, AgreementInv, handlerVars
  <2>2. ~Readable(oack) \/ Adopted(oack).block = 0
    BY <2>1 DEF DieOfOack, Readable
  <2> QED  BY <2>1, <2>2, HarmlessOack
<1>2. CASE HandlerAnswers
  BY <1>2 DEF HandlerAnswers, AgreementInv, clientVars
<1>3. CASE UNCHANGED oack /\ (client' = "dead" => client = "dead")
  BY <1>3
<1> QED  BY <1>1, <1>2, <1>3
         DEF Next, ClientTimesOut, ClientGetsOack, ClientGetsPlainReply, ClientGetsError,
             HandlerRefuses, HandlerOffersAgain, HandlerGetsAck0, HandlerGetsError,
             ReceiverProds, BlockArrives, ClientSucceeds, HandlerSucceeds, ClientGivesUp,
             HandlerGivesUp, Over, vars, clientVars, handlerVars

(* apply_oack_to_client refuses an OACK with an option that was not        *)
(* requested and adopts any other one whole, its values as they were       *)
(* answered and cut to their fields, for every server and whatever is      *)
(* lost; and no OACK of the reference server ends the client's process.    *)
THEOREM OptionsAreRequested == Spec => []OnlyRequestedOptions
<1>1. TypeOK /\ AgreementInv /\ ForeignDeath => OnlyRequestedOptions
  <2> SUFFICES ASSUME TypeOK, AgreementInv, ClientRuns, clientParams # DefaultParameters
               PROVE  /\ requested["blksize"] = None => clientParams.block = DefaultBlockSize
                      /\ requested["windowsize"] = None => clientParams.window = 1
    BY DEF AgreementInv, OnlyRequestedOptions, ClientRuns, DefaultParameters, ForeignDeath
  <2>1. AcceptsOack(oack, requested) /\ clientParams = Adopted(oack) /\ oack \in AgreedLists
    BY DEF AgreementInv, TypeOK
  <2>2. /\ requested["blksize"] = None => oack["blksize"] = None
        /\ requested["windowsize"] = None => oack["windowsize"] = None
    BY <2>1 DEF AcceptsOack, OptionNames
  <2> QED  BY <2>1, <2>2, ParametersType
<1>2. Init => ForeignDeath
  BY DEF Init, ForeignDeath
<1> QED  BY <1>1, <1>2, SessionTypeCorrect, AgreementInductive, AnyOackInductive,
            DeathByOack, PTL DEF Spec

-----------------------------------------------------------------------------
(* block_payload cuts the file into blocks of the block size and one final *)
(* shorter block, empty when the size divides evenly.                      *)
LEMMA BlocksOfTheFile ==
    ASSUME payload \in Nat,
           NEW bs \in Nat \ {0}, NEW k \in Nat, k < BlockCount(bs)
    PROVE  /\ k + 1 < BlockCount(bs) => BytesInBlock(k + 1, bs) = bs
           /\ k + 1 = BlockCount(bs) =>
                  /\ BytesInBlock(k + 1, bs) = payload - k * bs
                  /\ BytesInBlock(k + 1, bs) < bs
<1> DEFINE q == payload \div bs
           r == payload % bs
           start == k * bs
<1>1. payload = bs * q + r /\ q \in Nat /\ r \in 0 .. bs - 1
  OBVIOUS
<1>2. BlockCount(bs) = q + 1
  BY DEF BlockCount
<1>3. start \in Nat
  OBVIOUS
<1>4. BytesInBlock(k + 1, bs)
        = IF start >= payload THEN 0
          ELSE IF bs <= payload - start THEN bs ELSE payload - start
  BY DEF BytesInBlock
<1> HIDE DEF q, r
<1>5. CASE k = q
  <2>1. start = bs * q
    BY <1>1, <1>5
  <2> HIDE DEF start
  <2>2. payload - start = r
    <3> DEFINE x == bs * q
    <3>1. x \in Int
      BY <1>1
    <3> HIDE DEF x
    <3> QED  BY <1>1, <2>1, <3>1 DEF x
  <2>3. BytesInBlock(k + 1, bs) = r
    BY <1>1, <1>3, <1>4, <2>2
  <2> QED  BY <1>1, <1>2, <1>5, <2>2, <2>3 DEF start
<1>6. CASE k < q
  <2>1. PICK d \in Nat : q = k + 1 + d
    <3>1. q - k - 1 \in Nat /\ q = k + 1 + (q - k - 1)
      BY <1>1, <1>6
    <3> QED  BY <3>1
  <2>2. bs * q = start + bs + bs * d
    BY <2>1
  <2>3. bs * d \in Nat
    OBVIOUS
  <2>4. bs <= payload - start
    <3> DEFINE x == bs * q
               y == bs * d
    <3>1. x \in Int /\ y \in Nat
      BY <1>1, <2>3
    <3> HIDE DEF x, y, start
    <3> QED  BY <1>1, <1>3, <2>2, <3>1 DEF x, y
  <2> HIDE DEF start
  <2>5. BytesInBlock(k + 1, bs) = bs
    BY <1>3, <1>4, <2>4
  <2> QED  BY <1>1, <1>2, <1>6, <2>5
<1> QED  BY <1>1, <1>2, <1>5, <1>6

(* A read, or a write whose block size is the default one in the OACK too: *)
(* the endpoints cut and measure the file by the same block size.          *)
SameBlockSize ==
    operation = "read" \/ oack["blksize"] \in {None, DefaultBlockSize}

(* What the receiving endpoint holds is the file up to some block; it sees *)
(* the end not before that block is the last one, and then if it measures  *)
(* by the block size of the sender.                                        *)
WholeBlocks ==
    /\ blocks <= BlockCount(SenderBlock)
    /\ blocks < BlockCount(SenderBlock) => bytes = blocks * SenderBlock
    /\ blocks = BlockCount(SenderBlock) /\ SenderBlock # 0 => bytes = payload
    /\ ended => blocks = BlockCount(SenderBlock) /\ SenderBlock # 0
    /\ blocks = BlockCount(SenderBlock) /\ SenderBlock # 0 /\ SenderBlock = ReceiverBlock
         => ended

(* The endpoints that report success: a receiver that has the last block,  *)
(* a sender whose last block was accepted.                                 *)
SuccessInv ==
    /\ operation = "read" => (client = "succeeded" => ended)
    /\ operation = "write" =>
           /\ handler = "succeeded" => ended
           /\ client = "succeeded" => blocks = BlockCount(SenderBlock)

DataPlaneInv ==
    /\ client = "requesting" \/ handler = "none" => blocks = 0
    /\ blocks = 0 => bytes = 0 /\ ended = FALSE
    /\ SameBlockSize => WholeBlocks
    /\ SuccessInv

(* A file has at least one block, whatever the block size.                 *)
LEMMA BlockCountType ==
    ASSUME TypeOK
    PROVE  /\ payload \in Nat
           /\ SenderBlock \in Nat /\ ReceiverBlock \in Nat
           /\ BlockCount(SenderBlock) \in Nat \ {0}
<1>1. payload \in Nat
  BY SessionAssumption DEF TypeOK
<1>2. SenderBlock \in Nat /\ ReceiverBlock \in Nat
  BY DEF TypeOK, ParameterSets, SenderBlock, ReceiverBlock
<1>3. \A bs \in Nat \ {0} : payload \div bs \in Nat
  BY <1>1
<1> QED  BY <1>1, <1>2, <1>3 DEF BlockCount

(* While no block has arrived, nothing is known of the file.               *)
NoBlock == blocks = 0 /\ bytes = 0 /\ ended = FALSE

LEMMA NothingYet == TypeOK /\ NoBlock => WholeBlocks
BY BlockCountType DEF WholeBlocks, NoBlock

(* One more block keeps the receiver's account of the file exact, when the *)
(* receiver's block size is not above the sender's.                        *)
LEMMA NextBlockCounts ==
    ASSUME TypeOK, WholeBlocks, ReceiverBlock <= SenderBlock, AcceptNextBlock,
           UNCHANGED <<SenderBlock, ReceiverBlock, payload>>
    PROVE  WholeBlocks'
<1> DEFINE bs == SenderBlock
           rs == ReceiverBlock
           n == BlockCount(SenderBlock)
           before == blocks * bs
           more == BytesInBlock(blocks + 1, bs)
<1>1. /\ payload \in Nat /\ bs \in Nat /\ rs \in Nat /\ rs <= bs
      /\ n \in Nat \ {0} /\ blocks \in Nat
      /\ blocks < n /\ blocks' = blocks + 1
      /\ bytes' = bytes + more
      /\ ended' <=> more < rs
      /\ bytes = before
  BY BlockCountType DEF AcceptNextBlock, WholeBlocks, TypeOK
<1>2. BlockCount(SenderBlock)' = n /\ SenderBlock' = bs /\ ReceiverBlock' = rs
      /\ payload' = payload
  BY DEF BlockCount
<1>3. bs # 0 =>
        /\ blocks + 1 < n => more = bs
        /\ blocks + 1 = n => more = payload - before /\ more < bs
  BY <1>1, BlocksOfTheFile
<1>4. bs = 0 => n = 1 /\ more = 0
  <2>1. bs = 0 => before = 0 /\ (blocks + 1 - 1) * bs = 0
    BY <1>1
  <2> QED  BY <1>1, <2>1 DEF BlockCount, BytesInBlock
<1>5. blocks * bs + bs = (blocks + 1) * bs /\ before \in Nat
  BY <1>1
<1>6. WholeBlocks' <=> /\ blocks + 1 <= n
                       /\ blocks + 1 < n => bytes' = before + bs
                       /\ blocks + 1 = n /\ bs # 0 => bytes' = payload
                       /\ more < rs => blocks + 1 = n /\ bs # 0
                       /\ blocks + 1 = n /\ bs # 0 /\ bs = rs => more < rs
  BY <1>1, <1>2, <1>5 DEF WholeBlocks
<1> HIDE DEF bs, rs, n, before, more
<1> QED  BY <1>1, <1>3, <1>4, <1>5, <1>6

(* When a block is accepted, the endpoints that share a block size by      *)
(* agreement share it in fact: the client runs with the handler's OACK, or *)
(* with the default parameters the handler uses too.  The client of a read *)
(* may have cut a value of the OACK that does not fit.                     *)
ReceiverWithin ==
    /\ ReceiverBlock <= SenderBlock
    /\ operation # "read" => SenderBlock = ReceiverBlock /\ SenderBlock # 0

LEMMA BlockSizesAgree ==
    TypeOK /\ AgreementInv /\ ReadNegotiationInv /\ SameBlockSize /\ ClientRuns
      => ReceiverWithin
<1> SUFFICES ASSUME TypeOK, AgreementInv, ReadNegotiationInv, SameBlockSize, ClientRuns
             PROVE  ReceiverWithin
  OBVIOUS
<1>1. oack \in AgreedLists /\ SenderBlock \in Nat /\ ReceiverBlock \in Nat
  BY BlockCountType DEF TypeOK
<1>2. CASE operation = "read"
  BY <1>1, <1>2, ParametersType
  DEF ReadNegotiationInv, ClientRuns, SenderBlock, ReceiverBlock, ReceiverWithin
<1>3. CASE operation # "read"
  <2>1. Fits(oack) \/ oack["blksize"] = None \/ oack["blksize"] = DefaultBlockSize
    BY <1>3 DEF SameBlockSize
  <2>2. /\ Parameters(oack).block = DefaultBlockSize
        /\ Adopted(oack).block = DefaultBlockSize
    <3>1. DefaultBlockSize \in Nat /\ DefaultBlockSize < BlockSizes /\ BlockSizes \in Nat
      BY OptionLimits
    <3>2. DefaultBlockSize % BlockSizes = DefaultBlockSize
      BY <3>1
    <3>3. Parameters(oack).block = DefaultBlockSize
      BY <1>3, <3>1 DEF SameBlockSize, Parameters, None
    <3> QED  BY <3>2, <3>3 DEF Adopted
  <2>3. SenderBlock = DefaultBlockSize /\ ReceiverBlock = DefaultBlockSize
    BY <1>3, <2>2 DEF AgreementInv, DefaultParameters, SenderBlock, ReceiverBlock
  <2>4. DefaultBlockSize # 0
    BY OptionLimits
  <2> QED  BY <1>1, <2>3, <2>4 DEF ReceiverWithin
<1> QED  BY <1>2, <1>3

(* Every step either accepts one block, with the parameters left alone and *)
(* the client in the data plane after it, or leaves the data alone; and    *)
(* only before the first block does a step change the sender's block size. *)
LEMMA DataSteps ==
    ASSUME TypeOK, AgreementInv, ReadNegotiationInv, DataPlaneInv, [Next]_vars
    PROVE  \/ /\ AcceptNextBlock
              /\ ClientRuns' /\ handler' # "none"
              /\ UNCHANGED <<clientParams, oack, handlerParams>>
              /\ client' = "succeeded" => client = "succeeded"
              /\ UNCHANGED handler
              /\ ended = FALSE
           \/ /\ UNCHANGED dataVars
              /\ blocks = 0 \/ UNCHANGED <<clientParams, oack, handlerParams>>
<1>1. ASSUME NEW m \in network, ClientGetsPlainReply(m), operation = "read"
      PROVE  /\ AcceptNextBlock
             /\ ClientRuns' /\ handler' # "none"
             /\ UNCHANGED <<clientParams, oack, handlerParams, handler>>
             /\ client' # "succeeded"
             /\ ended = FALSE
  <2>1. handler # "none"
    BY <1>1 DEF ClientGetsPlainReply, AgreementInv
  <2>2. ended = FALSE
    BY <1>1 DEF ClientGetsPlainReply, DataPlaneInv
  <2> QED  BY <1>1, <2>1, <2>2 DEF ClientGetsPlainReply, ClientRuns, handlerVars
<1>2. CASE BlockArrives
  <2>1. ClientRuns
    BY <1>2 DEF BlockArrives, SenderStarted, ReceiverRuns, ClientRuns
  <2>2. handler # "none"
    BY <2>1 DEF AgreementInv
  <2>3. ended = FALSE
    BY <1>2 DEF BlockArrives, TypeOK
  <2> QED  BY <1>2, <2>1, <2>2, <2>3 DEF BlockArrives, ClientRuns, clientVars, handlerVars
<1>3. ASSUME NEW m \in network,
             \/ ClientGetsOack(m)
             \/ ClientGetsPlainReply(m) /\ operation # "read"
             \/ ClientGetsError(m)
      PROVE  UNCHANGED dataVars /\ blocks = 0
  BY <1>3 DEF ClientGetsOack, ClientGetsPlainReply, ClientGetsError, DataPlaneInv
<1>4. CASE HandlerAnswers
  BY <1>4 DEF HandlerAnswers, DataPlaneInv
<1>5. CASE \/ ClientTimesOut \/ HandlerRefuses \/ HandlerOffersAgain \/ HandlerGetsAck0
           \/ HandlerGetsError \/ ReceiverProds
  BY <1>5 DEF ClientTimesOut, HandlerRefuses, HandlerOffersAgain, HandlerGetsAck0,
              HandlerGetsError, ReceiverProds, clientVars, handlerVars
<1>6. CASE \/ ClientSucceeds \/ HandlerSucceeds \/ ClientGivesUp \/ HandlerGivesUp
           \/ Over \/ UNCHANGED vars
  BY <1>6 DEF ClientSucceeds, HandlerSucceeds, ClientGivesUp, HandlerGivesUp, Over, vars,
              clientVars, handlerVars
<1> QED  BY <1>1, <1>2, <1>3, <1>4, <1>5, <1>6 DEF Next

(* An endpoint reports success in one step only, and then it has seen what *)
(* it waits for.                                                           *)
LEMMA SuccessSteps ==
    ASSUME [Next]_vars
    PROVE  /\ client' = "succeeded" => \/ client = "succeeded"
                                       \/ ClientSucceeds
           /\ handler' = "succeeded" => \/ handler = "succeeded"
                                        \/ HandlerSucceeds
           /\ client' = "requesting" => client = "requesting"
           /\ handler' = "none" => handler = "none"
BY DEF Next, ClientTimesOut, ClientGetsOack, ClientGetsPlainReply, ClientGetsError,
   HandlerRefuses, HandlerAnswers, HandlerOffersAgain, HandlerGetsAck0,
   HandlerGetsError, ReceiverProds, BlockArrives, ClientSucceeds, HandlerSucceeds,
   ClientGivesUp, HandlerGivesUp, Over, vars, clientVars, handlerVars, AdoptOack,
   RejectOack, DieOfOack

LEMMA DataPlaneInductive ==
    /\ Init => DataPlaneInv
    /\ TypeOK /\ TypeOK' /\ AgreementInv /\ ReadNegotiationInv /\ DataPlaneInv /\ [Next]_vars
         => DataPlaneInv'
<1>1. Init => DataPlaneInv
  <2> SUFFICES ASSUME Init PROVE DataPlaneInv
    OBVIOUS
  <2>1. payload \in Nat /\ SenderBlock \in Nat \ {0}
    BY SessionAssumption, OptionLimits DEF Init, SenderBlock, DefaultParameters
  <2>2. \A bs \in Nat \ {0} : payload \div bs \in Nat
    BY <2>1
  <2>3. BlockCount(SenderBlock) \in Nat \ {0}
    BY <2>1, <2>2 DEF BlockCount
  <2> QED  BY <2>1, <2>3 DEF Init, DataPlaneInv, WholeBlocks, SuccessInv
<1>2. ASSUME TypeOK, TypeOK', AgreementInv, ReadNegotiationInv, DataPlaneInv, [Next]_vars
      PROVE  DataPlaneInv'
  <2>a. UNCHANGED <<operation, payload>>
    BY <1>2, JobIsFixed DEF jobVars
  <2>1. CASE /\ AcceptNextBlock
             /\ ClientRuns' /\ handler' # "none"
             /\ UNCHANGED <<clientParams, oack, handlerParams>>
             /\ client' = "succeeded" => client = "succeeded"
             /\ UNCHANGED handler
             /\ ended = FALSE
    <3>1. /\ AgreementInv' /\ ReadNegotiationInv'
          /\ UNCHANGED <<SameBlockSize, SenderBlock, ReceiverBlock>>
      BY <1>2, <2>a, <2>1, AgreementInductive, ReadNegotiationInductive
      DEF SameBlockSize, SenderBlock, ReceiverBlock
    <3>2. SameBlockSize => ReceiverBlock <= SenderBlock
      <4>1. (TypeOK /\ AgreementInv /\ ReadNegotiationInv /\ SameBlockSize /\ ClientRuns)'
              => ReceiverWithin'
        BY BlockSizesAgree, PTL
      <4> QED  BY <1>2, <2>1, <3>1, <4>1 DEF ReceiverWithin
    <3>3. SameBlockSize' => WholeBlocks'
      BY <1>2, <2>a, <2>1, <3>1, <3>2, NextBlockCounts DEF DataPlaneInv
    <3>4. blocks' # 0 /\ client' # "requesting"
      BY <1>2, <2>1 DEF AcceptNextBlock, TypeOK, ClientRuns
    <3>5. SuccessInv'
      <4>1. blocks < BlockCount(SenderBlock)
        BY <2>1 DEF AcceptNextBlock
      <4>2. BlockCount(SenderBlock) \in Nat
        BY <1>2, BlockCountType
      <4> QED  BY <1>2, <2>a, <2>1, <4>1, <4>2 DEF DataPlaneInv, SuccessInv, TypeOK
    <3> QED  BY <2>1, <3>3, <3>4, <3>5 DEF DataPlaneInv
  <2>2. CASE /\ UNCHANGED dataVars
             /\ blocks = 0 \/ UNCHANGED <<clientParams, oack, handlerParams>>
    <3>1. SameBlockSize' => WholeBlocks'
      <4>1. CASE blocks = 0
        <5>1. NoBlock'
          BY <1>2, <2>2, <4>1 DEF DataPlaneInv, dataVars, NoBlock
        <5> QED  BY <1>2, <5>1, NothingYet, PTL
      <4>2. CASE UNCHANGED <<clientParams, oack, handlerParams>>
        BY <1>2, <2>a, <2>2, <4>2
        DEF DataPlaneInv, WholeBlocks, SameBlockSize, SenderBlock, ReceiverBlock, BlockCount,
            dataVars
      <4> QED  BY <2>2, <4>1, <4>2
    <3>2. SuccessInv'
      <4>1. ASSUME operation = "read", client' = "succeeded" PROVE ended'
        BY <1>2, <2>2, <4>1, SuccessSteps
        DEF DataPlaneInv, SuccessInv, ClientSucceeds, dataVars
      <4>2. ASSUME operation = "write", handler' = "succeeded" PROVE ended'
        BY <1>2, <2>2, <4>2, SuccessSteps
        DEF DataPlaneInv, SuccessInv, HandlerSucceeds, dataVars
      <4>3. ASSUME operation = "write", client' = "succeeded"
            PROVE  (blocks = BlockCount(SenderBlock))'
        <5>1. blocks = BlockCount(SenderBlock)
          BY <1>2, <4>3, SuccessSteps DEF DataPlaneInv, SuccessInv, ClientSucceeds
        <5>2. blocks # 0
          BY <1>2, <5>1, BlockCountType
        <5> QED  BY <2>a, <2>2, <5>1, <5>2 DEF SenderBlock, BlockCount, dataVars
      <4> QED  BY <2>a, <4>1, <4>2, <4>3 DEF SuccessInv
    <3>3. client' = "requesting" \/ handler' = "none" => blocks' = 0
      BY <1>2, <2>2, SuccessSteps DEF DataPlaneInv, dataVars
    <3> QED  BY <1>2, <2>2, <3>1, <3>2, <3>3 DEF DataPlaneInv, dataVars
  <2> QED  BY <1>2, <2>1, <2>2, DataSteps
<1> QED  BY <1>1, <1>2

LEMMA DataPlaneInvariant ==
    Spec => [](TypeOK /\ AgreementInv /\ ReadNegotiationInv /\ DataPlaneInv)
BY SessionTypeCorrect, AgreementInductive, ReadNegotiationInductive, DataPlaneInductive,
   PTL DEF Spec

(* read_file stores the file it was asked for, to the last byte, or        *)
(* nothing, for every size, every block size the two sides agree on, and   *)
(* every fate of the OACK and of its ACK 0.                                *)
THEOREM DownloadsAreWhole == Spec => []DownloadIsWhole
<1>1. DataPlaneInv => DownloadIsWhole
  BY DEF DataPlaneInv, SameBlockSize, WholeBlocks, SuccessInv, DownloadIsWhole
<1> QED  BY <1>1, DataPlaneInvariant, PTL

(* A write with the default block size: what handle_request stores is the  *)
(* whole file, and a client that reports success knows the handler has the *)
(* last block, even one that went on with the defaults because it never    *)
(* saw the OACK.  Other block sizes are the finding NegotiatedUploadIsWhole. *)
THEOREM UploadsAreHonest == Spec => []UploadIsHonest
<1>1. TypeOK /\ AgreementInv /\ ReadNegotiationInv /\ DataPlaneInv => UploadIsHonest
  <2> SUFFICES ASSUME TypeOK, AgreementInv, ReadNegotiationInv, DataPlaneInv,
                      operation = "write", SameBlockSize
               PROVE  /\ handler = "succeeded" => bytes = payload
                      /\ client = "succeeded" => ended /\ bytes = payload
    BY DEF UploadIsHonest, SameBlockSize
  <2>1. handler = "succeeded" => bytes = payload
    BY DEF DataPlaneInv, WholeBlocks, SuccessInv
  <2>2. ASSUME client = "succeeded" PROVE ended /\ bytes = payload
    <3>1. SenderBlock = ReceiverBlock /\ SenderBlock # 0
      BY <2>2, BlockSizesAgree DEF ClientRuns, ReceiverWithin
    <3> QED  BY <2>2, <3>1 DEF DataPlaneInv, WholeBlocks, SuccessInv
  <2> QED  BY <2>1, <2>2
<1> QED  BY <1>1, DataPlaneInvariant, PTL
=============================================================================
