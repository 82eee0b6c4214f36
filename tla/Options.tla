------------------------------ MODULE Options ------------------------------
(***************************************************************************)
(* Option negotiation of the reference engine (RFC 2347, 2348, 2349, 7440; *)
(* adapters/reference/tftp_reference_engine.cpp): the options a client     *)
(* asks for, what the server makes of them, and what the client makes of   *)
(* the server's OACK.                                                      *)
(*                                                                         *)
(* A list of options is a record of four values, None for an option that   *)
(* is not in the list.  The limits are parameters: RFC 2348 gives 8 and    *)
(* 65464 bytes, RFC 2349 1 .. 255 seconds, the engine at most 65535 blocks.*)
(***************************************************************************)
EXTENDS Integers

CONSTANTS
    MinimumBlockSize, MaximumBlockSize, MaximumTimeout, MaximumWindow,
    DefaultBlockSize,   \* EngineConfig::default_block_size
    BlockSizes,         \* how many values block_size has: 2^32
    Windows             \* how many window_size has: 2^16

ASSUME OptionLimits ==
    /\ MinimumBlockSize \in Nat \ {0}
    /\ MaximumBlockSize \in Nat
    /\ MinimumBlockSize <= DefaultBlockSize
    /\ DefaultBlockSize <= MaximumBlockSize
    /\ DefaultBlockSize \in Nat
    /\ MaximumTimeout \in Nat \ {0}
    /\ MaximumWindow \in Nat \ {0}
    /\ BlockSizes \in Nat /\ MaximumBlockSize < BlockSizes
    /\ Windows \in Nat /\ MaximumWindow < Windows

OptionNames == {"blksize", "timeout", "tsize", "windowsize"}

None == -1          \* the option is absent
Malformed == -2     \* its value is not a number: std::stoul throws

NoOptions == [o \in OptionNames |-> None]

(* NegotiatedParameters before any OACK.                                   *)
DefaultParameters == [block |-> DefaultBlockSize, window |-> 1]

(* build_requested_option_list: a client sends the options it was told to  *)
(* ask for, as far as its configuration supports them.                     *)
RequestedList(options, supported) ==
    [o \in OptionNames |-> IF o \in supported THEN options[o] ELSE None]

(* clamp_block_size: into the range of RFC 2348.                           *)
ClampBlockSize(requested) ==
    IF requested < MinimumBlockSize THEN MinimumBlockSize
    ELSE IF requested > MaximumBlockSize THEN MaximumBlockSize
    ELSE requested

(* negotiate_server_options: the options of the OACK; fileSize is None for *)
(* a write request.  An absent value, a malformed one (both below 0) and   *)
(* one out of range get no answer; a block size and a window are brought   *)
(* into range; tsize reports the file's size to a reader.                  *)
NegotiateServerOptions(request, supported, fileSize) ==
    LET asked  == [o \in OptionNames |-> IF o \in supported THEN request[o] ELSE None]
        window == asked["windowsize"]
    IN [blksize    |-> IF asked["blksize"] < 0 THEN None
                       ELSE ClampBlockSize(asked["blksize"]),
        timeout    |-> IF asked["timeout"] \in 1 .. MaximumTimeout
                       THEN asked["timeout"] ELSE None,
        tsize      |-> IF asked["tsize"] # None /\ fileSize # None THEN fileSize
                       ELSE IF asked["tsize"] < 0 THEN None ELSE asked["tsize"],
        windowsize |-> IF window < 1 THEN None
                       ELSE IF window > MaximumWindow THEN MaximumWindow ELSE window]

(* The parameters that a server has agreed to.  The timeout is recorded by *)
(* the engine but never applied to a socket.                               *)
Parameters(agreed) ==
    [block  |-> IF agreed["blksize"] < 0 THEN DefaultBlockSize ELSE agreed["blksize"],
     window |-> IF agreed["windowsize"] < 0 THEN 1 ELSE agreed["windowsize"]]

(* apply_oack_to_client: an OACK is accepted if it offers nothing          *)
(* unrequested; its values are cut to the width of their fields, and are   *)
(* compared neither with those requested nor with the limits.              *)
AcceptsOack(oack, requested) ==
    \A o \in OptionNames : oack[o] # None => requested[o] # None

Readable(oack) == \A o \in OptionNames : oack[o] # Malformed

Adopted(oack) ==
    LET agreed == Parameters(oack)
    IN  [block |-> agreed.block % BlockSizes, window |-> agreed.window % Windows]

(* The values that fit into their fields.                                  *)
Fits(oack) == oack["blksize"] < BlockSizes /\ oack["windowsize"] < Windows
=============================================================================
