------------------------------- MODULE Netascii -------------------------------
(***************************************************************************)
(* The netascii conversions of src/src/net/netascii.cpp and the comparison *)
(* of src/src/verify/content_oracle.cpp that relies on them.  A byte that  *)
(* is no CR, LF or NUL stands for itself.                                  *)
(***************************************************************************)
EXTENDS Integers, Sequences, SequencesExt

CR == "CR"
LF == "LF"
NUL == "NUL"

Follows(bytes, i, byte) == i < Len(bytes) /\ bytes[i + 1] = byte
Precedes(bytes, i, byte) == i > 1 /\ bytes[i - 1] = byte

(* A plausible bug: a lone CR is passed through.                           *)
EncodeLoneCrAsIs(bytes) ==
    FlattenSeq([i \in DOMAIN bytes |->
        IF bytes[i] = LF /\ ~Precedes(bytes, i, CR) THEN <<CR, LF>>
        ELSE <<bytes[i]>>])

(* LF becomes CR LF, an existing CR LF stays, a lone CR becomes CR NUL.    *)
EncodeLocalToNetascii(bytes) ==
    FlattenSeq([i \in DOMAIN bytes |->
        CASE bytes[i] = LF /\ ~Precedes(bytes, i, CR) -> <<CR, LF>>
          [] bytes[i] = CR /\ ~Follows(bytes, i, LF)  -> <<CR, NUL>>
          [] OTHER -> <<bytes[i]>>])

(* CR LF becomes LF, CR NUL a CR; a CR before anything else is tolerated.  *)
DecodeNetasciiToLocal(bytes) ==
    FlattenSeq([i \in DOMAIN bytes |->
        CASE bytes[i] = CR /\ Follows(bytes, i, LF)   -> <<>>
          [] bytes[i] = NUL /\ Precedes(bytes, i, CR) -> <<>>
          [] OTHER -> <<bytes[i]>>])

(* compare_bytes: in netascii the source is first put through both         *)
(* conversions.                                                            *)
CompareBytes(source, delivered, netascii) ==
    LET expected == IF netascii
                    THEN DecodeNetasciiToLocal(EncodeLocalToNetascii(source))
                    ELSE source
    IN  IF delivered = expected THEN "Match" ELSE "Mismatch"

-----------------------------------------------------------------------------
HasEol(text) == \E i \in DOMAIN text : text[i] = CR /\ Follows(text, i, LF)
HasCrEol(text) ==
    \E i \in DOMAIN text : /\ text[i] = CR /\ Follows(text, i, CR)
                           /\ Follows(text, i + 1, LF)
IsLegalNetascii(wire) ==
    \A i \in DOMAIN wire :
        /\ wire[i] = CR => Follows(wire, i, LF) \/ Follows(wire, i, NUL)
        /\ wire[i] = LF => Precedes(wire, i, CR)

(* On the wire every CR is followed by LF or NUL and every LF preceded by  *)
(* CR.  A text without CR LF survives both conversions unchanged, so that  *)
(* the oracle excuses no difference, and one whose conversion left no CR   *)
(* LF behind (CR CR LF does) can be downloaded and uploaded again.         *)
NetasciiIsFaithful(text) ==
    LET wire == EncodeLocalToNetascii(text)
        local == DecodeNetasciiToLocal(wire)
    IN  /\ IsLegalNetascii(wire)
        /\ ~HasEol(text) => CompareBytes(text, text, TRUE) = "Match"
        /\ CompareBytes(local, local, TRUE) = "Match" <=> ~HasCrEol(text)
=============================================================================
