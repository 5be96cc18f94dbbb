------------------------------- MODULE Parsers -------------------------------
(***************************************************************************)
(* The parsers below the analyzers, side by side: Annex-B files and their  *)
(* RBSPs, bit strings, RTP packets, streams of syntax elements.  They      *)
(* share no state: a behavior picks one of them and leaves the others at   *)
(* rest.                                                                   *)
(***************************************************************************)
EXTENDS ByteStream, BitReader, RtpHeader, SyntaxStreams

VARIABLE subject   \* the parser this behavior is about

NoBits == <<>>

NoPacket == CHOOSE p \in Packets : p.size = 0

NoStream == <<>>

Init ==
    /\ ByteStreamInit
    /\ \/ /\ subject = "file"
          /\ BitReaderInit(NoBits) /\ RtpHeaderInit(NoPacket) /\ SyntaxInit(NoStream)
       \/ /\ subject = "bits"
          /\ \E bytes \in Rbsp : BitReaderInit(bytes)
          /\ RtpHeaderInit(NoPacket) /\ SyntaxInit(NoStream)
       \/ /\ subject = "packet"
          /\ BitReaderInit(NoBits)
          /\ \E datagram \in Packets : RtpHeaderInit(datagram)
          /\ SyntaxInit(NoStream)
       \/ /\ subject = "syntax"
          /\ BitReaderInit(NoBits) /\ RtpHeaderInit(NoPacket)
          /\ \E group \in StreamGroups : \E written_stream \in group :
               SyntaxInit(written_stream)

WriteFile ==
    /\ subject = "file"
    /\ ByteStreamNext
    /\ UNCHANGED <<subject, bitReaderVars, rtpHeaderVars, syntaxVars>>

ReadBitString ==
    /\ subject = "bits"
    /\ BitReaderNext
    /\ UNCHANGED <<subject, byteStreamVars, rtpHeaderVars, syntaxVars>>

ParseHeader ==
    /\ subject = "packet"
    /\ RtpHeaderNext
    /\ UNCHANGED <<subject, byteStreamVars, bitReaderVars, syntaxVars>>

ParseSyntax ==
    /\ subject = "syntax"
    /\ SyntaxNext
    /\ UNCHANGED <<subject, byteStreamVars, bitReaderVars, rtpHeaderVars>>

Next == WriteFile \/ ReadBitString \/ ParseHeader \/ ParseSyntax

Spec == Init /\ [][Next]_<<subject, byteStreamVars, bitReaderVars, rtpHeaderVars,
                          syntaxVars>>
=============================================================================
