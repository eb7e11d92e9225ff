------------------------------- MODULE MCStartup ------------------------------
(* The options of the program for TLC. *)
EXTENDS Startup

\* A configuration that works, and those that differ in one or two options.
Uri(colon, address, port) == [colon |-> colon, address |-> address, port |-> port]
Edi(proto, colon, number) == [proto |-> proto, colon |-> colon, number |-> number]
MCUris ==
    {NoUri, Uri(FALSE, "", 0), Uri(TRUE, "", 9000), Uri(TRUE, "group", 65535),
     Uri(TRUE, "host", 9000), Uri(TRUE, "", 65536), Uri(TRUE, "", 0)}
Encoder(rtp, streams, crc, lastBit) ==
    [rtp |-> rtp, streams |-> streams, crc |-> crc, lastBit |-> lastBit, frameSize |-> 192]
Usual ==
    [identifier |-> 4, padlen |-> 58, padIdent |-> TRUE, input |-> Uri(TRUE, "", 9000),
     output |-> Uri(TRUE, "host", 9001), padPort |-> 9002, check |-> "none",
     zmq |-> "good", edi |-> {Edi("tcp", TRUE, TRUE), Edi("udp", TRUE, TRUE)}, stats |-> FALSE,
     bitrate |-> 64, channels |-> 2, rate |-> 48000, mode |-> "ps",
     encoder |-> Encoder(TRUE, 1, FALSE, FALSE)]
Values ==
    [identifier |-> {4, 33}, padlen |-> {-1, 0, 58, 256}, padIdent |-> BOOLEAN,
     input |-> MCUris, output |-> MCUris, padPort |-> {0, 9002, 70000},
     check |-> {"none", "passes", "fails"}, zmq |-> {"none", "good", "bad"},
     edi |-> {{}, {Edi("tcp", TRUE, TRUE)}, {Edi("http", TRUE, TRUE)}, {Edi("udp", FALSE, FALSE)},
              {Edi("tcp", TRUE, FALSE)}},
     stats |-> BOOLEAN, bitrate |-> {0, 8, 60, 64, 68, 192, 200}, channels |-> {0, 1, 2, 3},
     rate |-> {32000, 44100, 48000}, mode |-> {"lc", "sbr", "ps"},
     encoder |-> {Encoder(r, n, c, b) : r, c, b \in BOOLEAN, n \in {0, 1, 3}}]
MCConfs ==
    UNION {{[Usual EXCEPT ![f] = x, ![g] = y] : x \in Values[f], y \in Values[g]} :
           f, g \in DOMAIN Values}
=============================================================================
