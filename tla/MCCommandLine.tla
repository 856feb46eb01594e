----------------------------- MODULE MCCommandLine -----------------------------
(* Instances of CommandLine for TLC: scripts of a few messages, each with all the *)
(* arguments its command reads.                                                   *)
EXTENDS CommandLine

Udp(id, command, own) == [id |-> id, via |-> "udp", command |-> command, args |-> own]
Tcp(command, own) == [id |-> 0, via |-> "tcp", command |-> command, args |-> own]

MCDevice == [min |-> 0, max |-> 9, number |-> 1]

(* A move of many arguments, settings of both kinds of message that make a difference *)
(* to the move after them, and commands short enough for a duplicate of them to leave *)
(* its mark in command_line.                                                          *)
MCScript ==
  <<Udp(2, "stepperWave", <<1, 2, 3, 4, 1, 6, 7, 8>>),
    Udp(3, "setMax", <<20>>),
    Tcp("setNumber", <<2>>),
    Udp(4, "stepperNumTranslate", <<30, 31, 32, 33>>),
    Udp(5, "reset", <<>>),
    Udp(6, "stepperMove", <<40, 41, 42>>)>>
=============================================================================
