------------------------------ MODULE MCDaemon ------------------------------
(* Files with a repeated option, one that replaces defaults, a pid file    *)
(* that must not be there, and one with an error.                          *)
EXTENDS Daemon

CONSTANTS w1, w2

MCConfFiles ==
    { << Line("grey_reason", "first", 0), Line("dnsbl", "bl", 1),
         Line("grey_reason", "second", 0), Line("pidfile", "pid", 1) >>,
      << Line("stat_type", "since_startup", 0), Blank, Line("rhsbl", "rbl", 0),
         Line("block_reason", "no", 0), Line("stat_type", "status", 0) >>,
      << Line("grey_reason", "third", 0), Line("grey_reason", "fourth", 1) >> }
=============================================================================
