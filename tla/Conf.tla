-------------------------------- MODULE Conf --------------------------------
(***************************************************************************)
(* The configuration (conf.c) and what grossd takes from it                *)
(* (configure_grossd() and reconfigure_grossd() in gross.c).               *)
(*                                                                         *)
(* A configuration file is a sequence of lines, a line is what             *)
(* namevalueparams() finds in it.  The configuration is a list to whose    *)
(* front items are added.  Of the names the ones the model tells apart are *)
(* kept.                                                                   *)
(***************************************************************************)
EXTENDS Integers, Sequences, SequencesExt

NULL == "NULL"

Multivalues == {"dnsbl", "rhsbl", "dnswl", "check", "stat_type", "protocol", "log_method"}
Reasons     == {"grey_reason", "block_reason"}
Valid       == Multivalues \cup Reasons \cup {"pidfile"}

(* A line with something before and after its first "=".  A value is never *)
(* a null pointer.                                                         *)
Lines == [name : STRING, value : STRING \ {NULL}, params : Nat]
Line(name, value, params) == [name |-> name, value |-> value, params |-> params]

LineValues(file) == {file[i].value : i \in DOMAIN file}

(* A line without "=", once its comment is cut off, and one that has       *)
(* nothing on one side of it.                                              *)
Blank  == Line("", "", 0)
Broken == Line("", "=", 0)

(* maxparams(), minparams(): every option does without parameters. *)
maxparams(name) == IF name \in {"dnsbl", "rhsbl", "pidfile"} THEN 1 ELSE 0
minparams(name) == 0

Item(line, is_default) ==
    [name |-> line.name, value |-> line.value, params |-> line.params,
     is_default |-> is_default]

add_config_item(config, line, is_default) == <<Item(line, is_default)>> \o config

(* The places of an option, and the first of them, 0 if it has none. *)
Places(s, name)    == {i \in DOMAIN s : s[i].name = name}
Find(config, name) == IF Places(config, name) = {} THEN 0 ELSE Min(Places(config, name))

record_config_item_added(config, line) == add_config_item(config, line, FALSE)

(* The list without the defaults of an option. *)
IsDefaultOf(item, name) == item.is_default /\ item.name = name

RemoveDefaults(config, name) ==
    LET rest[i \in 0..Len(config)] ==
            IF i = 0 THEN <<>>
            ELSE IF IsDefaultOf(config[i], name) THEN rest[i - 1]
            ELSE Append(rest[i - 1], config[i])
    IN rest[Len(config)]

(* A multivalue option is added, its defaults go; of any other one the     *)
(* value is replaced and the parameters stay what they were.               *)
record_config_item(config, line) ==
    IF line.name \in Multivalues
    THEN add_config_item(RemoveDefaults(config, line.name), line, FALSE)
    ELSE IF Find(config, line.name) # 0
    THEN [config EXCEPT ![Find(config, line.name)].value = line.value]
    ELSE add_config_item(config, line, FALSE)

gconf(config, name) ==
    IF Find(config, name) # 0 THEN config[Find(config, name)].value ELSE NULL

(* DEFAULT_CONFIG.  Its last item becomes the head of the list and is not  *)
(* a multivalue option: record_config_item() cannot remove the head.       *)
Defaults ==
    << Line("log_method", "syslog", 0), Line("stat_type", "delay", 0),
       Line("stat_type", "status", 0), Line("grey_reason", "later", 0),
       Line("block_reason", "bad", 0) >>

default_config ==
    [i \in DOMAIN Defaults |-> Item(Defaults[Len(Defaults) + 1 - i], TRUE)]

(* read_config(): the first line that cannot be read, has a name it does   *)
(* not know or too many parameters ends it.                                *)
Accepts(line) ==
    /\ line # Broken
    /\ line.name \in Valid
    /\ line.params \in minparams(line.name)..maxparams(line.name)

Readable(file) == \A i \in DOMAIN file : file[i] = Blank \/ Accepts(file[i])

read_config(config, file) ==
    LET read[i \in 0..Len(file)] ==
            IF i = 0 THEN config
            ELSE IF file[i] = Blank THEN read[i - 1]
            ELSE CHOOSE c \in {record_config_item(b, file[i]) : b \in {read[i - 1]}} : TRUE
    IN read[Len(file)]

----------------------------------------------------------------------------
(* configure_grossd() *)
Values(config, name) == {config[i].value : i \in Places(config, name)}

(* stat_type: the list is walked from its front, the last line of the      *)
(* file, up to a "full" or a "none".                                       *)
statlevel(config) ==
    LET stops == {i \in Places(config, "stat_type") : config[i].value \in {"full", "none"}}
    IN IF stops # {} THEN {config[Min(stops)].value} \ {"none"}
       ELSE Values(config, "stat_type") \cap {"status", "since_startup", "delay"}

pidfile(config)       == gconf(config, "pidfile") # NULL
pidfile_check(config) ==
    LET i == Find(config, "pidfile") IN i # 0 /\ config[i].params > 0

(* reconfigure_grossd() changes the two reasons and nothing else. *)
reconfigure_grossd(config, reasons) ==
    [n \in Reasons |-> IF gconf(config, n) # NULL THEN gconf(config, n) ELSE reasons[n]]

----------------------------------------------------------------------------
(* What a reader of grossd.conf expects of a file: of an option with one   *)
(* value the last line counts, of an option with many all of them, and the *)
(* defaults where there is none.                                           *)
Written(file, name) ==
    IF Places(file, name) # {} THEN file[Max(Places(file, name))].value
    ELSE Defaults[Max(Places(Defaults, name))].value

WrittenAll(file, name) ==
    IF Places(file, name) # {} THEN Values(file, name) ELSE Values(Defaults, name)
=============================================================================
