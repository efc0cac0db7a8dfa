---------------------------- MODULE ServerConfig ----------------------------
(***************************************************************************)
(* ServerConfig (ServerConfig.h, .cpp): the settings of a server, which    *)
(* the constructor fills with those compiled in and ReadConfigScript       *)
(* overwrites from a file of lines "key : value --comment".                *)
(*                                                                         *)
(* A line is a sequence of tokens: a key, a piece of a value, ":" and "-", *)
(* or " " for every character that is left out (blanks, quotes, ...).      *)
(* What a number is worth is left open: a setting is the text it was read  *)
(* from, with the way it was converted.                                    *)
(***************************************************************************)
EXTENDS Integers, SequencesExt, FiniteSetsExt

CONSTANTS
  Words,        (* pieces of values                                        *)
  UsedKeys,     (* bound: the keys that occur in the file                  *)
  MaxLines,     (* bound: lines of the file                                *)
  MaxWords,     (* bound: words of a value                                 *)
  MaxTokens     (* a line with more does not fit into the 4096 bytes       *)

ASSUME LinesAssumption == MaxLines \in Nat /\ MaxWords \in Nat /\ MaxTokens \in Nat

-----------------------------------------------------------------------------
(* The members of _config_data in the order of the tests in                *)
(* ReadConfigScript, named by their keys.                                  *)
Fields ==
  <<"_port1", "_port2", "_server_ip1", "_server_ip2",
    "_prepare_accept_socket_count1", "_acceptor_work_count1",
    "_acceptor_work_count2", "_receive_buffer_size1", "_receive_buffer_size2",
    "_send_buffer_size1", "_send_buffer_size2",
    "_info_transfer_station_work_thread_count",
    "_database_receive_buffer_size", "_database_work_thread_count",
    "_database_name", "_database_account_name", "_database_account_pwd">>

Keys == ToSet(Fields)

ASSUME KeysAssumption ==
  /\ UsedKeys \subseteq Keys
  /\ Words \cap (Keys \cup {":", "-", " "}) = {}

Texts  == {"_server_ip1", "_server_ip2", "_database_name",
           "_database_account_name", "_database_account_pwd"}
Sizes  == {"_receive_buffer_size1", "_receive_buffer_size2",
           "_send_buffer_size1", "_send_buffer_size2",
           "_database_receive_buffer_size"}
Shorts == {"_acceptor_work_count1", "_acceptor_work_count2",
           "_info_transfer_station_work_thread_count"}

(* Buffer sizes are read to base 16, other numbers to base 10, and some    *)
(* are kept as unsigned short.                                             *)
ConversionOf(key) ==
  IF key \in Texts THEN "text" ELSE
  IF key \in Sizes THEN "hex" ELSE
  IF key \in Shorts THEN "decimal % 2^16" ELSE "decimal"

-----------------------------------------------------------------------------
(* The lines of a file as they are meant: a key with its value, a comment  *)
(* or nothing, and comments that mention other settings.                   *)
Values == UNION {[1 .. n -> Words] : n \in 0 .. MaxWords}

Line == [key : UsedKeys, value : Values, comment : BOOLEAN]
          \cup [comment : BOOLEAN]

Comment == <<"-", "-">> \o SetToSeq(UsedKeys) \o <<":", "-">>

(* The tokens of a line.                                                   *)
Tokens(line) ==
  (IF "key" \in DOMAIN line
   THEN <<line.key, " ", ":", " ">> \o line.value \o <<" ">>
   ELSE <<>>)
  \o (IF line.comment THEN Comment ELSE <<>>)

VARIABLES
  pc,           (* "start", "loop" in ReadConfigScript, "done"             *)
  file,         (* the file                                                *)
  at,           (* lines read so far                                       *)
  transfer,     (* tmpTransferStation                                      *)
  config,       (* _c_d, by key                                            *)
  result        (* what Initialize returned                                *)

vars == <<pc, file, at, transfer, config, result>>

(* The settings compiled in.                                               *)
Default == [text |-> <<>>, by |-> "constructor"]

Init ==
  /\ pc = "start"
  /\ file \in UNION {[1 .. n -> Line] : n \in 0 .. MaxLines}
  /\ at = 0
  /\ transfer = <<>>
  /\ config = [key \in Keys |-> Default]
  /\ result = "none"

-----------------------------------------------------------------------------
(* The tokens among the first n that are copied: keys, values and ":".     *)
Kept(tokens, n) ==
  LET kept[i \in 0 .. n] ==
        IF i = 0 THEN <<>>
        ELSE IF tokens[i] = " " THEN kept[i - 1] ELSE Append(kept[i - 1], tokens[i])
  IN kept[n]

(* What of a line is copied, up to the first "-".                          *)
Copied(tokens) ==
  LET dashes == {i \in DOMAIN tokens : tokens[i] = "-"}
  IN Kept(tokens, IF dashes = {} THEN Len(tokens) ELSE Min(dashes) - 1)

(* The buffer afterwards: what it held before shows behind a shorter text. *)
Copy(buffer, tokens) ==
  LET text == Copied(tokens)
  IN text \o SubSeq(buffer, Len(text) + 1, Len(buffer))

(* What follows the first ":", or all if there is none.                    *)
AfterColon(text) ==
  LET colons == {i \in DOMAIN text : text[i] = ":"}
  IN IF colons = {} THEN text ELSE SubSeq(text, Min(colons) + 1, Len(text))

(* The first key found anywhere in the text is the setting.                *)
Set(c, text) ==
  IF Keys \cap ToSet(text) = {} THEN c
  ELSE LET i == Min({j \in DOMAIN Fields : Fields[j] \in ToSet(text)})
       IN [c EXCEPT ![Fields[i]] =
             [text |-> AfterColon(text), by |-> ConversionOf(Fields[i])]]

-----------------------------------------------------------------------------
(* ReadConfigScript opens the file, or Initialize fails.                   *)
Open ==
  /\ pc = "start"
  /\ \/ pc' = "loop" /\ UNCHANGED result
     \/ pc' = "done" /\ result' = "FAILED"
  /\ UNCHANGED <<file, at, transfer, config>>

HasLine ==
  /\ pc = "loop"
  /\ at < Len(file)
  /\ Len(Tokens(file[at + 1])) <= MaxTokens

(* Bug: the buffer is not cleared after a setting.                         *)
ReadLine_NotCleared ==
  LET text == Copy(transfer, Tokens(file[at + 1])) IN
  /\ HasLine
  /\ at' = at + 1
  /\ transfer' = text
  /\ config' = IF text = <<>> THEN config ELSE Set(config, text)
  /\ UNCHANGED <<pc, file, result>>

(* One turn of the loop.  A line without text is skipped.                  *)
ReadLine ==
  LET text == Copy(transfer, Tokens(file[at + 1])) IN
  /\ HasLine
  /\ at' = at + 1
  /\ IF text = <<>> THEN UNCHANGED <<transfer, config>>
     ELSE transfer' = <<>> /\ config' = Set(config, text)
  /\ UNCHANGED <<pc, file, result>>

(* At the end of the file, and at a line that does not fit: that is no     *)
(* error.                                                                  *)
End ==
  /\ pc = "loop"
  /\ ~HasLine
  /\ pc' = "done"
  /\ result' = "SUCCESS"
  /\ UNCHANGED <<file, at, transfer, config>>

Next == Open \/ ReadLine \/ End

Spec == Init /\ [][Next]_vars

-----------------------------------------------------------------------------
(* The lines that give key a value, among those read.                      *)
Giving(key) ==
  {i \in 1 .. at : "key" \in DOMAIN file[i] /\ file[i].key = key}

(* Every setting is the value of the last line that gives it one, whatever *)
(* lines, comments and longer values came before, converted as its member  *)
(* needs, and the one compiled in if there is none.                        *)
LastLineWins ==
  \A key \in Keys :
    IF Giving(key) = {} THEN config[key] = Default
    ELSE config[key] = [text |-> file[Max(Giving(key))].value, by |-> ConversionOf(key)]
=============================================================================
