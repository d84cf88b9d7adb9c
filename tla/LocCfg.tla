------------------------------- MODULE LocCfg -------------------------------
(***************************************************************************)
(* Reading configuration (gps/utils/loc_cfg.cpp): loc_read_conf, which     *)
(* reads a file twice, once for the caller's table and once for the        *)
(* library's own, and loc_update_conf, which applies items handed over by  *)
(* the framework.  Both count down how many records are still to be found  *)
(* and stop when the count is zero.                                        *)
(*                                                                         *)
(* A line is [name, value]; "no item" is a line without two operands, and  *)
(* a third one is ignored.  Lines are shorter than LOC_MAX_PARAM_LINE:     *)
(* fgets splits longer ones, and each part then counts as a line.          *)
(***************************************************************************)
EXTENDS Integers, Sequences, FiniteSets, SequencesExt

CONSTANTS Table,     \* names in the caller's table
          LogTable,  \* names in loc_param_table
          Unknown,   \* names in neither
          MaxLines   \* longest input

VARIABLES lines,     \* the file, or the buffer of loc_update_conf
          call,      \* "loc_read_conf" or "loc_update_conf"
          pass,      \* the table being filled: "table", "log" or "done"
          pos,       \* lines consumed in this pass
          num_params,  \* records still to be found
          value,     \* the parameters: 0 until set
          ret        \* what loc_update_conf will return

vars == <<lines, call, pass, pos, num_params, value, ret>>

NoItem == "no item"
Names == Table \cup LogTable
Lines == [name: Names \cup Unknown \cup {NoItem}, value: {1}]
         \cup [name: Names, value: {2}]

TypeOK == /\ lines \in Seq(Lines) /\ pos \in 0..Len(lines)
          /\ call \in {"loc_read_conf", "loc_update_conf"}
          /\ pass \in {"table", "log", "done"}
          /\ num_params \in Nat
          /\ value \in [Names -> 0..2]
          /\ ret \in Nat

(* loc_update_conf "start[s] with one record off" ... *)
NumParamsUpdate(table) == Cardinality(table) - 1

(* ... and loc_read_conf_r looks for as many records as its table has. *)
NumParamsRead(table) == Cardinality(table)

Init == /\ lines \in UNION {[1..n -> Lines] : n \in 0..MaxLines}
        /\ call \in {"loc_read_conf", "loc_update_conf"}
        /\ pass = "table" /\ pos = 0
        /\ num_params = IF call = "loc_read_conf" THEN NumParamsRead(Table)
                                                  ELSE NumParamsUpdate(Table)
        /\ value = [n \in Names |-> 0]
        /\ ret = 0

PassTable == IF pass = "table" THEN Table ELSE LogTable

(* loc_set_config_entry: the entry whose name the line has. *)
loc_set_config_entry(line) ==
  IF line.name \in PassTable THEN [value EXCEPT ![line.name] = line.value] ELSE value

(* loc_fill_conf_item: how many records of the table the line fills. *)
loc_fill_conf_item(line) == IF line.name \in PassTable THEN 1 ELSE 0

(* One turn of the loop of loc_read_conf_r or of loc_update_conf. *)
Line == /\ pass # "done" /\ num_params > 0 /\ pos < Len(lines)
        /\ pos' = pos + 1
        /\ value' = loc_set_config_entry(lines[pos'])
        /\ num_params' = num_params - loc_fill_conf_item(lines[pos'])
        /\ ret' = IF call = "loc_update_conf" THEN ret + 1 ELSE ret
        /\ UNCHANGED <<lines, call, pass>>

(* The loop ends; loc_read_conf rewinds the file for its own table. *)
EndOfPass == /\ pass # "done" /\ (num_params = 0 \/ pos = Len(lines))
             /\ IF pass = "table" /\ call = "loc_read_conf"
                THEN pass' = "log" /\ pos' = 0 /\ num_params' = NumParamsRead(LogTable)
                ELSE pass' = "done" /\ UNCHANGED <<pos, num_params>>
             /\ UNCHANGED <<lines, call, value, ret>>

Next == Line \/ EndOfPass

Spec == Init /\ [][Next]_vars

-----------------------------------------------------------------------------
Occurs(name) == {i \in DOMAIN lines : lines[i].name = name}
Given(table) == {n \in table : Occurs(n) # {}}

(* When no parameter is repeated, the tables end up with exactly what the  *)
(* input says, wherever unknown names and lines without an item stand in   *)
(* it: counting the records down never cuts the input short.  The one      *)
(* exception is loc_update_conf, started one record off, when the input    *)
(* names every record of the table.                                        *)
InputIsTaken ==
  (/\ pass = "done"
   /\ \A n \in Names : Cardinality(Occurs(n)) <= 1
   /\ call = "loc_update_conf" => Given(Table) # Table) =>
     \A n \in IF call = "loc_read_conf" THEN Names ELSE Table :
       value[n] = IF Occurs(n) = {} THEN 0 ELSE lines[CHOOSE i \in Occurs(n) : TRUE].value

(* "RETURN VALUE number of the records in the table that is updated at     *)
(* time of return" (loc_update_conf): what it returns is the number of     *)
(* records that got a value.  The code does not keep this; see Divergences *)
(* in the README.                                                          *)
ReturnsUpdatedRecords ==
  (pass = "done" /\ call = "loc_update_conf") =>
    ret = Cardinality({n \in Table : value[n] # 0})

=============================================================================
