------------------------------ MODULE PolicyRows ------------------------------
(***************************************************************************)
(* The table casbin_rule and the adapter casbin drives it through          *)
(* (rbac/adapter.go).  A rule is a ptype and its values; a row has Width   *)
(* value columns, the ones past the rule's last value empty.  The table's  *)
(* unique index makes it a set of rows.  An operation yields the rows it   *)
(* leaves and whether it was refused; a refused one, and one the database  *)
(* fails, rolls back.                                                      *)
(***************************************************************************)
EXTENDS Integers, Sequences, FiniteSets, SequencesExt, FiniteSetsExt

CONSTANT Width      \* maxRuleColumns

ASSUME WidthAssumption == Width \in Nat \ {0}

Empty == ""
Rule(ptype, values) == [ptype |-> ptype, v |-> values]
Fits(rule) == Len(rule.v) <= Width

ruleToRow(rule) ==
  [ptype |-> rule.ptype, v |-> [i \in 1..Width |-> IF i <= Len(rule.v) THEN rule.v[i] ELSE Empty]]

(* Trailing empty columns are no values of the rule.                       *)
rowToRule(row) ==
  LET used == {i \in 1..Width : row.v[i] # Empty}
  IN  Rule(row.ptype, IF used = {} THEN <<>> ELSE SubSeq(row.v, 1, Max(used)))

Ok(rows) == [rows |-> rows, refused |-> FALSE, old |-> {}]
Refused(rows) == [rows |-> rows, refused |-> TRUE, old |-> {}]

-----------------------------------------------------------------------------
(* Which rows a WHERE meets.                                               *)

(* applyValueColumns: the columns past the rule are not constrained.       *)
applyValueColumns(rows, rule) ==
  {row \in rows : row.ptype = rule.ptype /\ \A i \in 1..Len(rule.v) : row.v[i] = rule.v[i]}

applyExactRule(rows, rule) == rows \cap {ruleToRow(rule)}

(* applyValueColumnsFiltered: values from column index on (0 the first),   *)
(* an empty one a wildcard, those past the last column left out.           *)
applyValueColumnsFiltered(rows, ptype, index, values) ==
  {row \in rows : row.ptype = ptype /\
     \A i \in 1..Len(values) : (index + i <= Width /\ values[i] # Empty) => row.v[index + i] = values[i]}

hasAnyMappedConstraint(index, values) ==
  index >= 0 /\ \E i \in 1..Len(values) : index + i <= Width /\ values[i] # Empty

-----------------------------------------------------------------------------
(* The operations.                                                         *)

(* LoadPolicy: the rules the rows hold; a row without a ptype fails it.    *)
LoadPolicy(rows) == {rowToRule(row) : row \in rows}
Loadable(rows) == \A row \in rows : row.ptype # Empty

SavePolicy(rows, rules) ==
  IF \E rule \in rules : ~ Fits(rule) THEN Refused(rows) ELSE Ok({ruleToRow(rule) : rule \in rules})

(* AddPolicy and AddPolicies: a row that is there already stays.           *)
AddPolicies(rows, rules) ==
  IF \E rule \in rules : ~ Fits(rule) THEN Refused(rows) ELSE Ok(rows \cup {ruleToRow(rule) : rule \in rules})

(* RemovePolicy and RemovePolicies, in one transaction.                    *)
RemovePolicies(rows, rules) ==
  Ok(rows \ UNION {applyValueColumns(rows, rule) : rule \in rules})

RemoveFilteredPolicy(rows, ptype, index, values) ==
  IF hasAnyMappedConstraint(index, values)
  THEN Ok(rows \ applyValueColumnsFiltered(rows, ptype, index, values))
  ELSE Refused(rows)

(* UpdatePolicy and UpdatePolicies: every old rule must meet its row, and  *)
(* no new row one that is left.                                            *)
UpdatePolicies_NoRowCheck(rows, old, new) ==
  LET others == rows \ UNION {applyExactRule(rows, rule) : rule \in old}
      rest == {ruleToRow(rule) : rule \in new}
  IN  IF others \cap rest # {} \/ \E rule \in old \cup new : ~ Fits(rule) THEN Refused(rows) ELSE Ok(others \cup rest)
UpdatePolicies(rows, old, new) ==
  LET others == rows \ UNION {applyExactRule(rows, rule) : rule \in old}
      rest == {ruleToRow(rule) : rule \in new}
  IN  IF \/ \E rule \in old \cup new : ~ Fits(rule)
         \/ \E rule \in old : applyExactRule(rows, rule) = {}
         \/ others \cap rest # {}
      THEN Refused(rows) ELSE Ok(others \cup rest)

(* UpdateFilteredPolicies also returns the rules it replaced; a filter     *)
(* that meets none may not insert.                                         *)
UpdateFilteredPolicies(rows, ptype, new, index, values) ==
  LET old == applyValueColumnsFiltered(rows, ptype, index, values)
      rest == {ruleToRow(rule) : rule \in new}
  IN  IF \/ ~ hasAnyMappedConstraint(index, values)
         \/ \E rule \in new : ~ Fits(rule)
         \/ old = {} /\ new # {}
         \/ (rows \ old) \cap rest # {}
      THEN Refused(rows)
      ELSE [rows |-> (rows \ old) \cup rest, refused |-> FALSE, old |-> {rowToRule(row) : row \in old}]
=============================================================================
