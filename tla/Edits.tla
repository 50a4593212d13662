-------------------------------- MODULE Edits --------------------------------
(***************************************************************************)
(* What staff set while the shop is open: the payment policy and what each *)
(* method of payment costs and whether it is offered (payments.Settings),  *)
(* what a variant costs and which pack of an ingredient is the default     *)
(* one (package catalog).                                                  *)
(*                                                                         *)
(* An edit is a transaction.  Its statements are steps, each of which sees *)
(* what is committed by then; the last one commits.  The write, its audit  *)
(* entry and the commit are one step, as nobody sees the ones before.      *)
(***************************************************************************)
EXTENDS Integers, FiniteSets, Sequences

CONSTANTS
  Method,        \* of payment
  Other,         \* the payment policy: what else has a default
  Sold,          \* the variants
  Default,       \* of each method and the policy, until the owner sets it
  FirstPrice,    \* of each variant
  Pack,
  IngredientOf,  \* of each pack
  Edit,          \* edits of staff, who send them again and again
  Asked,         \* what each asks for
  MaxEdits       \* bound: how many edits are sent

Thing == Method \cup Other \cup Sold
Packed == {IngredientOf[p] : p \in Pack}

\* A rule of a method says whether it is offered; of prices and the policy it
\* matters only that they differ.
Offered(rule) == rule.enabled

\* What the constants are.  "published" prices are all on offer.
ASSUME EditsAssumption ==
  /\ Method # {} /\ Method \cap Sold = {} /\ Method \cap Other = {} /\ Other \cap Sold = {}
  /\ \A m \in Method : Offered(Default[m])
  /\ IngredientOf \in [Pack -> Packed] /\ MaxEdits \in Nat
  /\ "settings" \notin Thing /\ "nobody" \notin Edit
  /\ \A e \in Edit : \/ Asked[e].kind = "set" /\ Asked[e].thing \in Thing
                     \/ Asked[e].kind = "reset" /\ Asked[e].thing \in Method
                     \/ Asked[e].kind = "default" /\ Asked[e].pack \in Pack

VARIABLES
  row,       \* of each thing
  defaults,  \* the packs marked as the default
  trail,     \* the audit entries of each thing
  holder,    \* who has the lock of the settings, and of each variant
  edit,      \* what each edit does
  sent       \* how many were sent

editsVars == <<row, defaults, trail, holder, edit, sent>>

Unset == [set |-> FALSE]
Row(v) == [set |-> TRUE, value |-> v]

Idle == [at |-> "idle"]
Nobody == "nobody"

DefaultsOf(i) == {p \in defaults : IngredientOf[p] = i}

\* The price of a variant is there from the start.
FirstRow(t) == IF t \in Sold THEN Row(FirstPrice[t]) ELSE Unset

EditsInit ==
  /\ row = [t \in Thing |-> FirstRow(t)]
  /\ defaults \in SUBSET Pack
  /\ \A p, q \in defaults : IngredientOf[p] = IngredientOf[q] => p = q
  /\ trail = [t \in Thing |-> <<>>]
  /\ holder = [l \in {"settings"} \cup Thing |-> Nobody]
  /\ edit = [e \in Edit |-> Idle]
  /\ sent = 0

-----------------------------------------------------------------------------
\* Policy, rules and prices.

\* What applies.
ValueOf(r, t) == IF r.set THEN r.value ELSE Default[t]
Current(t) == ValueOf(row[t], t)

\* What an audit entry shows of it.
Shown(r, t) == [value |-> ValueOf(r, t), default |-> ~r.set]

\* Fault: each method and the policy have a lock of their own.
LockOf_Own(t) == t

\* The settings have one lock, a variant's price its row's.
LockOf(t) == IF t \in Sold THEN t ELSE "settings"

\* Fault: nobody is waited for.
LockFree_Always(l) == TRUE

LockFree(l) == holder[l] = Nobody

\* The edit is over: the end of its transaction lets go of its lock.
Over(e) ==
  /\ edit' = [edit EXCEPT ![e] = Idle]
  /\ holder' = [l \in DOMAIN holder |-> IF holder[l] = e THEN Nobody ELSE holder[l]]

\* Its first statement: the lock, or the search for the default packs.
Begin(e) ==
  /\ edit[e] = Idle /\ sent < MaxEdits
  /\ sent' = sent + 1
  /\ edit' = [edit EXCEPT ![e] =
                IF Asked[e].kind = "default"
                THEN [at |-> "clearing", found |-> DefaultsOf(IngredientOf[Asked[e].pack])]
                ELSE [at |-> "locking"]]
  /\ UNCHANGED <<row, defaults, trail, holder>>

Lock(e) ==
  LET l == LockOf(Asked[e].thing)
  IN  /\ edit[e].at = "locking" /\ LockFree(l)
      /\ holder' = [holder EXCEPT ![l] = e]
      /\ edit' = [edit EXCEPT ![e] = [at |-> "reading"]]
      /\ UNCHANGED <<row, defaults, trail, sent>>

\* Saving what applies already changes nothing; the last method stays.
Unchanged(e) == Asked[e].kind = "set" /\ Current(Asked[e].thing) = Asked[e].value

LastMethod(e) ==
  /\ Asked[e].kind = "set" /\ Asked[e].thing \in Method
  /\ ~Offered(Asked[e].value)
  /\ \A m \in Method \ {Asked[e].thing} : ~Offered(Current(m))

Read(e) ==
  LET t == Asked[e].thing
  IN  /\ edit[e].at = "reading"
      /\ IF Unchanged(e) \/ LastMethod(e)
         THEN Over(e)
         ELSE /\ edit' = [edit EXCEPT ![e] = [at |-> "writing", before |-> Shown(row[t], t)]]
              /\ UNCHANGED holder
      /\ UNCHANGED <<row, defaults, trail, sent>>

\* What the edit leaves; ResetMethod deletes the row.
NewRow(e) == IF Asked[e].kind = "set" THEN Row(Asked[e].value) ELSE Unset

\* A reset that finds no row changes nothing.
Save(e) ==
  LET t == Asked[e].thing
      entry == [before |-> edit[e].before, after |-> Shown(NewRow(e), t)]
  IN  /\ edit[e].at = "writing"
      /\ IF Asked[e].kind = "reset" /\ row[t] = Unset
         THEN UNCHANGED <<row, trail>>
         ELSE /\ row' = [row EXCEPT ![t] = NewRow(e)]
              /\ trail' = [trail EXCEPT ![t] = Append(@, entry)]
      /\ Over(e)
      /\ UNCHANGED <<defaults, sent>>

\* A statement fails or the process stops; the transaction is rolled back.
Fail(e) ==
  /\ edit[e] # Idle
  /\ Over(e)
  /\ UNCHANGED <<row, defaults, trail, sent>>

-----------------------------------------------------------------------------
\* Default packs.

\* Another transaction has changed the row of the pack.
Touched(p, e) == \E d \in Edit \ {e} : edit[d].at = "marking" /\ p \in edit[d].cleared

\* ClearDefaultPack waits for the rows it found, and changes those that are
\* still a default; it does not look for others again.
Clear(e) ==
  /\ edit[e].at = "clearing" /\ \A p \in edit[e].found : ~Touched(p, e)
  /\ edit' = [edit EXCEPT ![e] = [at |-> "marking", cleared |-> edit[e].found \cap defaults]]
  /\ UNCHANGED <<row, defaults, trail, holder, sent>>

\* Fault: without the unique index.
Taken_Never(e) == FALSE

\* The ingredient has another default.
Taken(e) ==
  DefaultsOf(IngredientOf[Asked[e].pack]) \ (edit[e].cleared \cup {Asked[e].pack}) # {}

\* MarkDefaultPack waits for whoever changes the ingredient's default, is
\* refused if that leaves one, or else is committed.
Mark(e) ==
  LET p == Asked[e].pack
  IN  /\ edit[e].at = "marking"
      /\ \A q \in Pack : IngredientOf[q] = IngredientOf[p] => ~Touched(q, e)
      /\ defaults' = IF Taken(e) THEN defaults ELSE (defaults \ edit[e].cleared) \cup {p}
      /\ Over(e)
      /\ UNCHANGED <<row, trail, sent>>

-----------------------------------------------------------------------------
EditsNext == \E e \in Edit : Begin(e) \/ Lock(e) \/ Read(e) \/ Save(e) \/ Clear(e) \/ Mark(e) \/ Fail(e)

EditsSpec == EditsInit /\ [][EditsNext]_editsVars

-----------------------------------------------------------------------------
\* Properties.

\* "Two owners cannot switch off the last two methods at once"
\* (LockPaymentSettings): checkout always has a way to pay, whatever edits and
\* resets overlap.
MethodStays == \E m \in Method : Offered(Current(m))

\* Entries lead from what applied first to what applies last.
AddsUp(entries, first, last) ==
  \A n \in 0 .. Len(entries) :
    (IF n = 0 THEN first ELSE entries[n].after)
      = (IF n = Len(entries) THEN last ELSE entries[n + 1].before)

\* "The audit sees the true before-state" (LockPaymentSettings), and so for the
\* price of a variant (LockVariantPrice): each entry goes on where the one
\* before it ended, and the last one ends at what applies.
TrailTells == \A t \in Thing : AddsUp(trail[t], Shown(FirstRow(t), t), Shown(row[t], t))

\* "At most one default pack per ingredient: the one the shopping list rounds
\* to": one that has a default never loses it, nor gets a second, though two
\* edits clear and mark at once (SetDefaultPack).
DefaultKept == \A i \in Packed : DefaultsOf(i) # {} => Cardinality(DefaultsOf(i)') = 1
DefaultStays == [][DefaultKept]_editsVars

=============================================================================
