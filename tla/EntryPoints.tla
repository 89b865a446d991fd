----------------------------- MODULE EntryPoints -----------------------------
(***************************************************************************)
(* The addresses handed to a guest that asks for a function by name:       *)
(* glXGetProcAddressARB and dlsym.  An imported name is answered with the  *)
(* guest's own PLT stub; any other gets a token, from a table of the       *)
(* driver's entry points or from one of stubs, that dispatch routes back.  *)
(*                                                                         *)
(* Neither table has a lock.  A search that found nothing, the write of    *)
(* the new entry and the step of the counter are separate here, as any     *)
(* thread's may come between.                                              *)
(***************************************************************************)
EXTENDS Integers, FiniteSets

CONSTANTS
  Askers,      \* threads
  Names,
  Imported,    \* names in the guest's PLT
  Unresolved,  \* names the driver does not have
  GlMax,       \* GL_TOKEN_MAX
  DlMax,       \* DL_TOKEN_MAX
  MaxAsked,    \* bound: requests
  NOBODY       \* an entry never written

ASSUME EntryAssumption ==
  /\ Imported \subseteq Names /\ Unresolved \subseteq Names
  /\ GlMax \in Nat /\ DlMax \in Nat /\ MaxAsked \in Nat /\ NOBODY \notin Names
  /\ IsFiniteSet(Askers)

VARIABLES
  entries,  \* g_tok and g_dl_tok: the names by number, from 0
  used,     \* g_tok_n and g_dl_tok_n
  asking,   \* what each thread is about
  handed,   \* what was answered to whom asked for what
  mixed     \* whether two threads were ever in one table together

entryVars == <<entries, used, asking, handed, mixed>>

Tables == {"gl", "dl"}
TableMax(table) == IF table = "gl" THEN GlMax ELSE DlMax
Idle == [step |-> "idle", table |-> "gl", name |-> NOBODY]

EntryInit ==
  /\ entries = [table \in Tables |-> [i \in 0..(TableMax(table) - 1) |-> NOBODY]]
  /\ used = [table \in Tables |-> 0]
  /\ asking = [t \in Askers |-> Idle]
  /\ handed = {} /\ mixed = FALSE

\* An address: a PLT stub, an entry of a table, or null.
Stub(name) == [kind |-> "plt", i |-> 0, name |-> name]
Token(table, i) == [kind |-> table, i |-> i, name |-> NOBODY]
NullAddress == [kind |-> "null", i |-> 0, name |-> NOBODY]

Answer(table, name, va) == handed' = handed \cup {[table |-> table, name |-> name, va |-> va]}

----------------------------------------------------------------------------
\* h_glXGetProcAddressARB and h_dlsym: the PLT is asked first.
AskImported(table, name) ==
  /\ name \in Imported
  /\ Answer(table, name, Stub(name))
  /\ UNCHANGED <<entries, used, asking, mixed>>

\* Mutant: the table is not searched.
NeverKnown(table, name) == {}

Known(table, name) ==
  {i \in DOMAIN entries[table] : i < used[table] /\ entries[table][i] = name}

\* A search that meets a counted entry nobody wrote compares a null name, and
\* the program is over: no search of that table returns.
Searchable(table) ==
  /\ used[table] <= TableMax(table)
  /\ \A i \in DOMAIN entries[table] : i < used[table] => entries[table][i] # NOBODY

\* The search of gl_token_for and dl_stub_for: the first entry of the name.
AskKnown(table, name) ==
  /\ name \notin Imported /\ Searchable(table) /\ Known(table, name) # {}
  /\ Answer(table, name, Token(table, CHOOSE i \in Known(table, name) :
                                        \A j \in Known(table, name) : i <= j))
  /\ UNCHANGED <<entries, used, asking, mixed>>

AskNew(t, table, name) ==
  /\ asking[t].step = "idle"
  /\ name \notin Imported /\ Searchable(table) /\ Known(table, name) = {}
  /\ asking' = [asking EXCEPT ![t] = [step |-> "write", table |-> table, name |-> name]]
  /\ mixed' = (mixed \/ \E u \in Askers \ {t} : asking[u].table = table /\ asking[u].step # "idle")
  /\ UNCHANGED <<entries, used, handed>>

\* Only the driver can turn a name down, and it may turn down any while no
\* context is current; a full table is told by its counter.
Refuse(t) ==
  LET a == asking[t] IN
  /\ a.step = "write"
  /\ a.table = "gl" \/ used[a.table] >= TableMax(a.table)
  /\ Answer(a.table, a.name, NullAddress)
  /\ asking' = [asking EXCEPT ![t] = Idle]
  /\ UNCHANGED <<entries, used, mixed>>

WriteEntry(t) ==
  LET a == asking[t] IN
  /\ a.step = "write" /\ used[a.table] < TableMax(a.table)
  /\ a.table = "gl" => a.name \notin Unresolved
  /\ entries' = [entries EXCEPT ![a.table][used[a.table]] = a.name]
  /\ asking' = [asking EXCEPT ![t].step = "take"]
  /\ UNCHANGED <<used, handed, mixed>>

TakeToken(t) ==
  LET a == asking[t] IN
  /\ a.step = "take"
  /\ Answer(a.table, a.name, Token(a.table, used[a.table]))
  /\ used' = [used EXCEPT ![a.table] = @ + 1]
  /\ asking' = [asking EXCEPT ![t] = Idle]
  /\ UNCHANGED <<entries, mixed>>

EntryNext ==
  \E t \in Askers :
    \/ \E table \in Tables, name \in Names :
         \/ AskImported(table, name) \/ AskKnown(table, name)
         \/ used["gl"] + used["dl"] < MaxAsked /\ AskNew(t, table, name)
    \/ Refuse(t) \/ WriteEntry(t) \/ TakeToken(t)

----------------------------------------------------------------------------
\* What a call to an address reaches: gl_token_call and hle_stub_call take the
\* addresses in their tables' ranges, the PLT lookup the stubs.
Routed(va) ==
  IF va.kind = "plt" THEN va.name
  ELSE IF va.kind \in Tables /\ va.i < used[va.kind] /\ va.i \in DOMAIN entries[va.kind]
  THEN entries[va.kind][va.i] ELSE NOBODY

EntryTypeOK ==
  /\ \A table \in Tables :
       /\ \A i \in DOMAIN entries[table] : entries[table][i] \in Names \cup {NOBODY}
       /\ used[table] \in 0..(TableMax(table) + Cardinality(Askers))
  /\ \A t \in Askers : asking[t].step \in {"idle", "write", "take"}

\* Every address but null reaches the function it was asked for by name, for as
\* long as the guest keeps it, and a name has one address in a table: as long
\* as no two threads were in it together, which nothing prevents.
AddressesKeep ==
  mixed \/
  /\ \A h \in handed : h.va # NullAddress => Routed(h.va) = h.name
  /\ \A g, h \in handed :
       /\ g.name = h.name /\ g.table = h.table
       /\ g.va # NullAddress /\ h.va # NullAddress
       => g.va = h.va
=============================================================================
