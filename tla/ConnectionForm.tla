--------------------------- MODULE ConnectionForm ---------------------------
(***************************************************************************)
(* The dialog that creates and edits a connection,                         *)
(* frontend/src/components/ConnectionDialog.tsx. It is filled from the     *)
(* list, which has no secrets, and again from the full record when that    *)
(* comes; the answer fills whatever the dialog shows by then.              *)
(*                                                                         *)
(* Abstractions.                                                           *)
(*  - A form is the connection its fields are from, and its secrets: the   *)
(*    ones stored, blank, or typed. A name, host or user that is missing   *)
(*    keeps it from being saved.                                           *)
(*  - MaxFetches and MaxSaves bound the calls in flight.                   *)
(***************************************************************************)
EXTENDS Naturals, FiniteSets

CONSTANTS Profiles, MaxFetches, MaxSaves, NoProfile

VARIABLES
  dialog,       \* [open, connection]: props; NoProfile for a new connection
  form,         \* [from, secret, complete]
  fetches,      \* getConnection calls: [n, of]
  saves,        \* updateConnection and createConnection: [connection, form]
  testing, status,  \* a test is on its way; its result is shown
  profiles,     \* the store: the form each connection was last saved with
  crossed       \* history: the dialog was opened while a record was on its way

formVars == <<dialog, form, fetches, saves, testing, status, profiles, crossed>>

EmptyForm == [from |-> NoProfile, secret |-> "blank", complete |-> FALSE]
Redacted(c) == [profiles[c] EXCEPT !.secret = "blank"]

FormInit ==
  /\ dialog = [open |-> FALSE, connection |-> NoProfile]
  /\ form = EmptyForm
  /\ fetches = {} /\ saves = {}
  /\ testing = FALSE /\ status = FALSE
  /\ profiles = [c \in Profiles |-> [from |-> c, secret |-> "stored", complete |-> TRUE]]
  /\ crossed = FALSE

(* Mutant: a new connection starts from what the form held. *)
OpensWithOld(c) == IF c = NoProfile THEN form ELSE Redacted(c)

OpensWith(c) == IF c = NoProfile THEN EmptyForm ELSE Redacted(c)

(* The effect on "open". *)
OpenForm(c) ==
  /\ ~dialog.open /\ Cardinality(fetches) < MaxFetches
  /\ dialog' = [open |-> TRUE, connection |-> c]
  /\ status' = FALSE /\ form' = OpensWith(c)
  /\ LET n == CHOOSE i \in 1..MaxFetches : \A f \in fetches : f.n # i
     IN fetches' = IF c = NoProfile THEN fetches ELSE fetches \cup {[n |-> n, of |-> c]}
  /\ crossed' = (crossed \/ fetches # {})
  /\ UNCHANGED <<saves, testing, profiles>>

(* Cancel, or a click beside the dialog, which a save does not stop. *)
CloseForm ==
  /\ dialog.open /\ dialog' = [dialog EXCEPT !.open = FALSE]
  /\ UNCHANGED <<form, fetches, saves, testing, status, profiles, crossed>>

RecordComes(f) ==
  /\ fetches' = fetches \ {f} /\ form' = profiles[f.of]
  /\ UNCHANGED <<dialog, saves, testing, status, profiles, crossed>>

(* "keep the redacted values" *)
RecordFails(f) ==
  /\ fetches' = fetches \ {f}
  /\ UNCHANGED <<dialog, form, saves, testing, status, profiles, crossed>>

-----------------------------------------------------------------------------
(* set and setSSH: a field, or a secret, is typed. *)
TypeField(complete) ==
  /\ dialog.open /\ form' = [form EXCEPT !.complete = complete]
  /\ UNCHANGED <<dialog, fetches, saves, testing, status, profiles, crossed>>

TypeSecret ==
  /\ dialog.open /\ form' = [form EXCEPT !.secret = "typed"]
  /\ UNCHANGED <<dialog, fetches, saves, testing, status, profiles, crossed>>

(* applyParsedUrl: host, user, password and name. *)
PasteUrl ==
  /\ dialog.open /\ dialog.connection = NoProfile
  /\ form' = [form EXCEPT !.secret = "typed", !.complete = TRUE]
  /\ UNCHANGED <<dialog, fetches, saves, testing, status, profiles, crossed>>

Test ==
  /\ dialog.open /\ ~testing /\ saves = {}
  /\ testing' = TRUE /\ status' = FALSE
  /\ UNCHANGED <<dialog, form, fetches, saves, profiles, crossed>>

TestEnds ==
  /\ testing /\ testing' = FALSE /\ status' = TRUE
  /\ UNCHANGED <<dialog, form, fetches, saves, profiles, crossed>>

(* The button is disabled while a save is on its way. *)
SaveProfile ==
  /\ dialog.open /\ form.complete /\ Cardinality(saves) < MaxSaves
  /\ saves' = saves \cup {[connection |-> dialog.connection, form |-> form]}
  /\ UNCHANGED <<dialog, form, fetches, testing, status, profiles, crossed>>

(* The store has what was saved; whatever dialog is open closes. *)
SaveEnds(s) ==
  /\ saves' = saves \ {s}
  /\ profiles' = IF s.connection = NoProfile THEN profiles
                 ELSE [profiles EXCEPT ![s.connection] = s.form]
  /\ dialog' = [dialog EXCEPT !.open = FALSE]
  /\ UNCHANGED <<form, fetches, testing, status, crossed>>

ProfileSaveFails(s) ==
  /\ saves' = saves \ {s}
  /\ UNCHANGED <<dialog, form, fetches, testing, status, profiles, crossed>>

Fields == TypeSecret \/ PasteUrl \/ \E complete \in BOOLEAN : TypeField(complete)

FormNext ==
  \/ \E c \in Profiles \cup {NoProfile} : OpenForm(c)
  \/ CloseForm \/ Fields \/ Test \/ TestEnds \/ SaveProfile
  \/ \E f \in fetches : RecordComes(f) \/ RecordFails(f)
  \/ \E s \in saves : SaveEnds(s) \/ ProfileSaveFails(s)

FormSpec == FormInit /\ [][FormNext]_formVars

-----------------------------------------------------------------------------
(* Properties *)

(* A connection is stored with its own address and secrets, and a new one  *)
(* starts from nothing, unless the dialog was opened while the record of   *)
(* an earlier connection was on its way.                                   *)
StoredAsItsOwn ==
  ~crossed =>
    /\ \A c \in Profiles : profiles[c].from = c
    /\ \A s \in saves : s.form.from = s.connection

(* ConnectionDialog.tsx:92 "The list response is redacted, so fetch the    *)
(* full record to prefill secrets": who saves without typing a secret      *)
(* keeps the one that is stored. Not before the record has come, or when   *)
(* it does not come.                                                       *)
SecretsAreKept == \A c \in Profiles : profiles[c].secret # "blank"
=============================================================================
