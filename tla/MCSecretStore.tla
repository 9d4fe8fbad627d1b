---------------------------- MODULE MCSecretStore ----------------------------
(* A small instance of SecretStore for TLC. *)
EXTENDS SecretStore

Typed == {[word |-> "one", newlines |-> 1], [word |-> "two", newlines |-> 0],
          [word |-> "short", newlines |-> 0]}

Behaviours == {"ok", "refuses", "stores and refuses", "read fails", "forgets", "mixes up", "keeps"}

File(form, key) == [form |-> form, key |-> key, salt |-> key.salt, entries |-> Empty]
Some == {File(form, NoKey) : form \in {"none", "short", "unknown version", "unreadable"}}
            \cup {File("other schema", deriveKey([word |-> "two", newlines |-> 0], 9))}
==============================================================================
