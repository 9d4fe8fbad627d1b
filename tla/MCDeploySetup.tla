---------------------------- MODULE MCDeploySetup ----------------------------
(* A small instance of DeploySetup for TLC. *)
EXTENDS DeploySetup

Wirings == {[gh |-> TRUE, rest |-> "none"], [gh |-> FALSE, rest |-> "token"],
            [gh |-> FALSE, rest |-> "no token"], [gh |-> FALSE, rest |-> "none"]}

Plain == [fields |-> [f \in Fields |-> "text"], content |-> TRUE, secrets |-> {1, 2}]

\* A good plan, a secret-shaped repository or branch, and refused ones.
SomePlans == {Plain, [Plain EXCEPT !.fields["repo"] = "token"],
              [Plain EXCEPT !.fields["branch"] = "token"],
              [Plain EXCEPT !.fields["owner"] = ""], [Plain EXCEPT !.fields["branch"] = "expr"],
              [Plain EXCEPT !.content = FALSE], [Plain EXCEPT !.secrets = {}]}
==============================================================================
