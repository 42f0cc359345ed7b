--------------------------- MODULE PolicyCompiler ---------------------------
(***************************************************************************)
(* The policy compilers of backend/: what a provider may answer, which     *)
(* answers are read (gemini_compiler.py, anthropic_compiler.py) and what   *)
(* backend code makes of the model's words (policy_models.py).             *)
(***************************************************************************)
EXTENDS Integers

CONSTANT Floor  \* the balance floors that are base-unit uint256 integers

\* PolicyFloorOutput: all a model may decide.  The minimum is a text; which
\* floor it denotes matters only when it is a usable integer.
Outputs == [supported : BOOLEAN,
            minimum : {"integer", "missing", "malformed", "exceeds uint256", "digits int refuses"},
            floor : Floor,
            rationale : BOOLEAN,     \* at least one that is not blank
            unsupported : BOOLEAN]   \* something it could not express

\* A response: how it ended, whether it is one assistant message with one text
\* from the configured model, and what the text is.
Responses == [ended : {"normally", "truncated", "refused"},
              single : BOOLEAN, configuredModel : BOOLEAN,
              text : {"output", "not JSON", "off schema"}, output : Outputs]

Providers == {"google-gemini", "anthropic"}

\* _parse_output; only the Anthropic compiler looks at the model that answered.
Parses(provider, response) ==
    /\ response.ended = "normally" /\ response.single
    /\ provider = "anthropic" => response.configuredModel
    /\ response.text = "output"

\* str.isdigit accepts digits that int() refuses, and then assembling raises.
Raises(output) == output.minimum = "digits int refuses"

\* _floor_reason and the reason codes of assemble_compilation.
Reasons(output) ==
    {code \in {"MODEL_REPORTED_UNSUPPORTED", "UNSUPPORTED_ITEMS_PRESENT",
               "MINIMUM_BALANCE_MISSING", "MINIMUM_BALANCE_NOT_A_BASE_UNIT_INTEGER",
               "MINIMUM_BALANCE_EXCEEDS_UINT256", "NO_RATIONALE_FOR_POLICY"} :
        CASE code = "MODEL_REPORTED_UNSUPPORTED" -> ~output.supported
          [] code = "UNSUPPORTED_ITEMS_PRESENT" -> output.unsupported
          [] code = "MINIMUM_BALANCE_MISSING" -> output.minimum = "missing"
          [] code = "MINIMUM_BALANCE_NOT_A_BASE_UNIT_INTEGER" -> output.minimum = "malformed"
          [] code = "MINIMUM_BALANCE_EXCEEDS_UINT256" -> output.minimum = "exceeds uint256"
          [] code = "NO_RATIONALE_FOR_POLICY" -> ~output.rationale}

\* The floors a provider's response can put into a proposal, or none when the
\* result is not approvable: mixed intent fails closed.
Approvable(output) == Reasons(output) = {}

\* What compile() may return: the outputs it gets as far as assembling.
Assembled == {response.output : response \in
                {r \in Responses : ~Raises(r.output) /\ \E p \in Providers : Parses(p, r)}}

\* Transport, parsing or assembling fails, and no result is made up.
Fails == \E response \in Responses :
            \E p \in Providers : ~Parses(p, response) \/ Raises(response.output)
=============================================================================
