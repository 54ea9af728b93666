------------------------------ MODULE Bootstrap ------------------------------
(* What a process makes of its environment before it serves anything
   (bootstrap): the deployment settings it accepts, and the agent it binds.
   Pure: a setting is a number, or what the decision tells apart of a string. *)
EXTENDS Integers

(* DeploymentSettingsV1, the field ranges.  No field has a default, so a value
   that is missing is outside its range.                                     *)
InRange(s) ==
    /\ s.max_attempts_per_lineage \in 1..8 /\ s.max_resident_conversations \in 1..10^5
    /\ s.max_global_active_runs \in 1..10^3 /\ s.max_session_active_runs \in 1..16
    /\ s.max_queued_runs \in 1..10^3 /\ s.max_turns_per_conversation \in 1..10^3
    /\ s.max_output_bytes \in 2^10..2^22 /\ s.max_replay_events \in 16..10^6
    /\ s.max_replay_bytes \in 2^12..2^24 /\ s.max_sse_connections \in 1..10^3
    /\ s.create_rate_per_minute \in 1..6 * 10^3 /\ s.submit_rate_per_minute \in 1..6 * 10^3
    /\ s.poll_rate_per_minute \in 1..6 * 10^4 /\ s.retry_rate_per_minute \in 1..6 * 10^3
    /\ s.cancel_rate_per_minute \in 1..6 * 10^3 /\ s.max_requests_per_ip_per_minute \in 1..6 * 10^4
    /\ s.max_provider_concurrency \in 1..64 /\ s.spend_window_seconds \in 1..24 * 60^2
    /\ s.spend_limit_units \in 1..10^6

(* The three rules no single field can express.                              *)
WorkTogether(s) ==
    /\ s.max_queued_runs < s.max_global_active_runs
    /\ s.poll_rate_per_minute < s.max_requests_per_ip_per_minute
    /\ 2 * s.max_output_bytes <= s.max_replay_bytes

Accepted(s) == InRange(s) /\ WorkTogether(s)

-----------------------------------------------------------------------------
(* AgentLimitsV1: every budget of one Run fits in the model's window.        *)
HistoryTokenBudget == 8192
AgentLimits == [max_tool_output_tokens |-> 12000, max_output_tokens |-> 2048,
                fixed_overhead_tokens |-> 1500]
FitsWindow(window) ==
    HistoryTokenBudget + AgentLimits.max_tool_output_tokens
      + AgentLimits.max_output_tokens + AgentLimits.fixed_overhead_tokens <= window

(* build_provider with the refusals of build_chat_application: an endpoint the
   operator named is served by the sidecar or by nobody, and the deterministic
   agent answers only where none was named.  The Close Grace of either agent is
   250 ms, so _validated_close_grace refuses neither.                        *)
ProviderInputs ==
    [profile : {"local_test", "other"}, base_url : {"blank", "unusable", "usable"},
     api_key : BOOLEAN, wiki_root : BOOLEAN,
     tokenizer : {"blank", "unreadable", "readable"},
     model_context_window : {23739, 23740}, node : BOOLEAN]

Bindable(p) ==
    /\ p.base_url = "usable" /\ p.api_key /\ p.wiki_root
    /\ p.tokenizer = "readable" /\ FitsWindow(p.model_context_window) /\ p.node

BuildProvider(p) ==
    IF p.profile # "local_test" THEN "unbound"
    ELSE IF p.base_url = "blank" THEN "fake"
    ELSE IF Bindable(p) THEN "sidecar" ELSE "unbound"
=============================================================================
