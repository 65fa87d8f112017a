---------------------------- MODULE MCOrchestrator ----------------------------
(***************************************************************************)
(* Orchestrator for TLC: configurations that are accepted, one for each    *)
(* way a pair of servers can run, and ones that are wrong in one point.    *)
(***************************************************************************)
EXTENDS Orchestrator

ModesOf(c, m) == [customer |-> c, moderator |-> m]

Good(c, m) == [complete |-> TRUE, keyLen |-> 64, keyIsHex |-> TRUE,
               mode |-> ModesOf(c, m)]

MCConfigs ==
    { Good("polling", "polling"), Good("webhook", "webhook"),
      Good("other", "polling"),
      [Good("polling", "polling") EXCEPT !.keyLen = 48],
      [Good("polling", "polling") EXCEPT !.keyIsHex = FALSE],
      [Good("polling", "polling") EXCEPT !.complete = FALSE] }

MCTopics == {"mod:message", "mod:callback_query", "mod:channel_post",
             "user:approved", "user:rejected"}
MCHandlers == {"router", "notification", "queue"}
MCData == 1..MaxUpdates
=============================================================================
