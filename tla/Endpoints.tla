------------------------------- MODULE Endpoints -------------------------------
(***************************************************************************)
(* The exported methods of Client, one call of `do` or doKeyed each: which *)
(* of them read, which write without an idempotency key, and which carry   *)
(* one.  Paths, filters and result types are left out, and so are the      *)
(* iterators, whose pages are among the reads.                             *)
(***************************************************************************)

\* users.go
UserCalls ==
  [reads   |-> {"Me", "GetUser", "ListUsers", "UserBalances", "ListUserTransactions",
                "ListTransactions"},
   unkeyed |-> {"CreateUser", "SetUserCreditLimit"},
   keyed   |-> {}]

\* money.go
MoneyCalls ==
  [reads   |-> {"ListTopupMethods", "GetTopup", "GetPayment", "ListUserRewards",
                "GetSubscription", "ListSubscriptions"},
   unkeyed |-> {"RefreshTopup", "VoidPayment", "PauseSubscription", "ResumeSubscription",
                "CancelSubscription"},
   keyed   |-> {"CreateTopup", "CreateTransfer", "CreatePayment", "CapturePayment",
                "CreateRefund", "ConvertPoints", "CreateSubscription"}]

\* commerce.go is read-only.
CommerceCalls ==
  [reads   |-> {"ListClients", "GetClient", "ListClientOfferings", "GetClientOffering",
                "ListOrders", "GetOrder", "ListExploreClients", "ExploreClient",
                "ExploreOffering"},
   unkeyed |-> {},
   keyed   |-> {}]

\* webhooks_api.go
WebhookCalls ==
  [reads   |-> {"ListWebhookEndpoints", "ListWebhookEvents", "ListWebhookDeliveries"},
   unkeyed |-> {"CreateWebhookEndpoint", "RedeliverWebhookEvent"},
   keyed   |-> {}]

Reads == UserCalls.reads \union MoneyCalls.reads \union CommerceCalls.reads \union WebhookCalls.reads
UnkeyedWrites == UserCalls.unkeyed \union MoneyCalls.unkeyed \union WebhookCalls.unkeyed
KeyedWrites == MoneyCalls.keyed
Endpoints == Reads \union UnkeyedWrites \union KeyedWrites

\* The method and the key that the wrapper passes on.
Method(e) == IF e \in Reads THEN "GET" ELSE "POST"

\* Faulty variant: the refund goes through `do`, without its key.
KeyedButRefunds(e) == e \in KeyedWrites \ {"CreateRefund"}

Keyed(e) == e \in KeyedWrites
===============================================================================
