------------------------------ MODULE MCJourney ------------------------------
(***************************************************************************)
(* Scripts in which one call follows another that it could collide with.   *)
(***************************************************************************)
EXTENDS Journey

A(endpoint, amount) == [endpoint |-> endpoint, amount |-> amount, mode |-> "none"]
Pay(mode) == [endpoint |-> "CreatePayment", amount |-> 2, mode |-> mode]

MCScripts ==
  { \* a part is captured, the rest released, the part refunded
    <<Pay("authorize"), A("CapturePayment", 1), A("CreateRefund", 1)>>,
    \* all of it is captured, or voided first
    <<Pay("authorize"), A("VoidPayment", 0), A("CapturePayment", 0)>>,
    <<Pay("authorize"), A("CapturePayment", 0), A("VoidPayment", 0)>>,
    \* two refunds of a half, then one too many
    <<Pay("instant"), A("CreateRefund", 1), A("CreateRefund", 1), A("CreateRefund", 1)>>,
    <<A("PauseSubscription", 0), A("ResumeSubscription", 0), A("CancelSubscription", 0)>>,
    <<A("CancelSubscription", 0), A("ResumeSubscription", 0)>>,
    <<A("SetUserCreditLimit", 2), A("SetUserCreditLimit", 1), A("CreateTransfer", 1)>>,
    <<A("RefreshTopup", 0), A("RefreshTopup", 0), A("ConvertPoints", 1)>>,
    <<A("CreateUser", 0), A("CreateTransfer", 1), A("CreateTransfer", 2)>>,
    <<A("CreateWebhookEndpoint", 0), A("RedeliverWebhookEvent", 0)>> }
==============================================================================
