----------------------- MODULE MCNotificationDelivery -----------------------
(* The web inbox and one webhook; see the cfg for the bounds.               *)
EXTENDS NotificationDelivery
=============================================================================
