------------------------------ MODULE MCUsbHid ------------------------------
EXTENDS UsbHid

MCKbd == <<[t |-> "iface", class |-> "hidboot", proto |-> "kbd"], [t |-> "ep", intr_in |-> TRUE],
           [t |-> "iface", class |-> "hidboot", proto |-> "mouse"], [t |-> "ep", intr_in |-> TRUE]>>
MCMouse == <<[t |-> "iface", class |-> "other", proto |-> "mouse"], [t |-> "ep", intr_in |-> TRUE],
             [t |-> "iface", class |-> "hidboot", proto |-> "mouse"], [t |-> "ep", intr_in |-> TRUE]>>
MCHub == <<[t |-> "iface", class |-> "hub", proto |-> "none"], [t |-> "ep", intr_in |-> TRUE]>>

MCDevices == {"h", "k", "m", "n"}
MCCfg == [h |-> MCHub, k |-> MCKbd, m |-> MCMouse, n |-> MCMouse]
MCWired(root, inhub) ==
    [root |-> root, kids |-> [d \in MCDevices |-> IF d = "h" THEN inhub ELSE <<>>],
     class9 |-> [d \in MCDevices |-> FALSE], cfg |-> MCCfg]

(* A keyboard and a mouse behind a hub and a mouse beside it, on UHCI and  *)
(* on OHCI; a UHCI hub with nothing in it and a mouse on OHCI, behind xHCI; *)
(* native xHCI ports.                                                      *)
MCMachines ==
    {[uhci |-> MCWired(<<"h", "n">>, <<"k", "m">>), ohci |-> NoBus, xhci |-> FALSE, ports |-> <<>>],
     [uhci |-> NoBus, ohci |-> MCWired(<<"h", "n">>, <<"k", "m">>), xhci |-> FALSE, ports |-> <<>>],
     [uhci |-> MCWired(<<"h">>, <<>>), ohci |-> MCWired(<<"m">>, <<>>), xhci |-> TRUE,
      ports |-> <<>>],
     [uhci |-> NoBus, ohci |-> NoBus, xhci |-> TRUE, ports |-> <<{"kbd"}, {"mouse"}>>],
     [uhci |-> NoBus, ohci |-> NoBus, xhci |-> TRUE, ports |-> <<{"mouse"}, {"kbd"}>>],
     [uhci |-> NoBus, ohci |-> NoBus, xhci |-> TRUE, ports |-> <<{}, {"kbd", "mouse"}>>]}

MCReports == <<[shift |-> FALSE, keys |-> <<"a", "b">>], [shift |-> TRUE, keys |-> <<"c", "d">>],
               [shift |-> FALSE, keys |-> <<"d", "a">>]>>
============================================================================
