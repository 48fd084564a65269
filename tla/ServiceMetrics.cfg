CONSTANTS
  Interfaces = {lan, wlan}
  FirstOctets = {0, 2, 3}
  Octets = 4
  Wide = 16
  MaxEvents = 4
SPECIFICATION MetricsSpec
INVARIANTS
  MetricsTypeOK
  RatesAreTraffic
