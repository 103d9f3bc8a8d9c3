CONSTANTS
  Adapter = {"hero_sms", "sms_bower", "tiger_sms", "sms_pool", "sms_code", "custom_http"}
  Poller = {p1}
  MaxActivations = 3
  Limit <- MCLimit
  CodePage = 1
SPECIFICATION Spec
PROPERTIES OutcomeIsShown BalanceFollows PollsKeepLiveNumbers
