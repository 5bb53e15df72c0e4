\* Every token, data packets with every byte, and what a line may do to them.
SPECIFICATION PacketSpec
CONSTANTS
    PIO_USB_EP_SIZE = 7
    Payloads <- MCPayloads
    Words <- MCWords
    Disturbed <- MCDisturbed
INVARIANTS ChecksAgree EncodingFits NotFooled
PROPERTY SoundIsTaken
